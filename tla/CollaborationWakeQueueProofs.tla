--------------------- MODULE CollaborationWakeQueueProofs ---------------------
(****************************************************************************)
(* Theorems of CollaborationWakeQueue, for any sessions and any number of   *)
(* notifications, attempts and crashes: the type invariant, no replay of    *)
(* input a harness may have, the budget of attempts, the durability of a    *)
(* pause, one wake at a time in a session.  RowInv says of each wake how    *)
(* its row, the admission under way and what the harness got go together.   *)
(****************************************************************************)
EXTENDS CollaborationWakeQueue, TLAPS

Before == {"preparing", "cleared", "refused", "deferred"}
After  == {"submitting", "submitted"}

\* The row is written ahead of the call, and the harness has nothing before "submitted".
RowInv(n) ==
  /\ call[n].pc \in Before => wake[n].state = "preparing"
  /\ call[n].pc = "confirming" => wake[n].state = "dispatching"
  /\ call[n].pc \in After => wake[n].state \in {"dispatching", "admitted"}
  /\ call[n].pc # "none" => wake[n].attempts = call[n].attempts + 1 /\ tries[n] >= 1
  /\ tries[n] <= wake[n].attempts
  /\ wake[n].state = "absent" => wake[n].attempts = 0
  /\ handed[n] <= 1
  /\ handed[n] = 1 => /\ call[n].pc \in {"none", "submitted"}
                      /\ wake[n].state \in {"dispatching", "admitted", "uncertain"}
  /\ host = "down" => call[n].pc = "none"

RowsInv == \A n \in Notes : RowInv(n)

\* What pauses a session in memory only is a handoff past its receipt.
PauseInv ==
  host # "down" =>
    /\ pausedRows \subseteq paused
    /\ \A s \in paused \ pausedRows :
         \E n \in Notes : wake[n].session = s /\ wake[n].state = "dispatching" /\ call[n].pc # "confirming"

Inv == TypeOK /\ RowsInv /\ PauseInv /\ OneAtATime

-----------------------------------------------------------------------------
(* Types.                                                                    *)

Wakes == [state : States, session : Sessions, attempts : 0..MaxAttempts, due : BOOLEAN]
Pcs   == {"none", "preparing", "cleared", "refused", "deferred", "confirming", "submitting", "submitted"}
Calls == [pc : Pcs, attempts : 0..MaxAttempts]

\* Moving one admission keeps the calls typed.
LEMMA AtType ==
  ASSUME TypeOK, NEW n \in Notes, NEW pc \in Pcs, At(n, pc)
  PROVE  call' \in [Notes -> Calls]
BY DEF TypeOK, At, Calls, Pcs

\* What flush does to the rows and the calls, without the order it goes in.
Flushes(spent, taken) ==
  /\ \A n \in spent \cup taken : wake[n].state = "queued" /\ wake[n].session \in Sessions
  /\ \A n \in taken : /\ wake[n].attempts < MaxAttempts /\ n \notin spent
                     /\ wake[n].session \notin delivering
  /\ \A m, n \in taken : m # n => wake[m].session # wake[n].session
  /\ wake' = [n \in Notes |->
       CASE n \in spent -> Updated(wake[n], "failed", wake[n].attempts, wake[n].due)
         [] n \in taken -> Taken(wake[n])
         [] OTHER -> wake[n]]
  /\ Pause({wake[n].session : n \in spent})
  /\ delivering' = delivering \cup {wake[n].session : n \in taken}
  /\ call' = [n \in Notes |-> IF n \in taken THEN [pc |-> "preparing", attempts |-> wake[n].attempts] ELSE call[n]]
  /\ timer' \in BOOLEAN
  /\ tries' = [n \in Notes |-> IF n \in taken THEN tries[n] + 1 ELSE tries[n]]

\* Flush is such a step: it takes one wake of a session, and none of one that is delivering.
LEMMA FlushEffect ==
  ASSUME TypeOK, Flush
  PROVE  \E spent, taken \in SUBSET Notes : Flushes(spent, taken)
<1> DEFINE heads == UNION {Heads(s) : s \in Sessions}
           spent == {n \in heads : Spent(n)}
           taken == heads \ spent
<1>1. \A n \in heads : n \in Notes /\ wake[n].state = "queued"
  BY DEF Heads, Pending
<1>2. \A n \in Notes : wake[n].session \in Sessions /\ wake[n].attempts \in Int
  BY SomeAttempts DEF TypeOK
<1>3. \A n \in taken : wake[n].attempts < MaxAttempts
  BY <1>1, <1>2, SomeAttempts DEF Spent
<1>4. timer' \in BOOLEAN
  BY DEF Flush
<1>5. spent \in SUBSET Notes /\ taken \in SUBSET Notes
  BY <1>1
<1>6. /\ wake' = [n \in Notes |->
            CASE n \in spent -> Updated(wake[n], "failed", wake[n].attempts, wake[n].due)
              [] n \in taken -> Taken(wake[n])
              [] OTHER -> wake[n]]
      /\ Pause({wake[n].session : n \in spent})
      /\ delivering' = delivering \cup {wake[n].session : n \in taken}
      /\ call' = [n \in Notes |-> IF n \in taken THEN [pc |-> "preparing", attempts |-> wake[n].attempts]
                                                 ELSE call[n]]
      /\ tries' = [n \in Notes |-> IF n \in taken THEN tries[n] + 1 ELSE tries[n]]
  BY DEF Flush
<1>7. \A n \in spent \cup taken : wake[n].state = "queued" /\ wake[n].session \in Sessions
  BY <1>1, <1>2
<1>8. \A n \in taken : n \notin spent
  OBVIOUS
<1>9. ASSUME NEW n \in heads
      PROVE  n \in Heads(wake[n].session) /\ wake[n].session \notin delivering
  BY DEF Heads, Pending
<1>10. ASSUME NEW m \in taken, NEW n \in taken, wake[m].session = wake[n].session
       PROVE  m = n
  <2>1. m \in Heads(wake[m].session) /\ n \in Heads(wake[m].session) /\ m \in Nat /\ n \in Nat
    BY <1>1, <1>9, <1>10 DEF Notes
  <2>2. m <= n /\ n <= m
    BY <2>1 DEF Heads
  <2> QED
    BY <2>1, <2>2
<1>11. \A n \in taken : wake[n].session \notin delivering
  BY <1>9
<1> HIDE DEF spent, taken
<1> QED
  BY <1>3, <1>4, <1>5, <1>6, <1>7, <1>8, <1>10, <1>11 DEF Flushes

\* flush keeps every variable it writes typed.
LEMMA FlushTypes ==
  ASSUME TypeOK, Flush
  PROVE  /\ wake' \in [Notes -> Wakes] /\ call' \in [Notes -> Calls]
         /\ pausedRows' \subseteq Sessions /\ paused' \subseteq Sessions /\ delivering' \subseteq Sessions
         /\ timer' \in BOOLEAN /\ tries' \in [Notes -> Nat]
<1>1. PICK spent, taken \in SUBSET Notes : Flushes(spent, taken)
  BY FlushEffect
<1> USE DEF Flushes
<1>2. wake \in [Notes -> Wakes] /\ call \in [Notes -> Calls] /\ tries \in [Notes -> Nat]
  BY DEF TypeOK, Wakes, Calls, Pcs
<1>3. \A n \in Notes : Updated(wake[n], "failed", wake[n].attempts, wake[n].due) \in Wakes
  BY <1>2 DEF Wakes, Updated, States
<1>4. \A n \in taken : Taken(wake[n]) \in Wakes
  <2> TAKE n \in taken
  <2>1. wake[n].attempts + 1 \in 0..MaxAttempts
    BY <1>1, <1>2, SomeAttempts DEF Wakes
  <2>2. "preparing" \in States
    BY DEF States, InFlight
  <2> QED
    BY <1>2, <2>1, <2>2 DEF Taken, Updated, Wakes
<1>5. wake' \in [Notes -> Wakes]
  BY <1>1, <1>2, <1>3, <1>4
<1>6. call' \in [Notes -> Calls]
  BY <1>1, <1>2 DEF Wakes, Calls, Pcs
<1>7. pausedRows' \subseteq Sessions /\ paused' \subseteq Sessions /\ delivering' \subseteq Sessions
  BY <1>1 DEF TypeOK, Pause
<1>8. tries' \in [Notes -> Nat]
  BY <1>1, <1>2
<1> QED
  BY <1>1, <1>5, <1>6, <1>7, <1>8

\* So does the catch of admit.
LEMMA GiveBackTypes ==
  ASSUME TypeOK, NEW n \in Notes, NEW attempts \in 0..MaxAttempts, NEW due \in BOOLEAN,
         GiveBack(n, attempts, due)
  PROVE  /\ wake' \in [Notes -> Wakes] /\ call' \in [Notes -> Calls]
         /\ pausedRows' \subseteq Sessions /\ paused' \subseteq Sessions /\ delivering' \subseteq Sessions
<1>1. wake \in [Notes -> Wakes] /\ call \in [Notes -> Calls]
  BY DEF TypeOK, Wakes, Calls, Pcs
<1>2. (IF attempts >= MaxAttempts THEN "failed" ELSE "queued") \in States
  BY DEF States
<1>3. wake' \in [Notes -> Wakes]
  BY <1>1, <1>2 DEF GiveBack, Updated, Wakes
<1>4. Idle \in Calls
  BY SomeAttempts DEF Idle, Calls, Pcs
<1>5. call' \in [Notes -> Calls]
  BY <1>1, <1>4 DEF GiveBack
<1>6. wake[n].session \in Sessions
  BY <1>1 DEF Wakes
<1>7. pausedRows' \subseteq Sessions /\ paused' \subseteq Sessions /\ delivering' \subseteq Sessions
  BY <1>6 DEF GiveBack, Pause, TypeOK
<1> QED
  BY <1>3, <1>5, <1>7

\* The types hold at the start.
LEMMA TypeInit == Init => TypeOK
<1> SUFFICES ASSUME Init PROVE TypeOK
  OBVIOUS
<1>1. PICK s \in Sessions :
        wake = [n \in Notes |-> [state |-> "absent", session |-> s, attempts |-> 0, due |-> TRUE]]
  BY DEF Init
<1>2. [state |-> "absent", session |-> s, attempts |-> 0, due |-> TRUE] \in Wakes
  BY SomeAttempts DEF Wakes, States
<1>3. wake \in [Notes -> Wakes]
  BY <1>1, <1>2
<1>4. Idle \in Calls
  BY SomeAttempts DEF Idle, Calls, Pcs
<1>5. call \in [Notes -> Calls]
  BY <1>4 DEF Init
<1>6. handed \in [Notes -> Nat] /\ tries \in [Notes -> Nat]
  BY DEF Init
<1>7. /\ pausedRows \subseteq Sessions /\ paused \subseteq Sessions /\ delivering \subseteq Sessions
      /\ scheduled \in BOOLEAN /\ timer \in BOOLEAN /\ host \in {"up", "closed", "down"}
      /\ ready \subseteq Sessions /\ retired \subseteq Sessions
  BY DEF Init
<1>8. stops \in 0..MaxStops
  BY StopsAreCounted DEF Init
<1> QED
  BY <1>3, <1>5, <1>6, <1>7, <1>8 DEF TypeOK, Wakes, Calls, Pcs

\* And every step keeps them; an attempt that fails was counted below the budget (RowsInv).
LEMMA TypeStep ==
  ASSUME TypeOK, RowsInv, [Next]_vars
  PROVE  TypeOK'
<1>1. wake \in [Notes -> Wakes] /\ call \in [Notes -> Calls] /\ Idle \in Calls
  BY SomeAttempts DEF TypeOK, Wakes, Calls, Pcs, Idle
<1>2. ASSUME NEW n \in Notes, NEW s \in Sessions, Enqueue(n, s)
      PROVE  TypeOK'
  <2>1. [state |-> "queued", session |-> s, attempts |-> 0, due |-> TRUE] \in Wakes
    BY SomeAttempts DEF Wakes, States
  <2>2. wake' \in [Notes -> Wakes]
    BY <1>1, <1>2, <2>1 DEF Enqueue
  <2> QED
    BY <1>2, <2>2 DEF TypeOK, Enqueue, Wakes, worldVars, countVars
<1>3. CASE Nudge
  BY <1>3 DEF TypeOK, Nudge, rowVars, worldVars, countVars
<1>4. ASSUME NEW s \in Sessions, Busy(s)
      PROVE  TypeOK'
  BY <1>4 DEF TypeOK, Busy, rowVars, memoryVars, countVars
<1>5. ASSUME NEW s \in Sessions, BecomesReady(s)
      PROVE  TypeOK'
  BY <1>5 DEF TypeOK, BecomesReady, Started, rowVars, countVars
<1>6. ASSUME NEW s \in Sessions, ObserveStop(s)
      PROVE  TypeOK'
  BY <1>6 DEF TypeOK, ObserveStop, Pause, worldVars, countVars
<1>7. ASSUME NEW s \in Sessions, ObserveOutput(s)
      PROVE  TypeOK'
  BY <1>7 DEF TypeOK, ObserveOutput, worldVars, countVars
<1>8. ASSUME NEW from \in Sessions, NEW to \in Sessions, Migrate(from, to)
      PROVE  TypeOK'
  <2>1. wake' \in [Notes -> Wakes]
    BY <1>1, <1>8 DEF Migrate, Wakes
  <2> QED
    BY <1>8, <2>1 DEF TypeOK, Migrate, Wakes, countVars
<1>9. CASE Microtask
  BY <1>9, FlushTypes DEF TypeOK, Microtask, worldVars, Wakes, Calls, Pcs
<1>10. CASE TimerFires
  BY <1>10, FlushTypes DEF TypeOK, TimerFires, worldVars, Wakes, Calls, Pcs
<1>11. ASSUME NEW n \in Notes, DelayOver(n)
       PROVE  TypeOK'
  <2>1. wake' \in [Notes -> Wakes]
    BY <1>1, <1>11 DEF DelayOver, Wakes
  <2> QED
    BY <1>11, <2>1 DEF TypeOK, DelayOver, Wakes, memoryVars, worldVars, countVars
<1>12. ASSUME NEW n \in Notes, BeforeInput(n)
       PROVE  TypeOK'
  <2>1. PICK pc \in {"deferred", "cleared"} : At(n, pc)
    BY <1>12 DEF BeforeInput
  <2>2. call' \in [Notes -> Calls]
    BY <2>1, AtType DEF Pcs
  <2> QED
    BY <1>12, <2>2 DEF TypeOK, BeforeInput, Calls, Pcs, rowVars, worldVars, countVars
<1>13. ASSUME NEW n \in Notes, PreparationFails(n)
       PROVE  TypeOK'
  <2>1. call' \in [Notes -> Calls]
    BY <1>13, AtType DEF PreparationFails, Pcs
  <2> QED
    BY <1>13, <2>1 DEF TypeOK, PreparationFails, Calls, Pcs, rowVars, worldVars, countVars
<1>14. ASSUME NEW n \in Notes, Confirm(n)
       PROVE  TypeOK'
  <2>1. call' \in [Notes -> Calls]
    BY <1>14, AtType DEF Confirm, Pcs
  <2>2. wake' \in [Notes -> Wakes]
    BY <1>1, <1>14 DEF Confirm, Wakes, States, InFlight
  <2> QED
    BY <1>14, <2>1, <2>2 DEF TypeOK, Confirm, Wakes, Calls, Pcs, worldVars, countVars
<1>15. ASSUME NEW n \in Notes, NEW written \in BOOLEAN, Receipt(n, written)
       PROVE  TypeOK'
  <2>1. call' \in [Notes -> Calls]
    BY <1>15, AtType DEF Receipt, Pcs
  <2>2. wake' \in [Notes -> Wakes]
    BY <1>1, <1>15 DEF Receipt, Wakes, States
  <2>3. paused' \subseteq Sessions
    BY <1>1, <1>15 DEF Receipt, TypeOK, Wakes
  <2> QED
    BY <1>15, <2>1, <2>2, <2>3 DEF TypeOK, Receipt, Wakes, Calls, Pcs, worldVars, countVars
<1>16. ASSUME NEW n \in Notes, NEW taken \in BOOLEAN, Submit(n, taken)
       PROVE  TypeOK'
  <2>1. call' \in [Notes -> Calls]
    BY <1>16, AtType DEF Submit, Pcs
  <2>2. handed' \in [Notes -> Nat]
    BY <1>16 DEF Submit, TypeOK
  <2> QED
    BY <1>16, <2>1, <2>2 DEF TypeOK, Submit, Calls, Pcs, rowVars, worldVars
<1>17. ASSUME NEW n \in Notes, AdmitReturns(n)
       PROVE  TypeOK'
  <2>1. call' \in [Notes -> Calls]
    BY <1>1, <1>17 DEF AdmitReturns
  <2> QED
    BY <1>17, <2>1 DEF TypeOK, AdmitReturns, Started, Calls, Pcs, rowVars, worldVars, countVars
<1>18. ASSUME NEW n \in Notes, AdmitFails(n)
       PROVE  TypeOK'
  <2>1. call[n].attempts + 1 = wake[n].attempts
    BY <1>18 DEF RowsInv, RowInv, AdmitFails
  <2>2. call[n].attempts + 1 \in 0..MaxAttempts
    BY <1>1, <2>1 DEF Wakes
  <2>3. GiveBack(n, call[n].attempts + 1, FALSE)
    BY <1>18 DEF AdmitFails
  <2>4. /\ wake' \in [Notes -> Wakes] /\ call' \in [Notes -> Calls]
        /\ pausedRows' \subseteq Sessions /\ paused' \subseteq Sessions /\ delivering' \subseteq Sessions
    BY <2>2, <2>3, GiveBackTypes
  <2> QED
    BY <1>18, <2>4 DEF TypeOK, AdmitFails, Wakes, Calls, Pcs, worldVars, countVars
<1>19. ASSUME NEW n \in Notes, AdmitDeferred(n)
       PROVE  TypeOK'
  <2>1. call[n].attempts \in 0..MaxAttempts
    BY <1>1 DEF Calls
  <2>2. tries[n] >= 1
    BY <1>19 DEF RowsInv, RowInv, AdmitDeferred
  <2>3. tries' \in [Notes -> Nat]
    BY <1>19, <2>2 DEF AdmitDeferred, TypeOK
  <2>4. GiveBack(n, call[n].attempts, TRUE)
    BY <1>19 DEF AdmitDeferred
  <2>5. /\ wake' \in [Notes -> Wakes] /\ call' \in [Notes -> Calls]
        /\ pausedRows' \subseteq Sessions /\ paused' \subseteq Sessions /\ delivering' \subseteq Sessions
    BY <2>1, <2>4, GiveBackTypes
  <2> QED
    BY <1>19, <2>3, <2>5 DEF TypeOK, AdmitDeferred, Wakes, Calls, Pcs, worldVars
<1>20. CASE Dispose
  <2>1. stops' \in 0..MaxStops
    BY <1>20, StopsAreCounted DEF Dispose, TypeOK
  <2> QED
    BY <1>20, <2>1 DEF TypeOK, Dispose, rowVars, countVars
<1>21. CASE Crash
  <2>1. call' \in [Notes -> Calls]
    BY <1>1, <1>21 DEF Crash
  <2>2. stops' \in 0..MaxStops
    BY <1>21, StopsAreCounted DEF Crash, TypeOK
  <2> QED
    BY <1>21, <2>1, <2>2 DEF TypeOK, Crash, Calls, Pcs, rowVars, countVars
<1>22. CASE Boot
  <2>1. \A state \in States : Recovered(state) \in States
    BY DEF Recovered, States, InFlight
  <2>2. wake' \in [Notes -> Wakes]
    BY <1>1, <1>22, <2>1 DEF Boot, Wakes
  <2>3. pausedRows' \subseteq Sessions
    BY <1>1, <1>22 DEF Boot, TypeOK, Wakes
  <2> QED
    BY <1>22, <2>2, <2>3 DEF TypeOK, Boot, Wakes, countVars
<1>23. CASE UNCHANGED vars
  BY <1>23 DEF TypeOK, vars, rowVars, memoryVars, worldVars, countVars
<1> QED
  BY <1>2, <1>3, <1>4, <1>5, <1>6, <1>7, <1>8, <1>9, <1>10, <1>11, <1>12, <1>13, <1>14, <1>15, <1>16,
     <1>17, <1>18, <1>19, <1>20, <1>21, <1>22, <1>23 DEF Next

-----------------------------------------------------------------------------
(* Rows, admissions and handoffs.                                            *)

\* The fields of one row and one call.
LEMMA RowTypes ==
  ASSUME TypeOK, NEW n \in Notes
  PROVE  /\ wake[n] \in Wakes /\ call[n].pc \in Pcs
         /\ wake[n].attempts \in Int /\ call[n].attempts \in Int
         /\ handed[n] \in Nat /\ tries[n] \in Nat
BY SomeAttempts DEF TypeOK, Wakes, Pcs

\* A row no action touches, in a process that did not just die.
LEMMA RowFrame ==
  ASSUME NEW n \in Notes, RowInv(n), host' = "down" => host = "down",
         wake'[n] = wake[n], call'[n] = call[n], handed'[n] = handed[n], tries'[n] = tries[n]
  PROVE  RowInv(n)'
BY DEF RowInv

\* The same for all wakes at once.
LEMMA RowFramed ==
  ASSUME RowsInv, host' = "down" => host = "down", UNCHANGED <<wake, call, handed, tries>>
  PROVE  RowsInv'
BY RowFrame DEF RowsInv

\* A row that waits has no admission under way and was never handed over.
LEMMA QueuedIsIdle ==
  ASSUME TypeOK, NEW n \in Notes, RowInv(n), wake[n].state \in {"absent", "queued"}
  PROVE  call[n].pc = "none" /\ handed[n] = 0
BY RowTypes DEF RowInv, Pcs, Before, After

\* flush takes and gives up queued wakes only, which no admission is under way for.
LEMMA FlushRows ==
  ASSUME TypeOK, RowsInv, Flush, host = "up", UNCHANGED <<host, handed>>
  PROVE  RowsInv'
<1> SUFFICES ASSUME NEW k \in Notes
             PROVE  RowInv(k)'
  BY DEF RowsInv
<1>1. PICK spent, taken \in SUBSET Notes : Flushes(spent, taken)
  BY FlushEffect
<1> USE DEF Flushes
<1>2. RowInv(k)
  BY DEF RowsInv
<1>3. CASE k \in taken
  <2>1. call[k].pc = "none" /\ handed[k] = 0 /\ tries[k] \in Nat /\ wake[k].attempts \in Int
    BY <1>1, <1>2, <1>3, QueuedIsIdle, RowTypes
  <2>2. /\ wake'[k] = Taken(wake[k]) /\ tries'[k] = tries[k] + 1
        /\ call'[k] = [pc |-> "preparing", attempts |-> wake[k].attempts]
    BY <1>1, <1>3
  <2>3. tries[k] <= wake[k].attempts
    BY <1>2 DEF RowInv
  <2>4. wake'[k].state = "preparing" /\ wake'[k].attempts = wake[k].attempts + 1
    BY <2>2 DEF Taken, Updated
  <2> QED
    BY <2>1, <2>2, <2>3, <2>4 DEF RowInv, Before, After
<1>4. CASE k \in spent
  <2>1. call[k].pc = "none" /\ handed[k] = 0
    BY <1>1, <1>2, <1>4, QueuedIsIdle
  <2>2. k \notin taken
    BY <1>1, <1>4
  <2>3. wake'[k] = Updated(wake[k], "failed", wake[k].attempts, wake[k].due) /\ tries'[k] = tries[k] /\ call'[k] = call[k]
    BY <1>1, <1>4, <2>2
  <2>4. wake'[k].state = "failed" /\ wake'[k].attempts = wake[k].attempts
    BY <2>3 DEF Updated
  <2> QED
    BY <1>2, <2>1, <2>3, <2>4 DEF RowInv, Before, After
<1>5. CASE k \notin taken /\ k \notin spent
  <2>1. wake'[k] = wake[k] /\ call'[k] = call[k] /\ tries'[k] = tries[k]
    BY <1>1, <1>5
  <2> QED
    BY <1>2, <2>1, RowFrame
<1> QED
  BY <1>3, <1>4, <1>5

\* An action of one wake leaves the others alone.
LEMMA OneRow ==
  ASSUME RowsInv, NEW n \in Notes, RowInv(n)', host' = "down" => host = "down",
         \A k \in Notes \ {n} : /\ wake'[k] = wake[k] /\ call'[k] = call[k]
                                /\ handed'[k] = handed[k] /\ tries'[k] = tries[k]
  PROVE  RowsInv'
<1> SUFFICES ASSUME NEW k \in Notes
             PROVE  RowInv(k)'
  BY DEF RowsInv
<1>1. CASE k = n
  BY <1>1
<1>2. CASE k # n
  BY <1>2, RowFrame DEF RowsInv
<1> QED
  BY <1>1, <1>2

\* The rows agree with the calls at the start.
LEMMA RowsInit == Init => RowsInv
BY DEF Init, RowsInv, RowInv, Idle, Before, After

\* And after every step.
LEMMA RowsStep ==
  ASSUME TypeOK, RowsInv, [Next]_vars
  PROVE  RowsInv'
<1>1. wake \in [Notes -> Wakes] /\ call \in [Notes -> Calls]
      /\ handed \in [Notes -> Nat] /\ tries \in [Notes -> Nat]
  BY DEF TypeOK, Wakes, Calls, Pcs
<1>2. ASSUME NEW n \in Notes, NEW s \in Sessions, Enqueue(n, s)
      PROVE  RowsInv'
  <2>1. RowInv(n) /\ call[n].pc = "none" /\ handed[n] = 0 /\ tries[n] \in Nat
    BY <1>2, QueuedIsIdle, RowTypes DEF RowsInv, Enqueue
  <2>2. tries[n] = 0
    BY <1>2, <2>1 DEF RowInv, Enqueue
  <2>3. wake'[n] = [state |-> "queued", session |-> s, attempts |-> 0, due |-> TRUE]
    BY <1>1, <1>2 DEF Enqueue
  <2>4. RowInv(n)'
    BY <1>2, <2>1, <2>2, <2>3 DEF RowInv, Enqueue, worldVars, countVars, Before, After
  <2> QED
    BY <1>1, <1>2, <2>4, OneRow DEF Enqueue, worldVars, countVars
<1>3. CASE Nudge
  BY <1>3, RowFramed DEF Nudge, rowVars, worldVars, countVars
<1>4. ASSUME NEW s \in Sessions, Busy(s) \/ BecomesReady(s) \/ ObserveStop(s) \/ ObserveOutput(s)
      PROVE  RowsInv'
  BY <1>4, RowFramed DEF Busy, BecomesReady, ObserveStop, ObserveOutput, rowVars, memoryVars, worldVars, countVars
<1>5. ASSUME NEW from \in Sessions, NEW to \in Sessions, Migrate(from, to)
      PROVE  RowsInv'
  <2> SUFFICES ASSUME NEW k \in Notes
               PROVE  RowInv(k)'
    BY DEF RowsInv
  <2>1. wake'[k].state = wake[k].state /\ wake'[k].attempts = wake[k].attempts
    BY <1>1, <1>5 DEF Migrate, Wakes
  <2> QED
    BY <1>5, <2>1 DEF RowsInv, RowInv, Migrate, countVars
<1>6. CASE Microtask \/ TimerFires
  BY <1>6, FlushRows DEF Microtask, TimerFires, worldVars
<1>7. ASSUME NEW n \in Notes, DelayOver(n)
      PROVE  RowsInv'
  <2>1. wake'[n].state = wake[n].state /\ wake'[n].attempts = wake[n].attempts
    BY <1>1, <1>7 DEF DelayOver, Wakes
  <2>2. RowInv(n)'
    BY <1>7, <2>1 DEF RowsInv, RowInv, DelayOver, memoryVars, worldVars, countVars
  <2> QED
    BY <1>1, <1>7, <2>2, OneRow DEF DelayOver, memoryVars, worldVars, countVars
<1>8. ASSUME NEW n \in Notes, BeforeInput(n) \/ PreparationFails(n)
      PROVE  RowsInv'
  <2>1. PICK pc \in {"deferred", "cleared", "refused"} : At(n, pc)
    BY <1>8 DEF BeforeInput, PreparationFails
  <2>2. call[n].pc \in {"preparing", "cleared"} /\ UNCHANGED <<wake, handed, tries, host>>
    BY <1>8 DEF BeforeInput, PreparationFails, rowVars, worldVars, countVars
  <2>3. call'[n].pc = pc /\ call'[n].attempts = call[n].attempts
    BY <1>1, <2>1 DEF At, Calls
  <2>4. RowInv(n)'
    BY <2>2, <2>3, <1>8 DEF RowsInv, RowInv, Before, After, BeforeInput, PreparationFails
  <2> QED
    BY <1>1, <2>1, <2>2, <2>4, OneRow DEF At
<1>9. ASSUME NEW n \in Notes, Confirm(n)
      PROVE  RowsInv'
  <2>1. call'[n].pc = "confirming" /\ call'[n].attempts = call[n].attempts
    BY <1>1, <1>9 DEF Confirm, At, Calls
  <2>2. wake'[n].state = "dispatching" /\ wake'[n].attempts = wake[n].attempts
    BY <1>1, <1>9 DEF Confirm, Wakes
  <2>3. RowInv(n)'
    BY <1>9, <2>1, <2>2 DEF RowsInv, RowInv, Before, After, Confirm, worldVars, countVars
  <2> QED
    BY <1>1, <1>9, <2>3, OneRow DEF Confirm, At, worldVars, countVars
<1>10. ASSUME NEW n \in Notes, NEW written \in BOOLEAN, Receipt(n, written)
       PROVE  RowsInv'
  <2>1. call'[n].pc = "submitting" /\ call'[n].attempts = call[n].attempts
    BY <1>1, <1>10 DEF Receipt, At, Calls
  <2>2. wake'[n].state \in {wake[n].state, "admitted"} /\ wake'[n].attempts = wake[n].attempts
    BY <1>1, <1>10 DEF Receipt, Wakes
  <2>3. wake[n].state = "dispatching" /\ handed[n] # 1
    BY <1>10 DEF Receipt, RowsInv, RowInv
  <2>4. RowInv(n)'
    BY <1>10, <2>1, <2>2, <2>3 DEF RowsInv, RowInv, Before, After, Receipt, worldVars, countVars
  <2> QED
    BY <1>1, <1>10, <2>4, OneRow DEF Receipt, At, worldVars, countVars
<1>11. ASSUME NEW n \in Notes, NEW taken \in BOOLEAN, Submit(n, taken)
       PROVE  RowsInv'
  <2>1. call'[n].pc = "submitted" /\ call'[n].attempts = call[n].attempts
    BY <1>1, <1>11 DEF Submit, At, Calls
  <2>2. handed[n] = 0
    <3>1. handed[n] \in Nat
      BY <1>1
    <3>2. handed[n] <= 1 /\ handed[n] # 1
      BY <1>11 DEF Submit, RowsInv, RowInv
    <3> QED
      BY <3>1, <3>2
  <2>3. handed'[n] \in {0, 1}
    BY <1>1, <1>11, <2>2 DEF Submit
  <2>4. RowInv(n)'
    BY <1>11, <2>1, <2>3 DEF RowsInv, RowInv, Before, After, Submit, rowVars, worldVars
  <2> QED
    BY <1>1, <1>11, <2>4, OneRow DEF Submit, At, rowVars, worldVars
<1>12. ASSUME NEW n \in Notes, AdmitReturns(n)
       PROVE  RowsInv'
  <2>1. call'[n].pc = "none"
    BY <1>1, <1>12 DEF AdmitReturns, Idle
  <2>2. RowInv(n)'
    BY <1>12, <2>1 DEF RowsInv, RowInv, Before, After, AdmitReturns, rowVars, worldVars, countVars
  <2> QED
    BY <1>1, <1>12, <2>2, OneRow DEF AdmitReturns, rowVars, worldVars, countVars
<1>13. ASSUME NEW n \in Notes, AdmitFails(n) \/ AdmitDeferred(n)
       PROVE  RowsInv'
  <2>1. call[n].pc \in Before /\ RowInv(n)
    BY <1>13 DEF AdmitFails, AdmitDeferred, Before, RowsInv
  <2>2. wake[n].attempts = call[n].attempts + 1 /\ handed[n] # 1 /\ tries[n] <= wake[n].attempts
    BY <2>1 DEF RowInv, Before
  <2>3. PICK attempts \in 0..MaxAttempts, due \in BOOLEAN :
          /\ GiveBack(n, attempts, due)
          /\ \/ attempts = wake[n].attempts /\ tries'[n] = tries[n]
             \/ attempts = wake[n].attempts - 1 /\ tries'[n] = tries[n] - 1
    <3>1. call[n].attempts \in 0..MaxAttempts /\ wake[n].attempts \in 0..MaxAttempts
      BY <1>1 DEF Wakes, Calls
    <3>2. CASE AdmitFails(n)
      BY <2>2, <3>1, <3>2 DEF AdmitFails, countVars
    <3>3. CASE AdmitDeferred(n)
      <4>1. GiveBack(n, call[n].attempts, TRUE) /\ tries'[n] = tries[n] - 1
        BY <1>1, <3>3 DEF AdmitDeferred
      <4>2. call[n].attempts = wake[n].attempts - 1
        BY <2>2, <3>1
      <4> QED
        BY <3>1, <4>1, <4>2
    <3> QED
      BY <1>13, <3>2, <3>3
  <2>4. wake'[n].state \in {"queued", "failed"} /\ wake'[n].attempts = attempts /\ call'[n].pc = "none"
    BY <1>1, <2>3 DEF GiveBack, Updated, Idle
  <2>5. handed' = handed /\ host' = host
    BY <1>13 DEF AdmitFails, AdmitDeferred, worldVars, countVars
  <2>6. tries'[n] <= wake'[n].attempts
    BY <1>1, <2>2, <2>3, <2>4 DEF Wakes
  <2>7. RowInv(n)'
    BY <2>1, <2>2, <2>4, <2>5, <2>6 DEF RowInv, Before, After
  <2>8. \A k \in Notes \ {n} : wake'[k] = wake[k] /\ call'[k] = call[k] /\ tries'[k] = tries[k]
    BY <1>1, <1>13, <2>3 DEF GiveBack, AdmitFails, AdmitDeferred, countVars
  <2> QED
    BY <2>5, <2>7, <2>8, OneRow
<1>14. CASE Dispose
  BY <1>14, RowFramed DEF Dispose, rowVars, countVars
<1>15. CASE Crash
  <2>1. \A k \in Notes : call'[k].pc = "none"
    BY <1>15 DEF Crash, Idle
  <2> QED
    BY <1>15, <2>1 DEF RowsInv, RowInv, Before, After, Crash, rowVars, countVars
<1>16. CASE Boot
  <2> SUFFICES ASSUME NEW k \in Notes
               PROVE  RowInv(k)'
    BY DEF RowsInv
  <2>1. RowInv(k) /\ call[k].pc = "none" /\ call' = call /\ handed' = handed /\ tries' = tries
    BY <1>16 DEF RowsInv, RowInv, Boot, countVars
  <2>2. wake'[k].state = Recovered(wake[k].state) /\ wake'[k].attempts = wake[k].attempts
    BY <1>1, <1>16 DEF Boot, Wakes
  <2>3. /\ Recovered(wake[k].state) = "absent" => wake[k].state = "absent"
        /\ wake[k].state \in {"dispatching", "admitted", "uncertain"} =>
             Recovered(wake[k].state) \in {"dispatching", "admitted", "uncertain"}
    BY DEF Recovered
  <2> QED
    BY <2>1, <2>2, <2>3 DEF RowInv, Before, After
<1>17. CASE UNCHANGED vars
  BY <1>17, RowFramed DEF vars, rowVars, memoryVars, worldVars, countVars
<1> QED
  BY <1>2, <1>3, <1>4, <1>5, <1>6, <1>7, <1>8, <1>9, <1>10, <1>11, <1>12, <1>13, <1>14, <1>15, <1>16, <1>17
  DEF Next

-----------------------------------------------------------------------------
(* Pauses.                                                                   *)

\* Where neither set changes, it is enough that rows past their receipt stay.
LEMMA PauseFramed ==
  ASSUME PauseInv, host # "down", UNCHANGED <<pausedRows, paused>>,
         \A n \in Notes : wake[n].state = "dispatching" /\ call[n].pc # "confirming" =>
           wake'[n].session = wake[n].session /\ wake'[n].state = "dispatching" /\ call'[n].pc # "confirming"
  PROVE  PauseInv'
BY DEF PauseInv

\* pause() of some sessions, in which no row past its receipt changes.
LEMMA PausePauses ==
  ASSUME PauseInv, host # "down", NEW S, Pause(S),
         \A n \in Notes : wake[n].state = "dispatching" /\ call[n].pc # "confirming" =>
           wake'[n].session = wake[n].session /\ wake'[n].state = "dispatching" /\ call'[n].pc # "confirming"
  PROVE  PauseInv'
<1>1. pausedRows' = pausedRows \cup (S \ paused) /\ paused' = paused \cup S
  BY DEF Pause
<1>2. pausedRows' \subseteq paused'
  BY <1>1 DEF PauseInv
<1>3. \A s \in paused' \ pausedRows' : s \in paused \ pausedRows
  BY <1>1
<1> QED
  BY <1>2, <1>3 DEF PauseInv

\* Every step keeps the pauses of memory and table together.
LEMMA PauseStep ==
  ASSUME TypeOK, RowsInv, PauseInv, [Next]_vars
  PROVE  PauseInv'
<1>1. wake \in [Notes -> Wakes] /\ call \in [Notes -> Calls]
  BY DEF TypeOK, Wakes, Calls, Pcs
<1>2. ASSUME NEW n \in Notes, NEW s \in Sessions, Enqueue(n, s)
      PROVE  PauseInv'
  BY <1>1, <1>2, PauseFramed DEF Enqueue
<1>3. CASE Nudge
  BY <1>3, PauseFramed DEF Nudge, rowVars
<1>4. ASSUME NEW s \in Sessions, Busy(s) \/ BecomesReady(s)
      PROVE  PauseInv'
  BY <1>4, PauseFramed DEF Busy, BecomesReady, rowVars, memoryVars
<1>5. ASSUME NEW s \in Sessions, ObserveStop(s)
      PROVE  PauseInv'
  <2>1. Pause({s}) /\ UNCHANGED <<wake, call>> /\ host = "up"
    BY <1>5 DEF ObserveStop
  <2> QED
    BY <2>1, PausePauses
<1>6. ASSUME NEW s \in Sessions, ObserveOutput(s)
      PROVE  PauseInv'
  BY <1>6 DEF PauseInv, ObserveOutput, worldVars
<1>7. ASSUME NEW from \in Sessions, NEW to \in Sessions, Migrate(from, to)
      PROVE  PauseInv'
  <2>1. \A n \in Notes : wake[n].state = "dispatching" => wake[n].session # from
    BY <1>7 DEF Migrate, HasInFlight, InFlight
  <2>2. \A n \in Notes : wake[n].state = "dispatching" => wake'[n] = wake[n]
    BY <1>1, <1>7, <2>1 DEF Migrate
  <2>3. /\ pausedRows' = (pausedRows \ {from}) \cup ({to} \ paused)
        /\ paused' = (paused \ {from}) \cup {to}
        /\ call' = call /\ host = "up" /\ from # to
    BY <1>7 DEF Migrate
  <2>4. pausedRows' \subseteq paused'
    BY <2>3 DEF PauseInv
  <2>5. \A s \in paused' \ pausedRows' : s \in paused \ pausedRows
    BY <2>3 DEF PauseInv
  <2> QED
    BY <2>2, <2>3, <2>4, <2>5 DEF PauseInv
<1>8. CASE Microtask \/ TimerFires
  <2>1. PICK spent, taken \in SUBSET Notes : Flushes(spent, taken)
    BY <1>8, FlushEffect DEF Microtask, TimerFires
  <2> USE DEF Flushes
  <2>2. \A n \in Notes : wake[n].state = "dispatching" => wake'[n] = wake[n] /\ call'[n] = call[n]
    BY <2>1
  <2>3. host = "up"
    BY <1>8 DEF Microtask, TimerFires
  <2> QED
    BY <2>1, <2>2, <2>3, PausePauses
<1>9. ASSUME NEW n \in Notes, DelayOver(n)
      PROVE  PauseInv'
  <2>1. \A k \in Notes : wake[k].state = "dispatching" => wake'[k] = wake[k]
    BY <1>1, <1>9 DEF DelayOver
  <2> QED
    BY <1>9, <2>1 DEF PauseInv, DelayOver, memoryVars, worldVars
<1>10. ASSUME NEW n \in Notes, BeforeInput(n) \/ PreparationFails(n) \/ Confirm(n)
       PROVE  PauseInv'
  <2>1. PICK pc \in Pcs : At(n, pc)
    BY <1>10 DEF BeforeInput, PreparationFails, Confirm, Pcs
  <2>2. host # "down" /\ wake[n].state = "preparing" /\ UNCHANGED <<pausedRows, paused>>
    BY <1>10 DEF BeforeInput, PreparationFails, Confirm, RowsInv, RowInv, Before, rowVars
  <2>3. \A k \in Notes : wake[k].state = "dispatching" => wake'[k] = wake[k] /\ call'[k] = call[k]
    BY <1>1, <1>10, <2>1, <2>2 DEF BeforeInput, PreparationFails, Confirm, At, rowVars
  <2> QED
    BY <2>2, <2>3, PauseFramed
<1>11. ASSUME NEW n \in Notes, Receipt(n, TRUE)
       PROVE  PauseInv'
  <2>1. \A k \in Notes \ {n} : wake'[k] = wake[k] /\ call'[k] = call[k]
    BY <1>1, <1>11 DEF Receipt, At
  <2>2. host # "down" /\ call[n].pc = "confirming" /\ UNCHANGED <<pausedRows, paused>>
    BY <1>11 DEF Receipt
  <2> QED
    BY <2>1, <2>2, PauseFramed
<1>12. ASSUME NEW n \in Notes, Receipt(n, FALSE)
       PROVE  PauseInv'
  <2>1. /\ host # "down" /\ host' = host /\ wake' = wake /\ pausedRows' = pausedRows
        /\ paused' = paused \cup {wake[n].session} /\ At(n, "submitting") /\ call[n].pc = "confirming"
    BY <1>12 DEF Receipt, worldVars
  <2>2. wake[n].state = "dispatching"
    BY <2>1 DEF RowsInv, RowInv
  <2>3. call'[n].pc = "submitting" /\ \A k \in Notes \ {n} : call'[k] = call[k]
    BY <1>1, <2>1 DEF At, Calls
  <2>4. pausedRows' \subseteq paused'
    BY <2>1 DEF PauseInv
  <2>5. ASSUME NEW s \in paused' \ pausedRows'
        PROVE  \E k \in Notes : wake'[k].session = s /\ wake'[k].state = "dispatching" /\ call'[k].pc # "confirming"
    <3>1. CASE s = wake[n].session
      BY <2>1, <2>2, <2>3, <3>1
    <3>2. CASE s # wake[n].session
      <4>1. s \in paused \ pausedRows
        BY <2>1, <3>2
      <4>2. PICK k \in Notes : wake[k].session = s /\ wake[k].state = "dispatching" /\ call[k].pc # "confirming"
        BY <2>1, <4>1 DEF PauseInv
      <4> QED
        BY <2>1, <2>3, <4>2
    <3> QED
      BY <3>1, <3>2
  <2> QED
    BY <2>4, <2>5 DEF PauseInv
<1>13. ASSUME NEW n \in Notes, NEW taken \in BOOLEAN, Submit(n, taken)
       PROVE  PauseInv'
  <2>1. call'[n].pc = "submitted" /\ \A k \in Notes \ {n} : call'[k] = call[k]
    BY <1>1, <1>13 DEF Submit, At, Calls
  <2> QED
    BY <1>13, <2>1, PauseFramed DEF Submit, rowVars
<1>14. ASSUME NEW n \in Notes, AdmitReturns(n)
       PROVE  PauseInv'
  <2>1. call'[n].pc = "none" /\ \A k \in Notes \ {n} : call'[k] = call[k]
    BY <1>1, <1>14 DEF AdmitReturns, Idle
  <2> QED
    BY <1>14, <2>1, PauseFramed DEF AdmitReturns, rowVars
<1>15. ASSUME NEW n \in Notes, AdmitFails(n) \/ AdmitDeferred(n)
       PROVE  PauseInv'
  <2>1. PICK attempts, due : GiveBack(n, attempts, due)
    BY <1>15 DEF AdmitFails, AdmitDeferred
  <2>2. wake[n].state = "preparing" /\ host # "down"
    BY <1>15 DEF AdmitFails, AdmitDeferred, RowsInv, RowInv, Before
  <2>3. \A k \in Notes : wake[k].state = "dispatching" => wake'[k] = wake[k] /\ call'[k] = call[k]
    BY <1>1, <2>1, <2>2 DEF GiveBack
  <2>4. PICK S : Pause(S)
    BY <2>1 DEF GiveBack
  <2> QED
    BY <2>2, <2>3, <2>4, PausePauses
<1>16. CASE Dispose
  BY <1>16, PauseFramed DEF Dispose, rowVars
<1>17. CASE Crash
  BY <1>17 DEF PauseInv, Crash
<1>18. CASE Boot
  BY <1>18 DEF PauseInv, Boot
<1>19. CASE UNCHANGED vars
  BY <1>19 DEF PauseInv, vars, rowVars, memoryVars, worldVars
<1>20. ASSUME NEW n \in Notes, NEW written \in BOOLEAN, Receipt(n, written)
       PROVE  PauseInv'
  BY <1>11, <1>12, <1>20
<1> QED
  BY <1>2, <1>3, <1>4, <1>5, <1>6, <1>7, <1>8, <1>9, <1>10, <1>13, <1>14, <1>15, <1>16, <1>17, <1>18, <1>19, <1>20
  DEF Next

-----------------------------------------------------------------------------
(* Sessions.                                                                 *)

\* A step that begins and ends no admission, and moves no wake of one.
LEMMA SessionsFramed ==
  ASSUME OneAtATime, delivering' = delivering,
         \A n \in Notes : /\ call'[n].pc = "none" <=> call[n].pc = "none"
                          /\ call[n].pc # "none" => wake'[n].session = wake[n].session
  PROVE  OneAtATime'
<1>1. {wake'[n].session : n \in {m \in Notes : call'[m].pc # "none"}} = {wake[n].session : n \in {m \in Notes : call[m].pc # "none"}}
  OBVIOUS
<1> QED
  BY <1>1 DEF OneAtATime

\* A step that ends the admission of n.
LEMMA SessionsEnded ==
  ASSUME OneAtATime, NEW n \in Notes, call[n].pc # "none", call'[n].pc = "none",
         delivering' = delivering \ {wake[n].session},
         \A k \in Notes : wake'[k].session = wake[k].session,
         \A k \in Notes \ {n} : call'[k] = call[k]
  PROVE  OneAtATime'
BY DEF OneAtATime

\* Every step leaves a session with one admission, and `delivering` with those sessions.
LEMMA SessionsStep ==
  ASSUME TypeOK, RowsInv, OneAtATime, [Next]_vars
  PROVE  OneAtATime'
<1>1. wake \in [Notes -> Wakes] /\ call \in [Notes -> Calls]
  BY DEF TypeOK, Wakes, Calls, Pcs
<1>2. ASSUME NEW n \in Notes, NEW s \in Sessions, Enqueue(n, s)
      PROVE  OneAtATime'
  <2>1. call[n].pc = "none" /\ UNCHANGED <<call, delivering>>
    BY <1>2, QueuedIsIdle DEF Enqueue, RowsInv
  <2>2. \A k \in Notes \ {n} : wake'[k] = wake[k]
    BY <1>1, <1>2 DEF Enqueue
  <2> QED
    BY <2>1, <2>2, SessionsFramed
<1>3. CASE Nudge
  BY <1>3, SessionsFramed DEF Nudge, rowVars
<1>4. ASSUME NEW s \in Sessions, Busy(s) \/ BecomesReady(s) \/ ObserveStop(s) \/ ObserveOutput(s)
      PROVE  OneAtATime'
  BY <1>4, SessionsFramed DEF Busy, BecomesReady, ObserveStop, ObserveOutput, rowVars, memoryVars
<1>5. ASSUME NEW from \in Sessions, NEW to \in Sessions, Migrate(from, to)
      PROVE  OneAtATime'
  <2>1. UNCHANGED <<call, delivering>> /\ from \notin delivering
    BY <1>5 DEF Migrate, HasInFlight
  <2>2. \A n \in Notes : call[n].pc # "none" => wake[n].session # from
    BY <2>1 DEF OneAtATime
  <2>3. \A n \in Notes : call[n].pc # "none" => wake'[n] = wake[n]
    BY <1>5, <2>2 DEF Migrate
  <2> QED
    BY <2>1, <2>3, SessionsFramed
<1>6. CASE Microtask \/ TimerFires
  <2>1. PICK spent, taken \in SUBSET Notes : Flushes(spent, taken)
    BY <1>6, FlushEffect DEF Microtask, TimerFires
  <2>2. \A n \in Notes : wake'[n].session = wake[n].session
    BY <2>1 DEF Flushes, Updated, Taken
  <2>3. \A n \in taken : call[n].pc = "none" /\ wake[n].session \notin delivering
    BY <2>1, QueuedIsIdle DEF Flushes, RowsInv
  <2>4. \A n \in Notes : call'[n].pc # "none" <=> n \in taken \/ call[n].pc # "none"
    BY <2>1 DEF Flushes
  <2>5. \A n \in Notes : call[n].pc # "none" => wake[n].session \in delivering
    BY DEF OneAtATime
  <2>6. \A m, n \in Notes : m # n /\ call'[m].pc # "none" /\ call'[n].pc # "none" => wake[m].session # wake[n].session
    BY <2>1, <2>3, <2>4, <2>5 DEF Flushes, OneAtATime
  <2>7. delivering' = delivering \cup {wake[n].session : n \in taken}
    BY <2>1 DEF Flushes
  <2>8. delivering' = {wake'[n].session : n \in {m \in Notes : call'[m].pc # "none"}}
    BY <2>2, <2>4, <2>7 DEF OneAtATime
  <2> QED
    BY <2>2, <2>6, <2>8 DEF OneAtATime
<1>7. ASSUME NEW n \in Notes, DelayOver(n)
      PROVE  OneAtATime'
  <2>1. \A k \in Notes : wake'[k].session = wake[k].session
    BY <1>1, <1>7 DEF DelayOver, Wakes
  <2> QED
    BY <1>7, <2>1, SessionsFramed DEF DelayOver, memoryVars
<1>8. ASSUME NEW n \in Notes, call[n].pc # "none", NEW pc \in Pcs \ {"none"}, At(n, pc), delivering' = delivering,
             \A k \in Notes : wake'[k].session = wake[k].session
      PROVE  OneAtATime'
  BY <1>1, <1>8, SessionsFramed DEF At
<1>9. ASSUME NEW n \in Notes, BeforeInput(n) \/ PreparationFails(n)
      PROVE  OneAtATime'
  <2>1. PICK pc \in Pcs \ {"none"} : At(n, pc)
    BY <1>9 DEF BeforeInput, PreparationFails, Pcs
  <2> QED
    BY <1>8, <1>9, <2>1 DEF BeforeInput, PreparationFails, rowVars
<1>10. ASSUME NEW n \in Notes, Confirm(n)
       PROVE  OneAtATime'
  <2>1. \A k \in Notes : wake'[k].session = wake[k].session
    BY <1>1, <1>10 DEF Confirm, Wakes
  <2> QED
    BY <1>8, <1>10, <2>1 DEF Confirm, Pcs
<1>11. ASSUME NEW n \in Notes, NEW ok \in BOOLEAN, Receipt(n, ok) \/ Submit(n, ok)
       PROVE  OneAtATime'
  <2>1. \A k \in Notes : wake'[k].session = wake[k].session
    BY <1>1, <1>11 DEF Receipt, Submit, Wakes, rowVars
  <2> QED
    BY <1>8, <1>11, <2>1 DEF Receipt, Submit, Pcs
<1>12. ASSUME NEW n \in Notes, AdmitReturns(n)
       PROVE  OneAtATime'
  BY <1>1, <1>12, SessionsEnded DEF AdmitReturns, Idle, rowVars
<1>13. ASSUME NEW n \in Notes, AdmitFails(n) \/ AdmitDeferred(n)
       PROVE  OneAtATime'
  <2>0. call[n].pc # "none" /\ \E attempts, due : GiveBack(n, attempts, due)
    BY <1>13 DEF AdmitFails, AdmitDeferred
  <2>1. PICK attempts, due : GiveBack(n, attempts, due)
    BY <2>0
  <2>2. \A k \in Notes : wake'[k].session = wake[k].session
    BY <1>1, <2>1 DEF GiveBack, Updated
  <2>3. call' = [call EXCEPT ![n] = Idle] /\ delivering' = delivering \ {wake[n].session}
    BY <2>1 DEF GiveBack
  <2>4. call'[n].pc = "none" /\ \A k \in Notes \ {n} : call'[k] = call[k]
    BY <1>1, <2>3 DEF Idle
  <2> QED
    BY <2>0, <2>2, <2>3, <2>4, SessionsEnded
<1>14. CASE Dispose
  BY <1>14, SessionsFramed DEF Dispose, rowVars
<1>15. CASE Crash
  BY <1>15 DEF Crash, Idle, OneAtATime
<1>16. CASE Boot
  <2>1. \A k \in Notes : wake'[k].session = wake[k].session
    BY <1>1, <1>16 DEF Boot, Wakes
  <2> QED
    BY <1>16, <2>1, SessionsFramed DEF Boot
<1>17. CASE UNCHANGED vars
  BY <1>17, SessionsFramed DEF vars, rowVars, memoryVars
<1> QED
  BY <1>2, <1>3, <1>4, <1>5, <1>6, <1>7, <1>9, <1>10, <1>11, <1>12, <1>13, <1>14, <1>15, <1>16, <1>17
  DEF Next

-----------------------------------------------------------------------------
(* Theorems.                                                                 *)

\* The inductive invariant: types, the rows of the wakes, the pauses and the sessions.
THEOREM InvHolds == Spec => []Inv
<1>1. Init => Inv
  <2>1. Init => PauseInv
    BY DEF Init, PauseInv
  <2>2. Init => OneAtATime
    <3> SUFFICES ASSUME Init PROVE OneAtATime
      OBVIOUS
    <3>1. \A n \in Notes : call[n].pc = "none"
      BY DEF Init, Idle
    <3> QED
      BY <3>1 DEF Init, OneAtATime
  <2> QED
    BY <2>1, <2>2, TypeInit, RowsInit DEF Inv
<1>2. Inv /\ [Next]_vars => Inv'
  BY TypeStep, RowsStep, PauseStep, SessionsStep DEF Inv
<1> QED
  BY <1>1, <1>2, PTL DEF Spec

\* The rows, the sets of the queue and the admissions keep their shape.
THEOREM TypeCorrect == Spec => []TypeOK
<1>1. Inv => TypeOK
  BY DEF Inv
<1> QED
  BY <1>1, InvHolds, PTL

\* wake-queue.ts:63 for any number of wakes and crashes: no harness gets the input
\* of a wake twice, and a wake it got is never waiting or given up.
THEOREM NeverReplayed == Spec => []InputIsNeverReplayed
<1>1. Inv => InputIsNeverReplayed
  BY DEF Inv, RowsInv, RowInv, InputIsNeverReplayed
<1> QED
  BY <1>1, InvHolds, PTL

\* wake-queue.ts:171: no crash gives an attempt back.
THEOREM BudgetKept == Spec => []BudgetSurvivesCrashes
<1>1. Inv => BudgetSurvivesCrashes
  <2> SUFFICES ASSUME Inv, NEW n \in Notes
               PROVE  tries[n] <= MaxAttempts
    BY DEF BudgetSurvivesCrashes
  <2>1. wake[n].attempts \in 0..MaxAttempts /\ tries[n] \in Nat /\ tries[n] <= wake[n].attempts
    BY DEF Inv, TypeOK, RowsInv, RowInv
  <2> QED
    BY <2>1, SomeAttempts
<1> QED
  BY <1>1, InvHolds, PTL

\* A pause in memory only is the one that a lost receipt will bring back.
THEOREM PausesLast == Spec => []PauseIsDurable
<1>1. Inv => PauseIsDurable
  BY DEF Inv, PauseInv, PauseIsDurable
<1> QED
  BY <1>1, InvHolds, PTL

\* A session has one wake on its way at most, also after another took its wakes over.
THEOREM OneByOne == Spec => []OneAtATime
<1>1. Inv => OneAtATime
  BY DEF Inv
<1> QED
  BY <1>1, InvHolds, PTL

-----------------------------------------------------------------------------
(* Retries.  A wake whose delay runs loses its timer only to a flush, and a  *)
(* flush that passes it arms the timer again, acts on one of its session, or *)
(* finds the session unable to take it.                                      *)

Waits(n) ==
  /\ wake[n].state = "queued" /\ ~wake[n].due
  /\ wake[n].session \notin paused \cup delivering /\ wake[n].session \in ready

DueBeside(n) == \E m \in Pending(wake[n].session) : wake[m].due

\* A wake that waits after the step waited before it, and what was due beside it still is.
WaitsOn(n) ==
  Waits(n)' => Waits(n) /\ (DueBeside(n) => DueBeside(n)')

\* A step that lets everyone wait on, and takes no microtask and no timer away, forgets none.
LEMMA RetriesFramed ==
  ASSUME RetriesAreScheduled, host = "up", scheduled => scheduled', timer => timer',
         \A n \in Notes : WaitsOn(n)
  PROVE  RetriesAreScheduled'
<1> SUFFICES ASSUME NEW n \in Notes, Waits(n)'
             PROVE  scheduled' \/ timer' \/ DueBeside(n)'
  BY DEF RetriesAreScheduled, Waits, DueBeside
<1>1. Waits(n) /\ (DueBeside(n) => DueBeside(n)')
  BY DEF WaitsOn
<1>2. scheduled \/ timer \/ DueBeside(n)
  BY <1>1 DEF RetriesAreScheduled, Waits, DueBeside
<1> QED BY <1>1, <1>2

\* Rows in the queue stay as they are, and no session becomes able to take them.
LEMMA WaitsOnFramed ==
  ASSUME TypeOK, TypeOK', paused \subseteq paused', delivering \subseteq delivering', ready' \subseteq ready,
         \A n \in Notes : /\ wake'[n].state = "queued" => wake[n].state = "queued"
                          /\ wake[n].state = "queued" =>
                               /\ wake'[n].state = "queued" /\ wake'[n].session = wake[n].session
                               /\ wake[n].due => wake'[n].due
  PROVE  \A n \in Notes : WaitsOn(n)
<1> SUFFICES ASSUME NEW n \in Notes, Waits(n)'
             PROVE  Waits(n) /\ (DueBeside(n) => DueBeside(n)')
  BY DEF WaitsOn
<1>1. wake[n].state = "queued" /\ wake'[n].session = wake[n].session /\ Waits(n)
  BY DEF Waits
<1>2. ASSUME NEW m \in Pending(wake[n].session), wake[m].due
      PROVE  DueBeside(n)'
  <2>1. /\ m \in Notes /\ wake'[m].state = "queued" /\ wake'[m].due
        /\ wake'[m].session = wake[n].session
    BY <1>2 DEF Pending
  <2>2. m \in Pending(wake[n].session)'
    BY <1>1, <2>1 DEF Pending
  <2> QED BY <2>1, <2>2 DEF DueBeside
<1> QED BY <1>1, <1>2 DEF DueBeside

\* A flush that passes a wake arms the timer.
LEMMA FlushSchedules ==
  ASSUME TypeOK, PauseInv, host = "up", Flush, NEW n \in Notes, Waits(n)', ready' = ready
  PROVE  timer'
<1> DEFINE heads == UNION {Heads(s) : s \in Sessions}
           spent == {m \in heads : Spent(m)}
           taken == heads \ spent
           s == wake[n].session
<1>1. /\ wake' = [m \in Notes |->
            CASE m \in spent -> Updated(wake[m], "failed", wake[m].attempts, wake[m].due)
              [] m \in taken -> Taken(wake[m])
              [] OTHER -> wake[m]]
      /\ paused' = paused \cup {wake[m].session : m \in spent}
      /\ delivering' = delivering \cup {wake[m].session : m \in taken}
      /\ timer' = \E q \in Sessions : Delayed(q)
  BY DEF Flush, Pause
<1>2. n \notin spent /\ n \notin taken
  BY <1>1 DEF Waits, Updated, Taken
<1>3. wake'[n] = wake[n]
  BY <1>1, <1>2
<1>4. s \in Sessions /\ wake[n].state = "queued" /\ s \in ready /\ s \notin paused /\ s \notin delivering
  BY <1>1, <1>3 DEF Waits, TypeOK
<1>5. s \notin pausedRows
  BY <1>4 DEF PauseInv
<1>6. Heads(s) = {}
  <2> SUFFICES ASSUME NEW m \in Heads(s) PROVE FALSE
    OBVIOUS
  <2>1. m \in heads /\ wake[m].session = s
    BY <1>4 DEF Heads, Pending
  <2>2. s \notin {wake[k].session : k \in spent} /\ s \notin {wake[k].session : k \in taken}
    BY <1>1, <1>3 DEF Waits
  <2> QED BY <2>1, <2>2
<1>7. Delayed(s)
  BY <1>4, <1>5, <1>6 DEF Delayed, Pending
<1> QED BY <1>1, <1>4, <1>7

\* Every step leaves something behind that comes back to the wakes that wait.
LEMMA RetriesStep ==
  ASSUME Inv, Inv', RetriesAreScheduled, [Next]_vars
  PROVE  RetriesAreScheduled'
<1>0. TypeOK /\ TypeOK' /\ RowsInv /\ PauseInv
  BY DEF Inv
<1>1. ASSUME scheduled' \/ host' # "up" PROVE RetriesAreScheduled'
  BY <1>1 DEF RetriesAreScheduled
<1>2. ASSUME host = "up", wake' = wake, scheduled' = scheduled, timer' = timer,
             paused \subseteq paused', delivering \subseteq delivering', ready' \subseteq ready
      PROVE  RetriesAreScheduled'
  BY <1>0, <1>2, WaitsOnFramed, RetriesFramed
<1>3. ASSUME NEW n \in Notes, NEW s \in Sessions, Enqueue(n, s) PROVE RetriesAreScheduled'
  BY <1>1, <1>3 DEF Enqueue
<1>4. CASE Nudge
  BY <1>1, <1>4 DEF Nudge
<1>5. ASSUME NEW s \in Sessions, Busy(s) \/ BecomesReady(s) \/ ObserveStop(s) \/ ObserveOutput(s)
      PROVE  RetriesAreScheduled'
  <2>1. CASE Busy(s)
    BY <1>1, <1>2, <2>1 DEF Busy, rowVars, memoryVars
  <2>2. CASE BecomesReady(s)
    BY <1>1, <2>2 DEF BecomesReady, Started
  <2>3. CASE ObserveStop(s)
    BY <1>2, <2>3 DEF ObserveStop, Pause, worldVars
  <2>4. CASE ObserveOutput(s)
    BY <1>1, <2>4 DEF ObserveOutput
  <2> QED BY <1>5, <2>1, <2>2, <2>3, <2>4
<1>6. ASSUME NEW from \in Sessions, NEW to \in Sessions, Migrate(from, to) PROVE RetriesAreScheduled'
  <2>1. /\ host = "up" /\ scheduled' = scheduled /\ timer' = timer /\ delivering' = delivering
        /\ ready' = ready /\ paused' = (paused \ {from}) \cup {to} /\ from # to
        /\ \A n \in Notes : wake[n].state # "absent" => wake[n].session # to
        /\ wake' = [n \in Notes |-> IF wake[n].session = from THEN [wake[n] EXCEPT !.session = to] ELSE wake[n]]
    BY <1>6 DEF Migrate
  <2>2. ASSUME NEW n \in Notes PROVE WaitsOn(n)
    <3> SUFFICES ASSUME Waits(n)' PROVE Waits(n) /\ (DueBeside(n) => DueBeside(n)')
      BY DEF WaitsOn
    <3>1. wake[n].session # from /\ wake'[n] = wake[n]
      <4>1. wake[n].session = from => wake'[n].session = to
        BY <1>0, <2>1 DEF TypeOK
      <4> QED BY <2>1, <4>1 DEF Waits
    <3>2. wake[n].session # to
      BY <2>1, <3>1 DEF Waits
    <3>3. Waits(n)
      BY <2>1, <3>1, <3>2 DEF Waits
    <3>4. ASSUME NEW m \in Pending(wake[n].session), wake[m].due PROVE DueBeside(n)'
      <4>1. m \in Notes /\ wake'[m] = wake[m]
        BY <2>1, <3>1, <3>4 DEF Pending
      <4>2. m \in Pending(wake[n].session)'
        BY <3>1, <4>1 DEF Pending
      <4> QED BY <3>4, <4>1, <4>2 DEF DueBeside
    <3> QED BY <3>3, <3>4 DEF DueBeside
  <2> QED BY <2>1, <2>2, RetriesFramed
<1>7. CASE Microtask \/ TimerFires
  <2>1. host = "up" /\ host' = host /\ ready' = ready /\ Flush
    BY <1>7 DEF Microtask, TimerFires, worldVars
  <2>2. \A n \in Notes : Waits(n)' => timer'
    BY <1>0, <2>1, FlushSchedules
  <2> QED BY <2>2 DEF RetriesAreScheduled, Waits
<1>8. ASSUME NEW n \in Notes, DelayOver(n) PROVE RetriesAreScheduled'
  <2>1. /\ host' = host /\ wake' = [wake EXCEPT ![n].due = TRUE] /\ scheduled' = scheduled
        /\ timer' = timer /\ paused' = paused /\ delivering' = delivering /\ ready' = ready
    BY <1>8 DEF DelayOver, memoryVars, worldVars
  <2>2. \A k \in Notes : /\ wake'[k].state = wake[k].state /\ wake'[k].session = wake[k].session
                         /\ wake[k].due => wake'[k].due
    BY <1>0, <2>1 DEF TypeOK
  <2>3. \A k \in Notes : WaitsOn(k)
    BY <1>0, <2>1, <2>2, WaitsOnFramed
  <2> QED BY <1>1, <2>1, <2>3, RetriesFramed
<1>9. ASSUME NEW n \in Notes, BeforeInput(n) \/ PreparationFails(n) PROVE RetriesAreScheduled'
  <2>1. UNCHANGED <<wake, paused, delivering, scheduled, timer, host, ready>>
    BY <1>9 DEF BeforeInput, PreparationFails, rowVars, worldVars
  <2> QED BY <1>1, <1>2, <2>1
<1>10. ASSUME NEW n \in Notes, Confirm(n) \/ (\E ok \in BOOLEAN : Receipt(n, ok))
       PROVE  RetriesAreScheduled'
  <2>1. /\ UNCHANGED <<delivering, scheduled, timer, host, ready>>
        /\ paused \subseteq paused'
        /\ call[n].pc \in {"cleared", "confirming"}
        /\ \/ wake' = wake
           \/ wake' = [wake EXCEPT ![n].state = "dispatching"]
           \/ wake' = [wake EXCEPT ![n].state = "admitted"]
    BY <1>10 DEF Confirm, Receipt, worldVars
  <2>2. wake[n].state # "queued"
    BY <1>0, <2>1 DEF RowsInv, RowInv, Before
  <2>3. \A k \in Notes : \/ wake'[k] = wake[k]
                         \/ wake[k].state # "queued" /\ wake'[k].state # "queued"
    BY <1>0, <2>1, <2>2 DEF TypeOK
  <2>4. \A k \in Notes : WaitsOn(k)
    BY <1>0, <2>1, <2>3, WaitsOnFramed
  <2> QED BY <1>1, <2>1, <2>4, RetriesFramed
<1>11. ASSUME NEW n \in Notes, NEW ok \in BOOLEAN, Submit(n, ok) PROVE RetriesAreScheduled'
  <2>1. UNCHANGED <<wake, paused, delivering, scheduled, timer, host, ready>>
    BY <1>11 DEF Submit, rowVars, worldVars
  <2> QED BY <1>1, <1>2, <2>1
<1>12. ASSUME NEW n \in Notes, AdmitReturns(n) PROVE RetriesAreScheduled'
  BY <1>1, <1>12 DEF AdmitReturns, Started, worldVars
<1>13. ASSUME NEW n \in Notes, AdmitFails(n) PROVE RetriesAreScheduled'
  BY <1>1, <1>13 DEF AdmitFails
<1>14. ASSUME NEW n \in Notes, AdmitDeferred(n) PROVE RetriesAreScheduled'
  <2> DEFINE attempts == call[n].attempts
             s == wake[n].session
  <2>1. /\ host' = host /\ scheduled' = scheduled /\ timer' = timer /\ ready' = ready
        /\ wake' = [wake EXCEPT ![n] =
             Updated(@, IF attempts >= MaxAttempts THEN "failed" ELSE "queued", attempts, TRUE)]
        /\ paused' = paused \cup (IF attempts >= MaxAttempts THEN {s} ELSE {})
        /\ delivering' = delivering \ {s}
    BY <1>14 DEF AdmitDeferred, GiveBack, Pause, worldVars
  <2>2. wake'[n] = Updated(wake[n], IF attempts >= MaxAttempts THEN "failed" ELSE "queued", attempts, TRUE)
    BY <1>0, <2>1 DEF TypeOK
  <2>3. /\ wake'[n].session = s /\ wake'[n].due
        /\ wake'[n].state = IF attempts >= MaxAttempts THEN "failed" ELSE "queued"
    BY <2>2 DEF Updated
  <2>4. \A k \in Notes \ {n} : wake'[k] = wake[k]
    BY <1>0, <2>1 DEF TypeOK
  <2>5. wake[n].state # "queued"
    BY <1>0, <1>14 DEF AdmitDeferred, RowsInv, RowInv, Before
  <2>6. ASSUME NEW k \in Notes, Waits(k)', host' = "up" PROVE scheduled' \/ timer' \/ DueBeside(k)'
    <3>1. k # n /\ wake'[k] = wake[k]
      BY <2>3, <2>4, <2>6 DEF Waits
    <3>2. CASE wake[k].session = s
      <4>1. wake'[n].state = "queued"
        <5>1. s \notin paused'
          BY <2>6, <3>1, <3>2 DEF Waits
        <5>2. ~(attempts >= MaxAttempts)
          BY <2>1, <5>1
        <5> QED BY <2>3, <5>2
      <4>2. wake'[k].session = s /\ n \in Pending(s)'
        BY <2>3, <3>1, <3>2, <4>1 DEF Pending
      <4>3. n \in Pending(wake[k].session)'
        BY <2>3, <3>1, <3>2, <4>1 DEF Pending
      <4> QED BY <2>3, <4>3 DEF DueBeside
    <3>3. CASE wake[k].session # s
      <4>1. Waits(k)
        BY <2>1, <2>6, <3>1, <3>3 DEF Waits
      <4>2. scheduled \/ timer \/ DueBeside(k)
        BY <2>1, <2>6, <4>1 DEF RetriesAreScheduled, Waits, DueBeside
      <4>3. ASSUME NEW m \in Pending(wake[k].session), wake[m].due PROVE DueBeside(k)'
        <5>1. m \in Notes /\ wake'[m] = wake[m]
          BY <2>4, <2>5, <4>3 DEF Pending
        <5>2. m \in Pending(wake[k].session)'
          BY <3>1, <4>3, <5>1 DEF Pending
        <5> QED BY <3>1, <4>3, <5>1, <5>2 DEF DueBeside
      <4> QED BY <2>1, <4>2, <4>3 DEF DueBeside
    <3> QED BY <3>2, <3>3
  <2> QED BY <2>6 DEF RetriesAreScheduled, Waits, DueBeside
<1>15. CASE Dispose \/ Crash \/ Boot
  BY <1>1, <1>15 DEF Dispose, Crash, Boot
<1>16. CASE UNCHANGED vars
  BY <1>1, <1>2, <1>16 DEF vars, rowVars, memoryVars, worldVars
<1> QED
  BY <1>3, <1>4, <1>5, <1>6, <1>7, <1>8, <1>9, <1>10, <1>11, <1>12, <1>13, <1>14, <1>15, <1>16
  DEF Next

\* No wake whose delay runs is forgotten: a microtask or a timer comes back to
\* it, or another wake of its session is due.
THEOREM RetriesCome == Spec => []RetriesAreScheduled
<1>1. Init => RetriesAreScheduled
  BY DEF Init, RetriesAreScheduled
<1>2. Inv /\ Inv' /\ RetriesAreScheduled /\ [Next]_vars => RetriesAreScheduled'
  BY RetriesStep
<1> QED
  BY <1>1, <1>2, InvHolds, PTL DEF Spec

=============================================================================
