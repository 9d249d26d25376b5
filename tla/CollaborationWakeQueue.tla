------------------------ MODULE CollaborationWakeQueue ------------------------
(****************************************************************************)
(* The durable inbox of wakes: packages/runtime/src/collaboration/          *)
(* wake-queue.ts, with the calls its hosts make of it.  A producer enqueues *)
(* a notification for a session; the queue hands it to the session's        *)
(* harness, one at a time, at most once, with three attempts over crashes.  *)
(*                                                                          *)
(* The code between two awaits is one action.  The handoff is the           *)
(* exception: its two row updates and the submission to the harness follow  *)
(* one another without a yield, but the process may die between any two of  *)
(* them, so each is an action and only a crash comes between (Quiet).  The  *)
(* recipients are sessions of this machine.                                 *)
(****************************************************************************)
EXTENDS Integers

CONSTANTS
  Sessions,
  MaxNotes,     \* bound: notifications, numbered in the order of their rows
  MaxAttempts,  \* COLLABORATION_WAKE_MAX_ATTEMPTS
  MaxStops      \* bound: crashes and shutdowns

ASSUME NotesAreCounted == MaxNotes \in Nat
ASSUME SomeAttempts == MaxAttempts \in Nat \ {0}
ASSUME StopsAreCounted == MaxStops \in Nat

Notes == 1..MaxNotes

VARIABLES
  wake,        \* table collaboration_wakes
  pausedRows,  \* table collaboration_wake_recipients: rows with paused = 1
  paused,      \* the set `paused`
  delivering,  \* the set `delivering`
  scheduled,   \* a microtask that flushes is queued
  timer,       \* the backoff timer is armed
  call,        \* the admission of a wake under way
  host,        \* "up", "closed" (disposed, the process lives on), "down"
  ready,       \* sessions for which canAdmit holds
  retired,     \* sessions another one continues
  handed,      \* times the harness got the input of a wake
  tries,       \* admissions begun, without the deferred ones
  stops

rowVars    == <<wake, pausedRows>>
memoryVars == <<paused, delivering, scheduled, timer, call>>
worldVars  == <<host, ready, retired, stops>>
countVars  == <<handed, tries>>
vars       == <<rowVars, memoryVars, worldVars, countVars>>

InFlight == {"preparing", "dispatching"}
States   == {"absent", "queued", "admitted", "uncertain", "failed"} \cup InFlight
Idle     == [pc |-> "none", attempts |-> 0]

\* Steps of the handoff that no other code comes between.
Quiet == \A n \in Notes : call[n].pc \notin {"confirming", "submitting"}

\* start()
Started == IF host = "up" THEN TRUE ELSE scheduled

HasInFlight(s) ==
  \/ s \in delivering
  \/ \E n \in Notes : wake[n].session = s /\ wake[n].state \in InFlight

\* pause(): nothing is written for a session the set already holds.
Pause(S) ==
  /\ pausedRows' = pausedRows \cup (S \ paused)
  /\ paused' = paused \cup S

\* An UPDATE of a row.
Updated(r, state, attempts, due) ==
  [state |-> state, session |-> r.session, attempts |-> attempts, due |-> due]

-----------------------------------------------------------------------------
(* The producer and the recipient.                                           *)

Enqueue(n, s) ==
  /\ Quiet /\ host = "up"
  /\ s \notin retired
  /\ wake[n].state = "absent" /\ \A m \in 1..(n - 1) : wake[m].state # "absent"
  /\ wake' = [wake EXCEPT ![n] = [state |-> "queued", session |-> s, attempts |-> 0, due |-> TRUE]]
  /\ scheduled' = TRUE
  /\ UNCHANGED <<pausedRows, paused, delivering, timer, call, worldVars, countVars>>

\* A repeated enqueue, a status change, a durable event: start() alone.
Nudge ==
  /\ Quiet /\ host = "up"
  /\ scheduled' = TRUE
  /\ UNCHANGED <<rowVars, paused, delivering, timer, call, worldVars, countVars>>

\* The session starts a turn or waits for its user.
Busy(s) ==
  /\ Quiet /\ host # "down"
  /\ s \in ready /\ ready' = ready \ {s}
  /\ UNCHANGED <<rowVars, memoryVars, host, retired, stops, countVars>>

\* It is idle again, and an event says so.
BecomesReady(s) ==
  /\ Quiet /\ host # "down"
  /\ s \notin ready /\ ready' = ready \cup {s}
  /\ scheduled' = Started
  /\ UNCHANGED <<rowVars, paused, delivering, timer, call, host, retired, stops, countVars>>

\* observe: an error of the provider, or the user's stop.
ObserveStop(s) ==
  /\ Quiet /\ host = "up"
  /\ Pause({s})
  /\ UNCHANGED <<wake, delivering, scheduled, timer, call, worldVars, countVars>>

\* observe: output proves that the session can run.
ObserveOutput(s) ==
  /\ Quiet /\ host = "up"
  /\ s \in paused
  /\ pausedRows' = pausedRows \ {s} /\ paused' = paused \ {s}
  /\ scheduled' = TRUE
  /\ UNCHANGED <<wake, delivering, timer, call, worldVars, countVars>>

\* continueCollaboration: `to` was created in the same stretch and holds no wake.
Migrate(from, to) ==
  /\ Quiet /\ host = "up"
  /\ from # to /\ {from, to} \cap retired = {}
  /\ \A n \in Notes : wake[n].state # "absent" => wake[n].session # to
  /\ from \in ready /\ ~HasInFlight(from)
  /\ wake' = [n \in Notes |-> IF wake[n].session = from THEN [wake[n] EXCEPT !.session = to] ELSE wake[n]]
  /\ pausedRows' = (pausedRows \ {from}) \cup ({to} \ paused)
  /\ paused' = (paused \ {from}) \cup {to}
  /\ retired' = retired \cup {from}
  /\ UNCHANGED <<delivering, scheduled, timer, call, host, ready, stops, countVars>>

-----------------------------------------------------------------------------
(* flush                                                                     *)

Pending(s) == {n \in Notes : wake[n].state = "queued" /\ wake[n].session = s}

Spent(n) == wake[n].attempts >= MaxAttempts

\* What the loop comes to act on in the rows of s: the first that is due or has
\* no attempt left; what follows it finds the session delivering or paused.
Heads(s) ==
  IF s \in pausedRows \cup paused \cup delivering \/ s \notin ready THEN {}
  ELSE LET acted == {n \in Pending(s) : wake[n].due \/ Spent(n)}
       IN  {n \in acted : \A m \in acted : n <= m}

\* Mutant: no timer for what is delayed.
DelayedNever(s) == s \notin Sessions

\* A row the loop passes because its delay is not over.
Delayed(s) ==
  /\ s \notin pausedRows \cup paused \cup delivering /\ s \in ready
  /\ \E n \in Pending(s) : \A m \in Heads(s) : n < m

\* Mutant: the attempt is counted when it fails.
TakenUncounted(r) == Updated(r, "preparing", r.attempts, r.due)

\* The attempt is counted before it is made.
Taken(r) == Updated(r, "preparing", r.attempts + 1, r.due)

Flush ==
  LET heads == UNION {Heads(s) : s \in Sessions}
      spent == {n \in heads : Spent(n)}
      taken == heads \ spent IN
  /\ wake' = [n \in Notes |->
       CASE n \in spent -> Updated(wake[n], "failed", wake[n].attempts, wake[n].due)
         [] n \in taken -> Taken(wake[n])
         [] OTHER -> wake[n]]
  /\ Pause({wake[n].session : n \in spent})
  /\ delivering' = delivering \cup {wake[n].session : n \in taken}
  /\ call' = [n \in Notes |-> IF n \in taken THEN [pc |-> "preparing", attempts |-> wake[n].attempts] ELSE call[n]]
  /\ timer' = \E s \in Sessions : Delayed(s)
  /\ tries' = [n \in Notes |-> IF n \in taken THEN tries[n] + 1 ELSE tries[n]]

Microtask ==
  /\ Quiet /\ host = "up"
  /\ scheduled /\ scheduled' = FALSE
  /\ Flush
  /\ UNCHANGED <<worldVars, handed>>

TimerFires ==
  /\ Quiet /\ host = "up"
  /\ timer
  /\ \E n \in Notes : wake[n].state = "queued" /\ wake[n].due
  /\ Flush
  /\ UNCHANGED <<scheduled, worldVars, handed>>

\* 10 s or 30 s have passed.
DelayOver(n) ==
  /\ Quiet
  /\ wake[n].state = "queued" /\ ~wake[n].due
  /\ wake' = [wake EXCEPT ![n].due = TRUE]
  /\ UNCHANGED <<pausedRows, memoryVars, worldVars, countVars>>

-----------------------------------------------------------------------------
(* admit                                                                     *)

At(n, pc) == call' = [call EXCEPT ![n].pc = pc]

\* The last check before the handoff; a desktop session also refuses when it is busy.
BeforeInput(n) ==
  /\ Quiet /\ host # "down"
  /\ call[n].pc \in {"preparing", "cleared"}
  /\ \/ (host = "closed" \/ wake[n].session \in paused \/ wake[n].session \notin ready) /\ At(n, "deferred")
     \/ host = "up" /\ wake[n].session \notin paused /\ At(n, "cleared")
  /\ UNCHANGED <<rowVars, paused, delivering, scheduled, timer, worldVars, countVars>>

\* The harness cannot be started, the session is gone, the runner throws.
PreparationFails(n) ==
  /\ Quiet /\ host # "down"
  /\ call[n].pc \in {"preparing", "cleared"}
  /\ At(n, "refused")
  /\ UNCHANGED <<rowVars, paused, delivering, scheduled, timer, worldVars, countVars>>

\* confirm: called right before the input is submitted.
Confirm(n) ==
  /\ Quiet /\ host # "down"
  /\ call[n].pc = "cleared"
  /\ At(n, "confirming")
  /\ wake' = [wake EXCEPT ![n].state = "dispatching"]
  /\ UNCHANGED <<pausedRows, paused, delivering, scheduled, timer, worldVars, countVars>>

\* confirm: the receipt, which the database may refuse.
Receipt(n, written) ==
  /\ host # "down"
  /\ call[n].pc = "confirming"
  /\ At(n, "submitting")
  /\ IF written
     THEN wake' = [wake EXCEPT ![n].state = "admitted"] /\ UNCHANGED paused
     ELSE paused' = paused \cup {wake[n].session} /\ UNCHANGED wake
  /\ UNCHANGED <<pausedRows, delivering, scheduled, timer, worldVars, countVars>>

\* The harness takes the input, or the call that submits it fails.
Submit(n, taken) ==
  /\ host # "down"
  /\ call[n].pc = "submitting"
  /\ At(n, "submitted")
  /\ handed' = [handed EXCEPT ![n] = IF taken THEN @ + 1 ELSE @]
  /\ UNCHANGED <<rowVars, paused, delivering, scheduled, timer, worldVars, tries>>

\* admit settles after the handoff, whatever became of the turn.
AdmitReturns(n) ==
  /\ Quiet /\ host # "down"
  /\ call[n].pc = "submitted"
  /\ call' = [call EXCEPT ![n] = Idle]
  /\ delivering' = delivering \ {wake[n].session}
  /\ scheduled' = Started
  /\ UNCHANGED <<rowVars, paused, timer, worldVars, countVars>>

\* Mutant: the last attempt fails its row and does not pause the recipient in the table.
GiveBackInMemory(n, attempts, due) ==
  LET failed == attempts >= MaxAttempts IN
  /\ wake' = [wake EXCEPT ![n] = Updated(@, IF failed THEN "failed" ELSE "queued", attempts, due)]
  /\ paused' = IF failed THEN paused \cup {wake[n].session} ELSE paused
  /\ UNCHANGED pausedRows
  /\ call' = [call EXCEPT ![n] = Idle]
  /\ delivering' = delivering \ {wake[n].session}

\* The catch of admit: the row goes back, or is given up and its recipient paused.
GiveBack(n, attempts, due) ==
  LET failed == attempts >= MaxAttempts IN
  /\ wake' = [wake EXCEPT ![n] = Updated(@, IF failed THEN "failed" ELSE "queued", attempts, due)]
  /\ Pause(IF failed THEN {wake[n].session} ELSE {})
  /\ call' = [call EXCEPT ![n] = Idle]
  /\ delivering' = delivering \ {wake[n].session}

\* (The delay of a row that is given up does not matter.)
AdmitFails(n) ==
  /\ Quiet /\ host = "up"
  /\ call[n].pc = "refused"
  /\ GiveBack(n, call[n].attempts + 1, FALSE)
  /\ scheduled' = TRUE
  /\ UNCHANGED <<timer, worldVars, countVars>>

\* Put back without spending the attempt; nothing is scheduled.
AdmitDeferred(n) ==
  /\ Quiet /\ host # "down"
  /\ call[n].pc = "deferred" \/ (call[n].pc = "refused" /\ host = "closed")
  /\ GiveBack(n, call[n].attempts, TRUE)
  /\ tries' = [tries EXCEPT ![n] = @ - 1]
  /\ UNCHANGED <<scheduled, timer, worldVars, handed>>

-----------------------------------------------------------------------------
(* The process.                                                              *)

Dispose ==
  /\ Quiet /\ host = "up"
  /\ stops < MaxStops /\ stops' = stops + 1
  /\ host' = "closed" /\ timer' = FALSE
  /\ UNCHANGED <<rowVars, paused, delivering, scheduled, call, ready, retired, countVars>>

\* The process exits or dies, possibly in the middle of a handoff.
Crash ==
  /\ host # "down"
  /\ host = "up" => stops < MaxStops
  /\ stops' = IF host = "up" THEN stops + 1 ELSE stops
  /\ host' = "down"
  /\ paused' = {} /\ delivering' = {} /\ scheduled' = FALSE /\ timer' = FALSE
  /\ call' = [n \in Notes |-> Idle]
  /\ UNCHANGED <<rowVars, ready, retired, countVars>>

\* Mutant: a wake whose handoff was cut short is tried again.
RecoveredReplays(state) == IF state \in InFlight THEN "queued" ELSE state

Recovered(state) ==
  CASE state = "dispatching" -> "uncertain"
    [] state = "preparing" -> "queued"
    [] OTHER -> state

\* The constructor, and the start() its host calls.
Boot ==
  /\ host = "down"
  /\ host' = "up"
  /\ wake' = [n \in Notes |-> [wake[n] EXCEPT !.state = Recovered(@)]]
  /\ pausedRows' = pausedRows \cup {wake[n].session : n \in {m \in Notes : wake[m].state = "dispatching"}}
  /\ paused' = pausedRows'
  /\ scheduled' = TRUE
  /\ ready' = Sessions
  /\ UNCHANGED <<delivering, timer, call, retired, stops, countVars>>

Init ==
  /\ \E s \in Sessions :
       wake = [n \in Notes |-> [state |-> "absent", session |-> s, attempts |-> 0, due |-> TRUE]]
  /\ pausedRows = {} /\ paused = {} /\ delivering = {}
  /\ scheduled = FALSE /\ timer = FALSE
  /\ call = [n \in Notes |-> Idle]
  /\ host = "up" /\ ready = Sessions /\ retired = {}
  /\ handed = [n \in Notes |-> 0] /\ tries = [n \in Notes |-> 0]
  /\ stops = 0

Next ==
  \/ \E n \in Notes, s \in Sessions : Enqueue(n, s)
  \/ Nudge
  \/ \E s \in Sessions : Busy(s) \/ BecomesReady(s) \/ ObserveStop(s) \/ ObserveOutput(s)
  \/ \E from, to \in Sessions : Migrate(from, to)
  \/ Microtask \/ TimerFires
  \/ \E n \in Notes :
       \/ DelayOver(n) \/ BeforeInput(n) \/ PreparationFails(n) \/ Confirm(n)
       \/ (\E ok \in BOOLEAN : Receipt(n, ok) \/ Submit(n, ok))
       \/ AdmitReturns(n) \/ AdmitFails(n) \/ AdmitDeferred(n)
  \/ Dispose \/ Crash \/ Boot

Spec == Init /\ [][Next]_vars

-----------------------------------------------------------------------------
(* Properties.                                                               *)

TypeOK ==
  /\ wake \in [Notes -> [state : States, session : Sessions, attempts : 0..MaxAttempts, due : BOOLEAN]]
  /\ pausedRows \subseteq Sessions /\ paused \subseteq Sessions
  /\ delivering \subseteq Sessions
  /\ scheduled \in BOOLEAN /\ timer \in BOOLEAN
  /\ call \in [Notes -> [pc : {"none", "preparing", "cleared", "refused", "deferred",
                               "confirming", "submitting", "submitted"},
                         attempts : 0..MaxAttempts]]
  /\ host \in {"up", "closed", "down"}
  /\ ready \subseteq Sessions /\ retired \subseteq Sessions
  /\ handed \in [Notes -> Nat] /\ tries \in [Notes -> Nat]
  /\ stops \in 0..MaxStops

\* wake-queue.ts:63: "never replay potentially executed work automatically": a
\* harness gets the input of a wake at most once, and no wake it got is waiting,
\* in preparation or given up, whatever was cut short between two writes.
InputIsNeverReplayed ==
  \A n \in Notes :
    /\ handed[n] <= 1
    /\ handed[n] = 1 => wake[n].state \in {"dispatching", "admitted", "uncertain"}

\* wake-queue.ts:171: "a crash cannot reset the budget": the attempts made of a
\* wake, those cut short by crashes included, never exceed the budget.
BudgetSurvivesCrashes == \A n \in Notes : tries[n] <= MaxAttempts

\* A pause outlives the process: a session that is paused now is paused by the
\* table, or will be when the handoff whose receipt failed is recovered.
PauseIsDurable ==
  host # "down" =>
    /\ pausedRows \subseteq paused
    /\ \A s \in paused \ pausedRows :
         \E n \in Notes : wake[n].session = s /\ wake[n].state = "dispatching"

\* A session has at most one wake on its way to its harness, also when another
\* session takes its wakes over, and `delivering` says which sessions do.
OneAtATime ==
  /\ \A m, n \in Notes : m # n /\ call[m].pc # "none" /\ call[n].pc # "none" => wake[m].session # wake[n].session
  /\ delivering = {wake[n].session : n \in {m \in Notes : call[m].pc # "none"}}

\* Nothing is forgotten: a wake whose delay runs has a microtask or a timer that
\* will come back to it once its recipient can take it.  (A deferral schedules
\* nothing: the wake put back, and those behind it, wait for the next event.)
RetriesAreScheduled ==
  \A n \in Notes :
    /\ host = "up" /\ wake[n].state = "queued" /\ ~wake[n].due
    /\ wake[n].session \notin paused \cup delivering /\ wake[n].session \in ready
    => \/ scheduled \/ timer
       \/ \E m \in Pending(wake[n].session) : wake[m].due
=============================================================================
