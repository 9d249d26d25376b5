-------------------------- MODULE SessionDeliveries --------------------------
(****************************************************************************)
(* Files a desktop owes to a node: the delivery record                      *)
(* (apps/desktop/src/main/db-session-deliveries.ts), its holders            *)
(* (environment/delivery-holders.ts) and everybody who works on it: the     *)
(* producers (environment/zone-delivery.ts), the tool call whose reply      *)
(* names the files (mcp/artifact-registry.ts, environment/                  *)
(* host-action-sync.ts) and the transfer worker                             *)
(* (environment/artifact-transfer-service.ts, artifact-transfer.ts).        *)
(*                                                                          *)
(* One session, one connection.  The code between two awaits is one         *)
(* action; where a loop goes from row to row without an await the turn is   *)
(* its own until it waits (`turn`).  Times, offsets and contents are left   *)
(* out: a backoff may have passed at any time, and a put is a part or the   *)
(* final one.                                                               *)
(****************************************************************************)
EXTENDS Integers, FiniteSets

CONSTANTS
  Files,        \* zone files, one path each
  Silent,       \* those that may be attachment originals: landed without a wake
  Loops,        \* instances of the connection's worker loop
  Call,         \* the tool call that pushes its own outputs
  NoFile,
  MaxAttempts,  \* MAX_UPLOAD_ATTEMPTS
  MaxResyncs,   \* MAX_OFFSET_RESYNCS
  MaxFaults     \* bound: failed calls, failed writes, stops and crashes

ASSUME SilentFiles == Silent \subseteq Files
ASSUME CallIsNoLoop == Call \notin Loops
ASSUME NoFileIsNone == NoFile \notin Files
ASSUME BoundsAreCounts == /\ MaxAttempts \in Nat \ {0}
                          /\ MaxResyncs \in Nat
                          /\ MaxFaults \in Nat

VARIABLES
  row,     \* table session_file_deliveries
  tomb,    \* the session has a tombstone
  minted,  \* holder tokens minted so far, counted by the file they are for
  alive,   \* the set `live` of delivery-holders.ts, by file
  put,     \* final puts: sent by which holders, on the wire, taken by the node
  writer,  \* the writer of a reserved file, as `open` knows it
  call,    \* the tool call: its scope while it runs, then its selection
  loop,    \* worker loops: "off", "on", "stopping" (aborted, still awaiting)
  todo,    \* rows a pass or a selection has read and not reached
  att,     \* the attempt each of them awaits
  turn,    \* who runs on without an await, or Free
  faults

vars == <<row, tomb, minted, alive, put, writer, call, loop, todo, att,
          turn, faults>>

Procs  == Loops \cup {Call}
Free   == NoFile
Nobody == 0

Owing  == {"writing", "sealed", "queued", "uploading", "committing"}  \* CONTENT_OWNING_PHASES
Phases == Owing \cup {"uploaded", "notifying"}

NoHandle == [holder |-> Nobody, epoch |-> 0]
NoRow    == [phase |-> "none", outcome |-> "live", holder |-> Nobody, epoch |-> 0,
             attempts |-> 0, gaveUp |-> FALSE, silent |-> FALSE]
Idle     == [pc |-> "idle", file |-> NoFile, holder |-> Nobody, epoch |-> 0,
             tries |-> 0, committing |-> FALSE, resyncs |-> 0, aborted |-> FALSE]
NoTodo   == [f \in Files |-> NoRow]

Live(r)  == r.phase # "none" /\ r.outcome = "live"

----------------------------------------------------------------------------
(* The record's writes, each one statement.  What they make of a row:       *)

Written(r, phase, outcome, holder, attempts, gaveUp) ==
  [phase |-> phase, outcome |-> outcome, holder |-> holder, epoch |-> r.epoch + 1,
   attempts |-> attempts, gaveUp |-> gaveUp, silent |-> r.silent]

Advanced(r, to)   == Written(r, to, r.outcome, r.holder, r.attempts, r.gaveUp)
Claimed(r, h)     == Written(r, r.phase, r.outcome, h, r.attempts, r.gaveUp)
Released(r)       == Written(r, r.phase, r.outcome, Nobody, r.attempts, r.gaveUp)
Ended(r, how)     == Written(r, r.phase, how, Nobody, r.attempts, r.gaveUp)
Failed(r, giveUp) == Written(r, r.phase, r.outcome, Nobody, r.attempts + 1, giveUp)
Retried(r)        == Written(r, r.phase, r.outcome, r.holder, 0, FALSE)

\* OWNED: the handle is the row's holder at the row's epoch.
Owned(r, handle) == /\ Live(r)
                    /\ r.holder = handle.holder
                    /\ r.epoch = handle.epoch

\* Mutant: the claim does not ask whether the holder is at work.
ClaimableFromTheLiving(f, seen) == /\ Live(row[f])
                                   /\ row[f].holder = seen.holder
                                   /\ row[f].epoch = seen.epoch

\* Mutant: the claim compares the holder and not the epoch.
ClaimableAtAnyEpoch(f, seen) == /\ seen.holder \notin alive[f]
                                /\ Live(row[f])
                                /\ row[f].holder = seen.holder

\* claimDelivery from what a snapshot says of the row.
Claimable(f, seen) == /\ seen.holder \notin alive[f]
                      /\ Live(row[f])
                      /\ row[f].holder = seen.holder
                      /\ row[f].epoch = seen.epoch

New(f)        == minted[f] + 1
Mints(f)      == minted' = [minted EXCEPT ![f] = @ + 1]
Joins(f, h)   == alive' = [alive EXCEPT ![f] = @ \cup {h}]
Retires(f, h) == alive' = [alive EXCEPT ![f] = @ \ {h}]

\* What the mirror may do with the desktop's copy (protectionOf).
Protection(f) ==
  CASE row[f].phase = "none" \/ row[f].outcome = "abandoned" -> "none"
    [] row[f].outcome = "done"                               -> "node-authoritative"
    [] Live(row[f]) /\ row[f].phase \in {"writing", "committing"}
                                                             -> "protected-unreadable"
    [] Live(row[f]) /\ row[f].phase \in {"sealed", "queued", "uploading"}
                                                             -> "protected-readable"
    [] OTHER                                                 -> "node-authoritative"

----------------------------------------------------------------------------
Init ==
  /\ row = NoTodo
  /\ tomb = FALSE
  /\ minted = [f \in Files |-> 0]
  /\ alive = [f \in Files |-> {}]
  /\ put = [f \in Files |-> [sent |-> {}, flying |-> {}, taken |-> {}]]
  /\ writer = [f \in Files |-> [pc |-> "none", holder |-> Nobody]]
  /\ call = [pc |-> "run", refs |-> {}, held |-> [f \in Files |-> NoHandle], aborted |-> FALSE]
  /\ loop = [p \in Loops |-> "off"]
  /\ todo = [p \in Procs |-> NoTodo]
  /\ att = [p \in Procs |-> Idle]
  /\ turn = Free
  /\ faults = 0

Fault == faults < MaxFaults /\ faults' = faults + 1

workVars == <<put, loop, todo, att, turn>>

----------------------------------------------------------------------------
(* Producers.                                                               *)

Holding(f, handle) ==
  call' = [call EXCEPT !.held[f] = handle, !.refs = @ \cup {f}]

\* reserveZoneFile: the row before the first byte.
Reserve(f) ==
  /\ turn = Free
  /\ row[f].phase = "none" /\ ~tomb
  /\ Mints(f)
  /\ Joins(f, New(f))
  /\ row' = [row EXCEPT ![f] = [NoRow EXCEPT !.phase = "writing", !.holder = New(f)]]
  /\ writer' = [writer EXCEPT ![f] = [pc |-> "writing", holder |-> New(f)]]
  /\ UNCHANGED <<tomb, call, workVars, faults>>

\* The handle a writer keeps in `open`: its row is still as reserved.
Reservation(f) == [holder |-> writer[f].holder, epoch |-> 0]

\* The row is still as this writer reserved it.
Sealable(f) == Owned(row[f], Reservation(f)) /\ row[f].phase = "writing"

WriterLeaves(f) == writer' = [writer EXCEPT ![f] = [pc |-> "gone", holder |-> Nobody]]

\* sealZoneFile of a reservation: kept for the call it runs in, released for
\* the worker otherwise, refused when the row was taken away.
Seal(f) ==
  /\ turn = Free
  /\ writer[f].pc = "writing"
  /\ WriterLeaves(f)
  /\ LET h == writer[f].holder
         sealed == Advanced(row[f], "sealed") IN
     \/ /\ Sealable(f) /\ call.pc = "run"
        /\ row' = [row EXCEPT ![f] = sealed]
        /\ Holding(f, [holder |-> h, epoch |-> sealed.epoch])
        /\ UNCHANGED alive
     \/ /\ Sealable(f)
        /\ row' = [row EXCEPT ![f] = Released(sealed)]
        /\ Retires(f, h)
        /\ UNCHANGED call
     \/ /\ ~Sealable(f)
        /\ Retires(f, h)
        /\ UNCHANGED <<row, call>>
  /\ UNCHANGED <<tomb, minted, put, loop, todo, att, turn, faults>>

\* Mutant: the holder is retired on success only.
SealThrowsStranding(f) ==
  /\ turn = Free
  /\ writer[f].pc = "writing"
  /\ WriterLeaves(f)
  /\ \/ UNCHANGED row
     \/ /\ Sealable(f)
        /\ row' = [row EXCEPT ![f] = Advanced(@, "sealed")]
  /\ Fault
  /\ UNCHANGED <<tomb, minted, alive, call, workVars>>

\* The hash, the advance or the release throws: the holder is retired and the
\* row keeps the phase it reached.
SealThrows(f) ==
  /\ turn = Free
  /\ writer[f].pc = "writing"
  /\ WriterLeaves(f)
  /\ Retires(f, writer[f].holder)
  /\ \/ UNCHANGED row
     \/ /\ Sealable(f)
        /\ row' = [row EXCEPT ![f] = Advanced(@, "sealed")]
  /\ Fault
  /\ UNCHANGED <<tomb, minted, call, workVars>>

\* abandonZoneFile: the writer gave up.
AbandonWriting(f) ==
  /\ turn = Free
  /\ writer[f].pc = "writing"
  /\ WriterLeaves(f)
  /\ Retires(f, writer[f].holder)
  /\ row' = IF Owned(row[f], Reservation(f))
            THEN [row EXCEPT ![f] = Ended(@, "abandoned")] ELSE row
  /\ UNCHANGED <<tomb, minted, call, workVars, faults>>

\* sealZoneFile of a file written in the same tick; an attachment original is
\* written outside any call.
Publish(f) ==
  /\ turn = Free
  /\ row[f].phase = "none" /\ ~tomb
  /\ Mints(f)
  /\ LET new == [NoRow EXCEPT !.phase = "sealed", !.holder = New(f)] IN
     \/ /\ call.pc = "run"
        /\ row' = [row EXCEPT ![f] = new]
        /\ Joins(f, New(f))
        /\ Holding(f, [holder |-> New(f), epoch |-> 0])
     \/ /\ \E quiet \in BOOLEAN :
             /\ quiet => f \in Silent
             /\ row' = [row EXCEPT ![f] = Released([new EXCEPT !.silent = quiet])]
        /\ UNCHANGED <<alive, call>>
  /\ UNCHANGED <<tomb, writer, workVars, faults>>

\* sealZoneFile of a path the record knows: the call names a file it did not make.
Observe(f) ==
  /\ turn = Free
  /\ call.pc = "run"
  /\ row[f].phase \notin {"none", "writing"} /\ row[f].outcome # "abandoned"
  /\ call' = [call EXCEPT !.refs = @ \cup {f}]
  /\ UNCHANGED <<row, tomb, minted, alive, writer, workVars, faults>>

----------------------------------------------------------------------------
(* The session, Settings, the worker's life, the process.                   *)

\* dropSession: tombstone, every live row abandoned, the worker's uploads aborted.
DropSession ==
  /\ turn = Free
  /\ ~tomb
  /\ tomb' = TRUE
  /\ row' = [f \in Files |-> IF Live(row[f]) THEN Ended(row[f], "abandoned") ELSE row[f]]
  /\ att' = [p \in Procs |->
               IF p \in Loops /\ att[p].pc # "idle" /\ Live(row[att[p].file])
               THEN [att[p] EXCEPT !.aborted = TRUE] ELSE att[p]]
  /\ UNCHANGED <<minted, alive, put, writer, call, loop, todo, turn, faults>>

\* Settings' Retry Upload.
RetryGivenUp ==
  LET given == {f \in Files : Live(row[f]) /\ row[f].gaveUp /\ row[f].phase # "committing"} IN
  /\ turn = Free
  /\ given # {}
  /\ row' = [f \in Files |-> IF f \in given THEN Retried(row[f]) ELSE row[f]]
  /\ UNCHANGED <<tomb, minted, alive, put, writer, call, loop, todo, att, turn, faults>>

StartWorker(p) ==
  /\ turn = Free
  /\ loop[p] = "off" /\ \A q \in Loops : loop[q] # "on"
  /\ loop' = [loop EXCEPT ![p] = "on"]
  /\ UNCHANGED <<row, tomb, minted, alive, put, writer, call, todo, att, turn, faults>>

\* A loop that awaits a call to the node goes on awaiting it.
StopWorker(p) ==
  /\ turn = Free
  /\ loop[p] = "on"
  /\ loop' = [loop EXCEPT ![p] = IF att[p].pc = "idle" THEN "off" ELSE "stopping"]
  /\ att' = [att EXCEPT ![p].aborted = att[p].pc # "idle"]
  /\ Fault
  /\ UNCHANGED <<row, tomb, minted, alive, put, writer, call, todo, turn>>

\* The process dies; the database and what is on the wire remain.
Crash ==
  /\ Fault
  /\ alive' = [f \in Files |-> {}]
  /\ writer' = [f \in Files |-> IF writer[f].pc = "writing"
                                THEN [pc |-> "gone", holder |-> Nobody] ELSE writer[f]]
  /\ call' = [pc |-> "end", refs |-> {}, held |-> [f \in Files |-> NoHandle], aborted |-> FALSE]
  /\ loop' = [p \in Loops |-> "off"]
  /\ todo' = [p \in Procs |-> NoTodo]
  /\ att' = [p \in Procs |-> Idle]
  /\ turn' = Free
  /\ UNCHANGED <<row, tomb, minted, put>>

----------------------------------------------------------------------------
(* Attempts.                                                                *)

Handle(a) == [holder |-> a.holder, epoch |-> a.epoch]

\* The next put is not the last: the node is owed an answer.
SendPart(p, a, r) ==
  /\ row' = [row EXCEPT ![a.file] = r]
  /\ att' = [att EXCEPT ![p] = [a EXCEPT !.pc = "part"]]
  /\ UNCHANGED put

\* Mutant: the gate is not written before the final put goes out.
SendFinalUngated(p, a, r) ==
  /\ a.committing \/ (Owned(r, Handle(a)) /\ r.phase = "uploading")
  /\ row' = [row EXCEPT ![a.file] = r]
  /\ att' = [att EXCEPT ![p] = [a EXCEPT !.pc = "final"]]
  /\ put' = [put EXCEPT ![a.file].sent = @ \cup {a.holder},
                        ![a.file].flying = @ \cup {a.holder}]

\* beforeFinal and the final put: the row is at "committing" before it goes.
SendFinal(p, a, r) ==
  /\ a.committing \/ (Owned(r, Handle(a)) /\ r.phase = "uploading")
  /\ row' = [row EXCEPT ![a.file] = IF a.committing THEN r ELSE Advanced(r, "committing")]
  /\ att' = [att EXCEPT ![p] = [a EXCEPT !.pc = "final",
                                         !.committing = TRUE,
                                         !.epoch = IF a.committing THEN @ ELSE @ + 1]]
  /\ put' = [put EXCEPT ![a.file].sent = @ \cup {a.holder},
                        ![a.file].flying = @ \cup {a.holder}]

\* The first put of an upload, resumed or new.
SendPut(p, a, r) == SendPart(p, a, r) \/ SendFinal(p, a, r)

\* An attempt is over and its holder retired; its loop or its call goes on.
AttemptOver(p) ==
  /\ att' = [att EXCEPT ![p] = Idle]
  /\ Retires(att[p].file, att[p].holder)
  /\ IF p = Call
     THEN turn' = Call /\ UNCHANGED <<loop, todo>>
     ELSE IF loop[p] = "stopping"
     THEN /\ loop' = [loop EXCEPT ![p] = "off"]
          /\ todo' = [todo EXCEPT ![p] = NoTodo]
          /\ UNCHANGED turn
     ELSE /\ turn' = IF todo[p] = NoTodo THEN Free ELSE p
          /\ UNCHANGED <<loop, todo>>

\* LostDelivery, or an abort: nothing is recorded.
AttemptLost(p) ==
  /\ AttemptOver(p)
  /\ UNCHANGED <<row, put>>

\* The action was cancelled while its push awaits the node: the wait ends there.
Cancelled(p) == p = Call /\ call.aborted

\* The node has a part; the final put is next.
PartAnswered(p) ==
  LET a == att[p] IN
  /\ turn = Free
  /\ a.pc = "part" /\ ~Cancelled(p)
  /\ \/ /\ ~a.aborted
        /\ SendFinal(p, a, row[a.file])
        /\ UNCHANGED <<alive, loop, todo, turn>>
     \/ /\ a.aborted \/ ~(a.committing \/ (Owned(row[a.file], Handle(a)) /\ row[a.file].phase = "uploading"))
        /\ AttemptLost(p)
  /\ UNCHANGED <<tomb, minted, writer, call, faults>>

\* The node answers the final put with another offset: the upload goes on
\* from there, its gate already written.
PutResynced(p) ==
  LET a == att[p] IN
  /\ turn = Free
  /\ a.pc = "final" /\ ~Cancelled(p)
  /\ a.holder \in put[a.file].flying /\ a.resyncs < MaxResyncs
  /\ put' = [put EXCEPT ![a.file].flying = @ \ {a.holder}]
  /\ \/ /\ ~a.aborted
        /\ att' = [att EXCEPT ![p].pc = "part", ![p].resyncs = @ + 1]
        /\ UNCHANGED <<alive, loop, todo, turn>>
     \/ /\ a.aborted
        /\ AttemptOver(p)
  /\ UNCHANGED <<row, tomb, minted, writer, call, faults>>

\* The node commits a final put, however late.
NodeTakes(f) ==
  /\ turn = Free
  /\ \E h \in put[f].flying :
       put' = [put EXCEPT ![f].flying = @ \ {h}, ![f].taken = @ \cup {h}]
  /\ UNCHANGED <<row, tomb, minted, alive, writer, call, loop, todo, att, turn, faults>>

\* The reply to the final put.  The worker wakes the agent next; for the call
\* the reply is the wake, and an attachment original needs none.  The write that
\* ends the row may fail: the wake is owed again.
FinalAnswered(p) ==
  LET a == att[p]
      landed == Advanced(Advanced(row[a.file], "uploaded"), "notifying")
      mine == Owned(row[a.file], Handle(a)) /\ row[a.file].phase = "committing" IN
  /\ turn = Free
  /\ a.pc = "final" /\ a.holder \in put[a.file].taken
  /\ \/ /\ mine /\ p \in Loops /\ ~row[a.file].silent
        /\ row' = [row EXCEPT ![a.file] = landed]
        /\ att' = [att EXCEPT ![p] = [a EXCEPT !.pc = "notify", !.committing = FALSE,
                                               !.epoch = landed.epoch]]
        /\ UNCHANGED <<put, alive, loop, todo, turn, faults>>
     \/ /\ mine /\ (p = Call \/ row[a.file].silent)
        /\ \/ /\ row' = [row EXCEPT ![a.file] = Ended(landed, "done")]
              /\ UNCHANGED faults
           \/ /\ row' = [row EXCEPT ![a.file] = IF a.aborted THEN landed
                                                ELSE Failed(landed, FALSE)]
              /\ Fault
        /\ AttemptOver(p)
        /\ UNCHANGED put
     \/ /\ ~mine
        /\ AttemptLost(p)
        /\ UNCHANGED faults
  /\ UNCHANGED <<tomb, minted, writer, call>>

\* The agent was woken, or the node says there is nobody to wake.
NotifyAnswered(p) ==
  LET a == att[p] IN
  /\ turn = Free
  /\ a.pc = "notify"
  /\ \E how \in {"done", "abandoned"} :
       row' = IF Owned(row[a.file], Handle(a))
              THEN [row EXCEPT ![a.file] = Ended(@, how)] ELSE row
  /\ AttemptOver(p)
  /\ UNCHANGED <<tomb, minted, put, writer, call, faults>>

\* Automatic retry stops: a final put nobody knows the fate of, or a file not
\* on the node whose attempts are used up or whose local copy is missing.
GivesUp(p, a, missing) ==
  \/ a.committing
  \/ /\ p \in Loops /\ a.pc # "notify"
     /\ missing \/ a.tries + 1 >= MaxAttempts

\* A call to the node fails, or the budget or the cancel of the action ends it.  An
\* aborted worker records nothing; the record may also be unwritable, which
\* makes the tool call's own sync throw.
AttemptFails(p) ==
  LET a == att[p] IN
  /\ turn = Free
  /\ a.pc \in {"part", "final", "notify", "renew"}
  /\ Fault \/ (Cancelled(p) /\ UNCHANGED faults)
  /\ AttemptOver(p)
  /\ \/ /\ ~a.aborted
        /\ \E missing \in BOOLEAN :
             row' = IF Owned(row[a.file], Handle(a))
                    THEN [row EXCEPT ![a.file] = Failed(@, GivesUp(p, a, missing))] ELSE row
        /\ UNCHANGED call
     \/ /\ UNCHANGED row
        /\ call' = [call EXCEPT !.aborted = @ \/ p = Call]
  /\ UNCHANGED <<tomb, minted, put, writer>>

----------------------------------------------------------------------------
(* The worker's pass.                                                       *)

Listed == {f \in Files : Live(row[f]) /\ ~row[f].gaveUp}

\* A pass that finds every row held changes nothing and is left out.
ListDeliveries(p) ==
  /\ turn = Free
  /\ loop[p] = "on" /\ att[p].pc = "idle"
  /\ \E f \in Listed : Claimable(f, row[f])
  /\ todo' = [todo EXCEPT ![p] = [f \in Files |-> IF f \in Listed THEN row[f] ELSE NoRow]]
  /\ turn' = p
  /\ UNCHANGED <<row, tomb, minted, alive, put, writer, call, loop, att, faults>>

\* The pass has dealt with f without waiting.
Passed(p, f) ==
  /\ todo' = [todo EXCEPT ![p][f] = NoRow]
  /\ turn' = IF todo'[p] = NoTodo THEN Free ELSE p

\* The pass waits for an answer about f.
Awaits(p, f) ==
  /\ todo' = [todo EXCEPT ![p][f] = NoRow]
  /\ turn' = Free

Reaches(p, f) == turn = p /\ p \in Loops /\ todo[p][f] # NoRow

\* A holder at work, or a row that has moved on.
SkipRow(p, f) ==
  /\ Reaches(p, f)
  /\ ~Claimable(f, todo[p][f])
  /\ Passed(p, f)
  /\ UNCHANGED <<row, tomb, minted, alive, put, writer, call, loop, att, faults>>

\* Mutant: a dead committing row is taken for landed.
CloseDeadRowTrusting(p, f) ==
  /\ Reaches(p, f)
  /\ Claimable(f, todo[p][f])
  /\ LET mine == Claimed(row[f], New(f)) IN
     \/ /\ todo[p][f].phase = "writing"
        /\ row' = [row EXCEPT ![f] = Ended(mine, "abandoned")]
     \/ /\ todo[p][f].phase = "committing"
        /\ row' = [row EXCEPT ![f] = Ended(mine, "done")]
  /\ Mints(f)
  /\ Passed(p, f)
  /\ UNCHANGED <<tomb, alive, put, writer, call, loop, att, faults>>

\* What a dead holder left unfinished: a half file is abandoned, a final put
\* nobody heard of again is given up.
CloseDeadRow(p, f) ==
  /\ Reaches(p, f)
  /\ Claimable(f, todo[p][f])
  /\ LET mine == Claimed(row[f], New(f)) IN
     \/ /\ todo[p][f].phase = "writing"
        /\ row' = [row EXCEPT ![f] = Ended(mine, "abandoned")]
     \/ /\ todo[p][f].phase = "committing"
        /\ row' = [row EXCEPT ![f] = Failed(mine, TRUE)]
  /\ Mints(f)
  /\ Passed(p, f)
  /\ UNCHANGED <<tomb, alive, put, writer, call, loop, att, faults>>

Attempt(f, h, r, tries) ==
  [Idle EXCEPT !.file = f, !.holder = h, !.epoch = r.epoch, !.tries = tries]

\* A complete file, or one under way: uploaded, the final put gated.
ResumeUpload(p, f) ==
  /\ Reaches(p, f)
  /\ Claimable(f, todo[p][f])
  /\ todo[p][f].phase \in {"sealed", "queued", "uploading"}
  /\ Mints(f)
  /\ Joins(f, New(f))
  /\ LET mine == Claimed(row[f], New(f))
         sending == IF todo[p][f].phase = "uploading" THEN mine ELSE Advanced(mine, "uploading")
     IN  SendPut(p, Attempt(f, New(f), sending, todo[p][f].attempts), sending)
  /\ Awaits(p, f)
  /\ UNCHANGED <<tomb, writer, call, loop, faults>>

\* The node has the file; only the wake is owed.
ResumeWake(p, f) ==
  /\ Reaches(p, f)
  /\ Claimable(f, todo[p][f])
  /\ todo[p][f].phase \in {"uploaded", "notifying"}
  /\ Mints(f)
  /\ LET mine == Claimed(row[f], New(f))
         waking == IF todo[p][f].phase = "notifying" THEN mine ELSE Advanced(mine, "notifying")
     IN \/ /\ ~row[f].silent
           /\ row' = [row EXCEPT ![f] = waking]
           /\ att' = [att EXCEPT ![p] = [Attempt(f, New(f), waking, todo[p][f].attempts)
                                           EXCEPT !.pc = "notify"]]
           /\ Joins(f, New(f))
           /\ Awaits(p, f)
        \/ /\ row[f].silent
           /\ row' = [row EXCEPT ![f] = Ended(waking, "done")]
           /\ Passed(p, f)
           /\ UNCHANGED <<att, alive>>
  /\ UNCHANGED <<tomb, put, writer, call, loop, faults>>

----------------------------------------------------------------------------
(* The tool call's reply.                                                   *)

HeldBy(c)       == {f \in Files : c.held[f].holder # Nobody}

RetiresHeld(S) ==
  alive' = [f \in Files |-> IF f \in S THEN alive[f] \ {call.held[f].holder} ELSE alive[f]]

\* The tool threw: what it sealed is abandoned.
CallThrows ==
  /\ turn = Free
  /\ call.pc = "run"
  /\ row' = [f \in Files |-> IF f \in HeldBy(call) /\ Owned(row[f], call.held[f])
                             THEN Ended(row[f], "abandoned") ELSE row[f]]
  /\ RetiresHeld(HeldBy(call))
  /\ call' = [call EXCEPT !.pc = "end", !.held = [f \in Files |-> NoHandle]]
  /\ UNCHANGED <<tomb, minted, put, writer, loop, todo, att, turn, faults>>

\* The tool returned: what it sealed and does not name is abandoned, the
\* files it names are read from the record, once, for all that follows.
CallReturns ==
  /\ turn = Free
  /\ call.pc = "run"
  /\ \E named \in SUBSET call.refs :
       LET unnamed == HeldBy(call) \ named IN
       /\ row' = [f \in Files |-> IF f \in unnamed /\ Owned(row[f], call.held[f])
                                  THEN Ended(row[f], "abandoned") ELSE row[f]]
       /\ RetiresHeld(unnamed)
       /\ call' = [call EXCEPT !.pc = "push",
                     !.held = [f \in Files |-> IF f \in unnamed THEN NoHandle ELSE @[f]]]
       /\ todo' = [todo EXCEPT ![Call] = [f \in Files |-> IF f \in named THEN row'[f] ELSE NoRow]]
  /\ turn' = Call
  /\ UNCHANGED <<tomb, minted, put, writer, loop, att, faults>>

\* The action is cancelled while its files are pushed.
CallIsCancelled ==
  /\ turn = Free
  /\ call.pc = "push" /\ ~call.aborted
  /\ call' = [call EXCEPT !.aborted = TRUE]
  /\ Fault
  /\ UNCHANGED <<row, tomb, minted, alive, put, writer, loop, todo, att, turn>>

Selects(f) == turn = Call /\ ~call.aborted /\ todo[Call][f] # NoRow

Ours(f) == /\ call.held[f].holder # Nobody
           /\ todo[Call][f].holder = call.held[f].holder
           /\ todo[Call][f].epoch = call.held[f].epoch

Pushable(f) == LET seen == todo[Call][f] IN
  /\ seen.outcome = "live" /\ seen.phase = "sealed" /\ ~seen.gaveUp
  /\ Ours(f) \/ seen.holder \notin alive[f]

\* Read, or refused: reported without a push.
ReportFile(f) ==
  /\ Selects(f)
  /\ ~Pushable(f) \/ (~Ours(f) /\ ~Claimable(f, todo[Call][f]))
  /\ todo' = [todo EXCEPT ![Call][f] = NoRow]
  /\ UNCHANGED <<row, tomb, minted, alive, put, writer, call, loop, att, turn, faults>>

\* The file does not fit the budget: left for the worker.
LeaveForWorker(a, r) ==
  /\ row' = IF Owned(r, Handle(a)) /\ r.phase = "sealed"
            THEN [row EXCEPT ![a.file] = Released(Advanced(r, "queued"))]
            ELSE [row EXCEPT ![a.file] = r]
  /\ Retires(a.file, a.holder)
  /\ att' = [att EXCEPT ![Call] = Idle]
  /\ turn' = Call
  /\ UNCHANGED put

\* It fits: the upload begins, unless the row was lost.
StartPush(a, r) ==
  \/ /\ Owned(r, Handle(a)) /\ r.phase = "sealed"
     /\ LET sending == Advanced(r, "uploading") IN
        SendPut(Call, [a EXCEPT !.epoch = sending.epoch], sending)
     /\ Joins(a.file, a.holder)
     /\ turn' = Free
  \/ /\ ~(Owned(r, Handle(a)) /\ r.phase = "sealed")
     /\ row' = [row EXCEPT ![a.file] = r]
     /\ Retires(a.file, a.holder)
     /\ att' = [att EXCEPT ![Call] = Idle]
     /\ turn' = Call
     /\ UNCHANGED put

\* The claim has to be renewed first: the call waits for the node.
AskRenewal(a, r) ==
  /\ row' = [row EXCEPT ![a.file] = r]
  /\ Joins(a.file, a.holder)
  /\ att' = [att EXCEPT ![Call] = [a EXCEPT !.pc = "renew"]]
  /\ turn' = Free
  /\ UNCHANGED put

Push(a, r) == LeaveForWorker(a, r) \/ StartPush(a, r) \/ AskRenewal(a, r)

\* A file the call holds is pushed under its handle, another is claimed.
PushFile(f) ==
  /\ Selects(f)
  /\ Pushable(f)
  /\ todo' = [todo EXCEPT ![Call][f] = NoRow]
  /\ \/ /\ Ours(f)
        /\ call' = [call EXCEPT !.held[f] = NoHandle]
        /\ Push([Idle EXCEPT !.file = f, !.holder = call.held[f].holder,
                             !.epoch = call.held[f].epoch], row[f])
        /\ UNCHANGED minted
     \/ /\ ~Ours(f) /\ Claimable(f, todo[Call][f])
        /\ Mints(f)
        /\ LET mine == Claimed(row[f], New(f)) IN Push(Attempt(f, New(f), mine, 0), mine)
        /\ UNCHANGED call
  /\ UNCHANGED <<tomb, writer, loop, faults>>

\* Renewed or refused; the budget is compared again.
RenewalAnswered ==
  LET a == att[Call] IN
  /\ turn = Free
  /\ a.pc = "renew" /\ ~call.aborted
  /\ LeaveForWorker(a, row[a.file]) \/ StartPush(a, row[a.file])
  /\ UNCHANGED <<tomb, minted, writer, call, loop, todo, faults>>

\* The reply goes out, or the cancel is noticed; whatever is still held is
\* released to the worker.
CallEnds ==
  /\ turn = Call
  /\ todo[Call] = NoTodo \/ call.aborted
  /\ row' = [f \in Files |-> IF f \in HeldBy(call) /\ Owned(row[f], call.held[f])
                             THEN Released(row[f]) ELSE row[f]]
  /\ RetiresHeld(HeldBy(call))
  /\ call' = [call EXCEPT !.pc = "end", !.held = [f \in Files |-> NoHandle]]
  /\ todo' = [todo EXCEPT ![Call] = NoTodo]
  /\ turn' = Free
  /\ UNCHANGED <<tomb, minted, put, writer, loop, att, faults>>

----------------------------------------------------------------------------
Produce(f) == \/ Reserve(f) \/ Seal(f) \/ SealThrows(f) \/ AbandonWriting(f)
              \/ Publish(f) \/ Observe(f)

Answered(p) == \/ PartAnswered(p) \/ PutResynced(p) \/ FinalAnswered(p)
               \/ NotifyAnswered(p)

Pass(p, f) == SkipRow(p, f) \/ CloseDeadRow(p, f) \/ ResumeUpload(p, f) \/ ResumeWake(p, f)

Selection == \/ \E f \in Files : ReportFile(f) \/ PushFile(f)
             \/ RenewalAnswered
             \/ CallEnds

Next ==
  \/ \E f \in Files : Produce(f) \/ NodeTakes(f)
  \/ DropSession \/ RetryGivenUp \/ Crash
  \/ \E p \in Loops : StartWorker(p) \/ StopWorker(p) \/ ListDeliveries(p)
  \/ \E p \in Loops, f \in Files : Pass(p, f)
  \/ \E p \in Procs : Answered(p) \/ AttemptFails(p)
  \/ CallThrows \/ CallReturns \/ CallIsCancelled \/ Selection

\* The connection comes back and its worker runs; the node answers what it is
\* asked, a cancelled push ends at once; the tool returns.
Fairness ==
  /\ \A p \in Loops : WF_vars(StartWorker(p)) /\ WF_vars(ListDeliveries(p))
  /\ \A p \in Loops : WF_vars(\E f \in Files : Pass(p, f))
  /\ \A p \in Procs : WF_vars(Answered(p))
  /\ \A f \in Files : WF_vars(NodeTakes(f))
  /\ WF_vars(CallThrows \/ CallReturns)
  /\ WF_vars(Selection) /\ WF_vars(Cancelled(Call) /\ AttemptFails(Call))

Spec     == Init /\ [][Next]_vars
FairSpec == Spec /\ Fairness

----------------------------------------------------------------------------
Rows    == [phase : Phases \cup {"none"}, outcome : {"live", "done", "abandoned"},
            holder : Nat, epoch : Nat, attempts : Nat, gaveUp : BOOLEAN, silent : BOOLEAN]
Handles == [holder : Nat, epoch : Nat]

TypeOK ==
  /\ row \in [Files -> Rows]
  /\ tomb \in BOOLEAN
  /\ minted \in [Files -> Nat]
  /\ alive \in [Files -> SUBSET Nat]
  /\ put \in [Files -> [sent : SUBSET Nat, flying : SUBSET Nat, taken : SUBSET Nat]]
  /\ writer \in [Files -> [pc : {"none", "writing", "gone"}, holder : Nat]]
  /\ call \in [pc : {"run", "push", "end"}, refs : SUBSET Files, held : [Files -> Handles],
               aborted : BOOLEAN]
  /\ loop \in [Loops -> {"off", "on", "stopping"}]
  /\ todo \in [Procs -> [Files -> Rows]]
  /\ att \in [Procs -> [pc : {"idle", "part", "final", "notify", "renew"},
                        file : Files \cup {NoFile}, holder : Nat, epoch : Nat, tries : Nat,
                        committing : BOOLEAN, resyncs : Nat, aborted : BOOLEAN]]
  /\ turn \in Procs \cup {Free}
  /\ faults \in Nat

\* The final put of a file goes out from one attempt only, however many
\* attempts, workers, pushes and restarts there are: sending it again could
\* overwrite what the node's agent has made of the file since.
FinalPutOnce == \A f \in Files : Cardinality(put[f].sent) <= 1

\* The mirror is told that the node's copy counts only when the node has one;
\* otherwise the desktop's copy, the only one there is, could be pruned.
NodeCopyIsReal ==
  \A f \in Files : Protection(f) = "node-authoritative" => put[f].taken # {}

\* A row somebody is still writing stays theirs until they end it or the
\* session is dropped.
WriterKeepsItsRow ==
  \A f \in Files : writer[f].pc = "writing" =>
     tomb \/ Sealable(f)

\* A complete file not yet on the node is abandoned only with its session or
\* by the call that made it and does not name it, never because of what
\* somebody once read of its row.
CompleteFileIsKept ==
  [][\A f \in Files :
       (/\ Live(row[f]) /\ row[f].phase \in Owing \ {"writing"}
        /\ row'[f].outcome = "abandoned")
       => tomb' \/ Owned(row[f], call.held[f])]_vars

\* A complete file of a session that lives is delivered, or given up visibly.
CompleteFileIsCarried ==
  \A f \in Files : (Live(row[f]) /\ row[f].phase \in Owing \ {"writing"})
                   ~> (~Live(row[f]) \/ row[f].gaveUp)
=============================================================================
