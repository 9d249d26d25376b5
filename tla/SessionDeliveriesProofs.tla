----------------------- MODULE SessionDeliveriesProofs -----------------------
(* Theorems about SessionDeliveries for every value of its constants.       *)
EXTENDS SessionDeliveries, FiniteSetTheorems, TLAPS

Outcomes == {"live", "done", "abandoned"}
Puts     == [sent : SUBSET Nat, flying : SUBSET Nat, taken : SUBSET Nat]
Writers  == [pc : {"none", "writing", "gone"}, holder : Nat]
Waits    == {"idle", "part", "final", "notify", "renew"}
Atts     == [pc : Waits, file : Files \cup {NoFile}, holder : Nat, epoch : Nat, tries : Nat,
             committing : BOOLEAN, resyncs : Nat, aborted : BOOLEAN]
Calls    == [pc : {"run", "push", "end"}, refs : SUBSET Files, held : [Files -> Handles],
             aborted : BOOLEAN]

\* The final put of the file has not gone out.
Early == {"none", "writing", "sealed", "queued", "uploading"}

\* The record says that the node has the file.
OnNode(r) == r.outcome = "done" \/ (r.outcome = "live" /\ r.phase \in {"uploaded", "notifying"})

\* What a row says of the puts of its file.
Fits(r, pt) ==
  /\ r.phase = "none" => r = NoRow
  /\ r.phase \in Early => pt.sent = {}
  /\ OnNode(r) => pt.taken # {}
  /\ r.epoch = 0 => ~r.gaveUp
  /\ \A g, h \in pt.sent : g = h

RowInv(f) == Fits(row[f], put[f])

\* A writer at work is alive and its row is as reserved.
WriterInv(f) ==
  writer[f].pc = "writing" =>
    /\ writer[f].holder \in alive[f]
    /\ writer[f].holder \in 1..minted[f]
    /\ tomb \/ Sealable(f)

\* What the call holds it does not hold as a writer.
HeldInv(f) ==
  /\ call.held[f].holder <= minted[f]
  /\ writer[f].pc = "writing" => call.held[f].holder # writer[f].holder

\* An attempt holds a token of its own and knows no later row than there is.
Tries(a, f) ==
  /\ row[f].phase # "none"
  /\ a.holder \in 1..minted[f]
  /\ writer[f].pc = "writing" => a.holder # writer[f].holder
  /\ a.epoch <= row[f].epoch
  /\ a.committing => a.holder \in put[f].sent
  /\ a.pc = "notify" => /\ put[f].taken # {}
                        /\ Owned(row[f], Handle(a)) => row[f].phase = "notifying"

AttInv(p) == att[p].pc # "idle" => att[p].file \in Files /\ Tries(att[p], att[p].file)

\* What was read of a row is the row, or the row has moved on.
Read(r, f) ==
  r # NoRow => r.epoch <= row[f].epoch /\ (r.epoch = row[f].epoch => r = row[f])

TodoInv(p, f) == Read(todo[p][f], f)

IInv ==
  /\ TypeOK
  /\ \A f \in Files : RowInv(f) /\ WriterInv(f) /\ HeldInv(f)
  /\ \A p \in Procs : AttInv(p) /\ \A f \in Files : TodoInv(p, f)

----------------------------------------------------------------------------
(* The record.                                                              *)

LEMMA TypeIs ==
  TypeOK <=> /\ row \in [Files -> Rows] /\ tomb \in BOOLEAN
             /\ minted \in [Files -> Nat] /\ alive \in [Files -> SUBSET Nat]
             /\ put \in [Files -> Puts] /\ writer \in [Files -> Writers]
             /\ call \in Calls /\ loop \in [Loops -> {"off", "on", "stopping"}]
             /\ todo \in [Procs -> [Files -> Rows]] /\ att \in [Procs -> Atts]
             /\ turn \in Procs \cup {Free} /\ faults \in Nat
  BY DEF TypeOK, Puts, Writers, Calls, Atts, Waits

LEMMA LiteralsAreTyped ==
  /\ NoRow \in Rows /\ NoRow.phase = "none" /\ NoRow.epoch = 0 /\ NoRow.holder = Nobody
  /\ NoHandle \in Handles /\ NoHandle.holder = Nobody
  /\ Idle \in Atts /\ Idle.pc = "idle"
  /\ NoTodo \in [Files -> Rows] /\ \A f \in Files : NoTodo[f] = NoRow
  BY DEF NoRow, Rows, NoHandle, Handles, Idle, Atts, Waits, NoTodo, Nobody

\* w is the row that a write makes of r.
After(w, r, phase, outcome) ==
  /\ w \in Rows /\ w.epoch = r.epoch + 1
  /\ w.phase = phase /\ w.outcome = outcome /\ w.silent = r.silent

LEMMA WrittenIs ==
  ASSUME NEW r \in Rows, NEW phase \in Phases, NEW outcome \in Outcomes, NEW holder \in Nat,
         NEW attempts \in Nat, NEW gaveUp \in BOOLEAN
  PROVE  /\ After(Written(r, phase, outcome, holder, attempts, gaveUp), r, phase, outcome)
         /\ Written(r, phase, outcome, holder, attempts, gaveUp).holder = holder
  BY DEF Rows, Written, Phases, Owing, Outcomes, After

LEMMA FieldsAre ==
  ASSUME NEW r \in Rows, r.phase # "none"
  PROVE  /\ r.phase \in Phases /\ r.outcome \in Outcomes /\ r.holder \in Nat /\ r.epoch \in Nat
         /\ r.attempts \in Nat /\ r.attempts + 1 \in Nat /\ r.gaveUp \in BOOLEAN
         /\ Nobody \in Nat /\ 0 \in Nat /\ FALSE \in BOOLEAN
  BY DEF Rows, Outcomes, Nobody

LEMMA AdvancedIs ==
  ASSUME NEW r \in Rows, r.phase # "none", NEW to \in Phases
  PROVE  After(Advanced(r, to), r, to, r.outcome) /\ Advanced(r, to).holder = r.holder
  BY FieldsAre, WrittenIs DEF Advanced

LEMMA ClaimedIs ==
  ASSUME NEW r \in Rows, r.phase # "none", NEW h \in Nat
  PROVE  After(Claimed(r, h), r, r.phase, r.outcome) /\ Claimed(r, h).holder = h
  BY FieldsAre, WrittenIs DEF Claimed

LEMMA ReleasedIs ==
  ASSUME NEW r \in Rows, r.phase # "none"
  PROVE  After(Released(r), r, r.phase, r.outcome)
  BY FieldsAre, WrittenIs DEF Released

LEMMA EndedIs ==
  ASSUME NEW r \in Rows, r.phase # "none", NEW how \in Outcomes
  PROVE  After(Ended(r, how), r, r.phase, how)
  BY FieldsAre, WrittenIs DEF Ended

LEMMA FailedIs ==
  ASSUME NEW r \in Rows, r.phase # "none", NEW giveUp \in BOOLEAN
  PROVE  After(Failed(r, giveUp), r, r.phase, r.outcome)
  BY FieldsAre, WrittenIs DEF Failed

LEMMA RetriedIs ==
  ASSUME NEW r \in Rows, r.phase # "none"
  PROVE  After(Retried(r), r, r.phase, r.outcome)
  BY FieldsAre, WrittenIs DEF Retried

----------------------------------------------------------------------------
(* Steps.                                                                   *)

\* A complete file is not abandoned but with its session or by its call.
Keeps(f) ==
  (/\ Live(row[f]) /\ row[f].phase \in Owing \ {"writing"}
   /\ row'[f].outcome = "abandoned")
  => tomb' \/ Owned(row[f], call.held[f])

\* What every step does to every file.
Goes(f) ==
  /\ Keeps(f)
  /\ row'[f] = row[f] \/ row[f].phase = "none" \/ row'[f].epoch > row[f].epoch
  /\ row[f].phase # "none" => row'[f].phase # "none"
  /\ minted[f] <= minted'[f]
  /\ put[f].sent \subseteq put'[f].sent /\ put[f].taken \subseteq put'[f].taken
  /\ writer'[f].pc = "writing" => writer'[f] = writer[f] \/ writer'[f].holder > minted[f]
  /\ RowInv(f)' /\ WriterInv(f)' /\ HeldInv(f)'

\* What a step that is not about the file does to it.
Same(f) ==
  /\ row'[f] = row[f] /\ put'[f] = put[f] /\ minted'[f] = minted[f]
  /\ alive'[f] = alive[f] /\ writer'[f] = writer[f] /\ call'.held[f] = call.held[f]

Good == IInv' /\ \A f \in Files : Keeps(f)

LEMMA SameGoes ==
  ASSUME IInv, NEW f \in Files, Same(f), tomb => tomb'
  PROVE  Goes(f)
<1>1. RowInv(f) /\ WriterInv(f) /\ HeldInv(f) /\ minted[f] \in Nat
  BY TypeIs DEF IInv
<1>2. RowInv(f)'
  BY <1>1 DEF RowInv, Same
<1>3. WriterInv(f)'
  BY <1>1 DEF WriterInv, Same, Sealable, Reservation
<1>4. HeldInv(f)'
  BY <1>1 DEF HeldInv, Same
<1>5. Keeps(f)
  BY DEF Keeps, Same, Live
<1> QED BY <1>1, <1>2, <1>3, <1>4, <1>5 DEF Goes, Same

LEMMA TypesAre ==
  /\ TypeOK => /\ row \in [Files -> Rows] /\ minted \in [Files -> Nat]
               /\ put \in [Files -> Puts] /\ writer \in [Files -> Writers]
               /\ att \in [Procs -> Atts] /\ call \in Calls
               /\ todo \in [Procs -> [Files -> Rows]] /\ alive \in [Files -> SUBSET Nat]
               /\ loop \in [Loops -> {"off", "on", "stopping"}]
               /\ turn \in Procs \cup {Free} /\ faults \in Nat /\ tomb \in BOOLEAN
  /\ TypeOK' => /\ row' \in [Files -> Rows] /\ minted' \in [Files -> Nat]
                /\ put' \in [Files -> Puts] /\ writer' \in [Files -> Writers]
                /\ att' \in [Procs -> Atts] /\ call' \in Calls
                /\ todo' \in [Procs -> [Files -> Rows]] /\ alive' \in [Files -> SUBSET Nat]
  BY DEF TypeOK, Puts, Writers, Calls, Atts, Waits

LEMMA EpochsAre ==
  ASSUME TypeOK, TypeOK', NEW f \in Files
  PROVE  /\ row[f] \in Rows /\ row'[f] \in Rows
         /\ row[f].epoch \in Nat /\ row'[f].epoch \in Nat
         /\ minted[f] \in Nat /\ minted'[f] \in Nat
         /\ writer[f].holder \in Nat /\ writer'[f].holder \in Nat
  BY TypesAre DEF Rows, Writers

\* An attempt that waits as before.
LEMMA TryStays ==
  ASSUME IInv, TypeOK', NEW f \in Files, Goes(f), NEW a \in Atts, Tries(a, f),
         NEW b \in Atts, b.holder = a.holder, b.epoch = a.epoch, b.pc = a.pc,
         b.committing = a.committing
  PROVE  Tries(b, f)'
<1>1. /\ row[f].epoch \in Nat /\ row'[f].epoch \in Nat /\ minted[f] \in Nat /\ minted'[f] \in Nat
      /\ a.holder \in Nat /\ a.epoch \in Nat
      /\ writer'[f].holder \in Nat
  BY EpochsAre DEF IInv, Atts
<1>2. row'[f].phase # "none" /\ b.holder \in 1..minted'[f] /\ b.epoch <= row'[f].epoch
  BY <1>1 DEF Tries, Goes
<1>3. writer'[f].pc = "writing" => b.holder # writer'[f].holder
  BY <1>1 DEF Tries, Goes
<1>4. /\ b.committing => b.holder \in put'[f].sent
      /\ b.pc = "notify" => put'[f].taken # {}
  BY DEF Tries, Goes
<1>5. ASSUME b.pc = "notify", Owned(row'[f], Handle(b)) PROVE row'[f].phase = "notifying"
  <2>1. row'[f].epoch = a.epoch /\ a.epoch <= row[f].epoch /\ row[f].phase # "none"
    BY <1>5 DEF Owned, Handle, Tries
  <2>2. row'[f] = row[f]
    BY <1>1, <2>1 DEF Goes
  <2>3. Owned(row[f], Handle(a))
    BY <1>5, <2>2 DEF Owned, Handle
  <2> QED BY <1>5, <2>2, <2>3 DEF Tries
<1> QED BY <1>2, <1>3, <1>4, <1>5 DEF Tries

LEMMA ReadStays ==
  ASSUME IInv, TypeOK', NEW f \in Files, Goes(f), NEW r \in Rows, Read(r, f)
  PROVE  Read(r, f)'
<1>1. row[f].epoch \in Nat /\ r.epoch \in Nat /\ row'[f].epoch \in Nat
  BY EpochsAre DEF Rows, IInv
<1>2. row[f].phase = "none" => row[f] = NoRow /\ row[f].epoch = 0
  BY LiteralsAreTyped DEF IInv, RowInv, Fits
<1> QED BY <1>1, <1>2 DEF Read, Goes

\* The attempt of p after a step.
LEMMA TryIs ==
  ASSUME NEW p, NEW a, att'[p] = a, a.pc = "idle" \/ (a.file \in Files /\ Tries(a, a.file)')
  PROVE  AttInv(p)'
  BY DEF AttInv, Tries, Owned, Handle, Live

\* An attempt that waits as before; an abort may have been noted.
Waiting(c, a) == /\ c.file = a.file /\ c.holder = a.holder /\ c.epoch = a.epoch
                 /\ c.pc = a.pc /\ c.committing = a.committing

\* What the attempts and the readings of p are after a step.
Works(p) ==
  /\ \/ att'[p].pc = "idle"
     \/ Waiting(att'[p], att[p])
     \/ AttInv(p)'
  /\ \A f \in Files : \/ todo'[p][f] = todo[p][f] \/ todo'[p][f] = NoRow
                      \/ todo'[p][f] = row'[f]

LEMMA GoodIs ==
  ASSUME IInv, TypeOK', \A f \in Files : Goes(f), \A p \in Procs : Works(p)
  PROVE  Good
<1>1. ASSUME NEW p \in Procs PROVE AttInv(p)'
  <2>1. CASE att'[p].pc = "idle"
    BY <2>1 DEF AttInv
  <2>2. ASSUME Waiting(att'[p], att[p]), att'[p].pc # "idle"
        PROVE  AttInv(p)'
    <3>1. PICK a : a = att[p]
      OBVIOUS
    <3>2. PICK c : c = att'[p]
      OBVIOUS
    <3>3. a \in Atts /\ c \in Atts
      BY <3>1, <3>2, TypesAre DEF IInv
    <3>5. /\ c.holder = a.holder /\ c.epoch = a.epoch /\ c.pc = a.pc
          /\ c.committing = a.committing /\ c.file = a.file
      BY <2>2, <3>1, <3>2 DEF Waiting
    <3>6. a.file \in Files /\ Tries(a, a.file)
      BY <2>2, <3>1, <3>2, <3>5 DEF IInv, AttInv
    <3>7. Tries(c, a.file)'
      BY <3>3, <3>5, <3>6, TryStays
    <3>8. c.file \in Files /\ Tries(c, c.file)'
      BY <3>5, <3>6, <3>7
    <3> QED BY <3>2, <3>8, TryIs
  <2> QED BY <2>1, <2>2 DEF Works
<1>2. ASSUME NEW p \in Procs, NEW f \in Files PROVE TodoInv(p, f)'
  <2>1. /\ todo[p][f] \in Rows /\ TodoInv(p, f) /\ row'[f].epoch \in Nat
    BY TypesAre, EpochsAre DEF IInv
  <2>2. CASE todo'[p][f] = todo[p][f]
    <3>1. PICK r \in Rows : r = todo[p][f]
      BY <2>1
    <3>2. Read(r, f)'
      BY <2>1, <3>1, ReadStays DEF TodoInv
    <3> QED BY <2>2, <3>1, <3>2 DEF TodoInv, Read
  <2>3. CASE todo'[p][f] = NoRow \/ todo'[p][f] = row'[f]
    BY <2>1, <2>3 DEF TodoInv, Read
  <2> QED BY <2>2, <2>3 DEF Works
<1> QED BY <1>1, <1>2 DEF Good, IInv, Goes

\* A step about one file.
LEMMA OneFile ==
  ASSUME IInv, TypeOK', tomb => tomb', NEW f \in Files, \A g \in Files \ {f} : Same(g), Goes(f),
         \A p \in Procs : Works(p)
  PROVE  Good
<1>1. \A g \in Files : Goes(g)
  BY SameGoes
<1> QED BY <1>1, GoodIs

\* A step that leaves the attempts and the readings alone.
LEMMA NoWork ==
  ASSUME att' = att, todo' = todo
  PROVE  \A p \in Procs : Works(p)
  BY DEF Works, Waiting

LEMMA AfterFits ==
  ASSUME NEW r \in Rows, r.phase # "none", NEW s, Fits(r, s), NEW t, t.sent = s.sent,
         NEW w \in Rows, w.epoch > r.epoch, w.phase # "none",
         w.phase \in Early => r.phase \in Early, OnNode(w) => t.taken # {}
  PROVE  Fits(w, t)
<1>1. w.epoch # 0
  BY DEF Rows
<1> QED BY <1>1 DEF Fits

\* A step that writes the row of a file.
LEMMA RowGoes ==
  ASSUME IInv, TypeOK', NEW f \in Files, row[f].phase # "none", Keeps(f),
         row'[f].epoch > row[f].epoch, row'[f].phase # "none",
         row'[f].phase \in Early => row[f].phase \in Early,
         OnNode(row'[f]) => put'[f].taken # {},
         put'[f].sent = put[f].sent, put[f].taken \subseteq put'[f].taken,
         minted[f] <= minted'[f],
         writer'[f].pc = "writing" => writer'[f] = writer[f],
         WriterInv(f)', HeldInv(f)'
  PROVE  Goes(f)
<1>1. row[f] \in Rows /\ row'[f] \in Rows /\ Fits(row[f], put[f])
  BY EpochsAre DEF IInv, RowInv
<1>2. PICK r \in Rows : r = row[f]
  BY <1>1
<1>3. PICK w \in Rows : w = row'[f]
  BY <1>1
<1>4. PICK s : s = put[f]
  OBVIOUS
<1>5. PICK t : t = put'[f]
  OBVIOUS
<1>6. Fits(w, t)
  BY <1>1, <1>2, <1>3, <1>4, <1>5, AfterFits
<1>7. RowInv(f)'
  BY <1>3, <1>5, <1>6 DEF RowInv, Fits, OnNode
<1> QED BY <1>7 DEF Goes

\* A writer at work whose row nobody else may write, and keeps its token.
LEMMA WriterSafe ==
  ASSUME IInv, TypeOK', NEW f \in Files, writer'[f] = writer[f], tomb => tomb',
         minted[f] <= minted'[f],
         writer[f].pc = "writing" => /\ writer[f].holder \in alive'[f]
                                     /\ tomb \/ row'[f] = row[f]
  PROVE  WriterInv(f)'
<1>1. minted[f] \in Nat /\ minted'[f] \in Nat /\ writer[f].holder \in Nat
  BY EpochsAre DEF IInv
<1> QED BY <1>1 DEF WriterInv, IInv, Sealable, Owned, Reservation, Live

LEMMA HeldSafe ==
  ASSUME IInv, TypeOK', NEW f \in Files, call'.held[f].holder \in {call.held[f].holder, Nobody},
         writer'[f].pc = "writing" => writer'[f] = writer[f], minted[f] <= minted'[f]
  PROVE  HeldInv(f)'
<1>1. minted[f] \in Nat /\ minted'[f] \in Nat /\ writer[f].holder \in Nat
  BY EpochsAre DEF IInv
<1>2. call.held[f].holder \in Nat /\ (writer[f].pc = "writing" => writer[f].holder \in 1..minted[f])
  BY TypesAre DEF IInv, WriterInv, Calls, Handles
<1> QED BY <1>1, <1>2 DEF HeldInv, IInv, Nobody

\* Neither a handle in use nor a claim is good for a row that is reserved.
LEMMA NotReserved ==
  ASSUME IInv, NEW f \in Files, writer[f].pc = "writing", ~tomb
  PROVE  /\ Live(row[f]) /\ row[f].phase = "writing" /\ row[f].epoch = 0
         /\ row[f].holder = writer[f].holder /\ row[f].holder \in alive[f]
         /\ \A a \in Atts : Tries(a, f) => ~Owned(row[f], Handle(a))
         /\ ~Owned(row[f], call.held[f])
         /\ \A r \in Rows : ~Claimable(f, r)
<1>1. Sealable(f) /\ writer[f].holder \in alive[f]
  BY DEF IInv, WriterInv
<1>2. /\ Live(row[f]) /\ row[f].phase = "writing" /\ row[f].epoch = 0
      /\ row[f].holder = writer[f].holder
  BY <1>1 DEF Sealable, Owned, Reservation
<1>3. \A a \in Atts : Tries(a, f) => ~Owned(row[f], Handle(a))
  BY <1>2 DEF Tries, Owned, Handle
<1>4. ~Owned(row[f], call.held[f])
  BY <1>2 DEF IInv, HeldInv, Owned
<1> QED BY <1>1, <1>2, <1>3, <1>4 DEF Claimable

----------------------------------------------------------------------------
(* The producers.                                                           *)

LEMMA ReserveIsGood ==
  ASSUME IInv, NEW f \in Files, Reserve(f)
  PROVE  Good
<1>1. PICK h : h = New(f)
  OBVIOUS
<1>2. minted[f] \in Nat /\ h = minted[f] + 1 /\ h \in Nat \ {0}
  BY <1>1, TypesAre DEF IInv, New
<1>3. PICK r : r = [NoRow EXCEPT !.phase = "writing", !.holder = h]
  OBVIOUS
<1>4. /\ r \in Rows /\ r.phase = "writing" /\ r.holder = h /\ r.epoch = 0
      /\ r.outcome = "live" /\ ~r.gaveUp
  BY <1>2, <1>3 DEF NoRow, Rows, Phases, Owing
<1>5. PICK w : w = [pc |-> "writing", holder |-> h]
  OBVIOUS
<1>6. w \in Writers /\ w.pc = "writing" /\ w.holder = h
  BY <1>2, <1>5 DEF Writers
<1>7. /\ row' = [row EXCEPT ![f] = r]
      /\ writer' = [writer EXCEPT ![f] = w]
      /\ minted' = [minted EXCEPT ![f] = h]
      /\ alive' = [alive EXCEPT ![f] = @ \cup {h}]
      /\ row[f].phase = "none"
      /\ UNCHANGED <<tomb, call, put, loop, todo, att, turn, faults>>
  BY <1>1, <1>2, <1>3, <1>5 DEF Reserve, Mints, Joins, New, workVars
<1>8. TypeOK'
  BY <1>2, <1>4, <1>6, <1>7, TypeIs DEF IInv, TypeOK, Puts, Writers, Calls, Atts, Waits
<1>9. \A g \in Files \ {f} : Same(g)
  BY <1>7, TypesAre DEF IInv, Same
<1>10. row'[f] = r /\ writer'[f] = w /\ minted'[f] = h /\ h \in alive'[f] /\ put'[f] = put[f]
  BY <1>7, TypesAre DEF IInv
<1>11. RowInv(f)'
  BY <1>4, <1>7, <1>10 DEF IInv, RowInv, Fits, Early, OnNode
<1>12. WriterInv(f)'
  BY <1>2, <1>4, <1>6, <1>10 DEF WriterInv, Sealable, Owned, Reservation, Live
<1>13. HeldInv(f)'
  <2>1. call'.held[f].holder \in Nat /\ call'.held[f].holder <= minted[f]
    BY <1>7, TypesAre DEF IInv, HeldInv, Calls, Handles
  <2> QED BY <1>2, <1>6, <1>10, <2>1 DEF HeldInv
<1>14. Goes(f)
  BY <1>2, <1>4, <1>6, <1>7, <1>10, <1>11, <1>12, <1>13 DEF Goes, Keeps
<1>15. \A p \in Procs : Works(p)
  BY <1>7, NoWork
<1> QED BY <1>7, <1>8, <1>9, <1>14, <1>15, OneFile

\* A writer leaves its file, with or without a last write.
LEMMA LeavesIsGood ==
  ASSUME IInv, NEW f \in Files, writer[f].pc = "writing", WriterLeaves(f),
         alive' \in [Files -> SUBSET Nat], \A g \in Files \ {f} : alive'[g] = alive[g],
         NEW r \in Rows, row' = [row EXCEPT ![f] = r],
         \/ r = row[f]
         \/ /\ row[f].phase # "none" /\ r.epoch > row[f].epoch /\ r.phase # "none"
            /\ r.phase \in Early => row[f].phase \in Early
            /\ ~OnNode(r)
            /\ r.outcome = "abandoned" => tomb \/ row[f].phase = "writing",
         call' \in Calls, call'.held[f].holder <= minted[f],
         \A g \in Files \ {f} : call'.held[g] = call.held[g],
         faults' \in Nat, UNCHANGED <<tomb, minted, put, loop, todo, att, turn>>
  PROVE  Good
<1>1. PICK w : w = [pc |-> "gone", holder |-> Nobody]
  OBVIOUS
<1>2. w \in Writers /\ w.pc = "gone"
  BY <1>1 DEF Writers, Nobody
<1>3. writer' = [writer EXCEPT ![f] = w]
  BY <1>1 DEF WriterLeaves
<1>4. TypeOK'
  BY <1>2, <1>3, TypeIs DEF IInv, TypeOK, Puts, Writers, Calls, Atts, Waits
<1>5. \A g \in Files \ {f} : Same(g)
  BY <1>3, TypesAre DEF IInv, Same
<1>6. row'[f] = r /\ writer'[f].pc = "gone" /\ minted[f] \in Nat
  BY <1>2, <1>3, TypesAre DEF IInv
<1>7. WriterInv(f)' /\ HeldInv(f)'
  BY <1>6 DEF WriterInv, HeldInv
<1>8. Goes(f)
  <2>1. CASE r = row[f]
    <3>1. RowInv(f)'
      BY <1>6, <2>1 DEF IInv, RowInv
    <3>2. Keeps(f)
      BY <1>6, <2>1 DEF Keeps, Live
    <3> QED BY <1>6, <1>7, <2>1, <3>1, <3>2 DEF Goes
  <2>2. CASE r # row[f]
    <3>1. Keeps(f)
      BY <1>6, <2>2 DEF Keeps
    <3> QED BY <1>4, <1>6, <1>7, <2>2, <3>1, RowGoes
  <2> QED BY <2>1, <2>2
<1>9. \A p \in Procs : Works(p)
  BY NoWork
<1> QED BY <1>4, <1>5, <1>8, <1>9, OneFile

\* What a writer may still write.
LEMMA SealedIs ==
  ASSUME IInv, NEW f \in Files, Sealable(f),
         NEW w, w = Advanced(row[f], "sealed"), NEW v, v = Released(w)
  PROVE  /\ row[f].phase # "none" /\ row[f].phase \in Early
         /\ w \in Rows /\ w.epoch > row[f].epoch /\ w.phase = "sealed" /\ w.outcome = "live"
         /\ v \in Rows /\ v.epoch > row[f].epoch /\ v.phase = "sealed" /\ v.outcome = "live"
         /\ ~OnNode(w) /\ ~OnNode(v) /\ w.epoch \in Nat
<1>1. row[f] \in Rows /\ row[f].phase = "writing" /\ row[f].outcome = "live" /\ row[f].epoch \in Nat
  BY TypesAre DEF IInv, Sealable, Owned, Live, Rows
<1>2. After(w, row[f], "sealed", "live")
  BY <1>1, AdvancedIs DEF Phases, Owing
<1>3. w \in Rows /\ w.phase = "sealed"
  BY <1>2 DEF After
<1>4. After(v, w, w.phase, w.outcome)
  BY <1>3, ReleasedIs
<1> QED BY <1>1, <1>2, <1>3, <1>4 DEF After, Early, OnNode

LEMMA SealIsGood ==
  ASSUME IInv, NEW f \in Files, Seal(f)
  PROVE  Good
<1>1. PICK w : w = Advanced(row[f], "sealed")
  OBVIOUS
<1>2. PICK v : v = Released(w)
  OBVIOUS
<1>3. /\ alive \in [Files -> SUBSET Nat] /\ call \in Calls /\ faults \in Nat
      /\ row \in [Files -> Rows] /\ writer[f].holder \in Nat
  BY TypesAre DEF IInv, Writers
<1>4. /\ writer[f].pc = "writing" /\ WriterLeaves(f)
      /\ UNCHANGED <<tomb, minted, put, loop, todo, att, turn, faults>>
  BY DEF Seal
<1>5. /\ writer[f].holder \in 1..minted[f] /\ call.held[f].holder <= minted[f]
  BY <1>4 DEF IInv, WriterInv, HeldInv
<1>6. PICK h : h = writer[f].holder
  OBVIOUS
<1>7. CASE /\ Sealable(f)
           /\ row' = [row EXCEPT ![f] = w]
           /\ Holding(f, [holder |-> h, epoch |-> w.epoch])
           /\ UNCHANGED alive
  <2>1. /\ row[f].phase # "none" /\ row[f].phase \in Early
        /\ w \in Rows /\ w.epoch > row[f].epoch /\ w.phase = "sealed" /\ w.outcome = "live"
        /\ ~OnNode(w) /\ w.epoch \in Nat
    BY <1>1, <1>2, <1>7, SealedIs
  <2>2. PICK k : k = [holder |-> h, epoch |-> w.epoch]
    OBVIOUS
  <2>3. k \in Handles /\ k.holder = h
    BY <1>3, <1>6, <2>1, <2>2 DEF Handles
  <2>4. call' = [call EXCEPT !.held[f] = k, !.refs = @ \cup {f}]
    BY <1>7, <2>2 DEF Holding
  <2>5. call' \in Calls /\ call'.held = [call.held EXCEPT ![f] = k]
    BY <1>3, <2>3, <2>4 DEF Calls
  <2>6. call'.held[f] = k /\ \A g \in Files \ {f} : call'.held[g] = call.held[g]
    BY <1>3, <2>5 DEF Calls
  <2>7. call'.held[f].holder <= minted[f]
    BY <1>5, <1>6, <2>3, <2>6
  <2> QED BY <1>3, <1>4, <1>5, <1>6, <1>7, <2>1, <2>5, <2>6, <2>7, LeavesIsGood
<1>8. CASE /\ Sealable(f)
           /\ row' = [row EXCEPT ![f] = v]
           /\ Retires(f, h)
           /\ UNCHANGED call
  <2>1. /\ row[f].phase # "none" /\ row[f].phase \in Early
        /\ v \in Rows /\ v.epoch > row[f].epoch /\ v.phase = "sealed" /\ v.outcome = "live"
        /\ ~OnNode(v)
    BY <1>1, <1>2, <1>8, SealedIs
  <2>2. alive' \in [Files -> SUBSET Nat] /\ \A g \in Files \ {f} : alive'[g] = alive[g]
    BY <1>3, <1>8 DEF Retires
  <2> QED BY <1>3, <1>4, <1>5, <1>8, <2>1, <2>2, LeavesIsGood
<1>9. CASE Retires(f, h) /\ UNCHANGED <<row, call>>
  <2>1. alive' \in [Files -> SUBSET Nat] /\ \A g \in Files \ {f} : alive'[g] = alive[g]
    BY <1>3, <1>9 DEF Retires
  <2>2. row' = [row EXCEPT ![f] = row[f]] /\ row[f] \in Rows
    BY <1>3, <1>9
  <2> QED BY <1>3, <1>4, <1>5, <1>9, <2>1, <2>2, LeavesIsGood
<1> QED BY <1>1, <1>2, <1>6, <1>7, <1>8, <1>9 DEF Seal

LEMMA SealThrowsIsGood ==
  ASSUME IInv, NEW f \in Files, SealThrows(f)
  PROVE  Good
<1>1. /\ alive \in [Files -> SUBSET Nat] /\ call \in Calls /\ faults \in Nat
      /\ row \in [Files -> Rows] /\ row[f] \in Rows
  BY TypesAre DEF IInv
<1>2. /\ writer[f].pc = "writing" /\ WriterLeaves(f) /\ faults' = faults + 1
      /\ Retires(f, writer[f].holder)
      /\ UNCHANGED <<tomb, minted, put, loop, todo, att, turn, call>>
  BY DEF SealThrows, Fault, workVars
<1>3. /\ alive' \in [Files -> SUBSET Nat] /\ \A g \in Files \ {f} : alive'[g] = alive[g]
      /\ call.held[f].holder <= minted[f] /\ faults' \in Nat
  BY <1>1, <1>2 DEF Retires, IInv, HeldInv
<1>4. CASE UNCHANGED row
  <2>1. row' = [row EXCEPT ![f] = row[f]]
    BY <1>1, <1>4
  <2> QED BY <1>1, <1>2, <1>3, <2>1, LeavesIsGood
<1>5. CASE Sealable(f) /\ row' = [row EXCEPT ![f] = Advanced(@, "sealed")]
  <2>1. PICK w : w = Advanced(row[f], "sealed")
    OBVIOUS
  <2>2. row' = [row EXCEPT ![f] = w]
    BY <1>5, <2>1
  <2>3. /\ row[f].phase # "none" /\ row[f].phase \in Early
        /\ w \in Rows /\ w.epoch > row[f].epoch /\ w.phase = "sealed" /\ w.outcome = "live"
        /\ ~OnNode(w)
    BY <1>5, <2>1, SealedIs
  <2> QED BY <1>1, <1>2, <1>3, <2>2, <2>3, LeavesIsGood
<1> QED BY <1>4, <1>5 DEF SealThrows

LEMMA AbandonWritingIsGood ==
  ASSUME IInv, NEW f \in Files, AbandonWriting(f)
  PROVE  Good
<1>1. /\ alive \in [Files -> SUBSET Nat] /\ call \in Calls /\ faults \in Nat
      /\ row \in [Files -> Rows] /\ row[f] \in Rows
  BY TypesAre DEF IInv
<1>2. /\ writer[f].pc = "writing" /\ WriterLeaves(f) /\ faults' = faults
      /\ Retires(f, writer[f].holder)
      /\ UNCHANGED <<tomb, minted, put, loop, todo, att, turn, call>>
  BY DEF AbandonWriting, workVars
<1>3. /\ alive' \in [Files -> SUBSET Nat] /\ \A g \in Files \ {f} : alive'[g] = alive[g]
      /\ call.held[f].holder <= minted[f]
  BY <1>1, <1>2 DEF Retires, IInv, HeldInv
<1>4. CASE ~Owned(row[f], Reservation(f))
  <2>1. row' = [row EXCEPT ![f] = row[f]]
    BY <1>1, <1>4 DEF AbandonWriting
  <2> QED BY <1>1, <1>2, <1>3, <2>1, LeavesIsGood
<1>5. CASE Owned(row[f], Reservation(f))
  <2>1. PICK w : w = Ended(row[f], "abandoned")
    OBVIOUS
  <2>2. row' = [row EXCEPT ![f] = w]
    BY <1>5, <2>1 DEF AbandonWriting
  <2>3. row[f].phase # "none" /\ row[f].epoch \in Nat
    BY <1>1, <1>5 DEF Owned, Live, Rows
  <2>4. After(w, row[f], row[f].phase, "abandoned")
    BY <1>1, <2>1, <2>3, EndedIs DEF Outcomes
  <2>5. /\ w \in Rows /\ w.epoch > row[f].epoch /\ w.phase = row[f].phase
        /\ w.outcome = "abandoned" /\ ~OnNode(w)
    BY <2>3, <2>4 DEF After, OnNode
  <2>6. tomb \/ row[f].phase = "writing"
    BY <1>2, NotReserved
  <2> QED BY <1>1, <1>2, <1>3, <2>2, <2>3, <2>5, <2>6, LeavesIsGood
<1> QED BY <1>4, <1>5

LEMMA PublishIsGood ==
  ASSUME IInv, NEW f \in Files, Publish(f)
  PROVE  Good
<1>1. /\ alive \in [Files -> SUBSET Nat] /\ call \in Calls /\ faults \in Nat
      /\ row \in [Files -> Rows] /\ minted \in [Files -> Nat] /\ put \in [Files -> Puts]
      /\ writer \in [Files -> Writers]
  BY TypesAre DEF IInv
<1>2. PICK h : h = New(f)
  OBVIOUS
<1>3. h = minted[f] + 1 /\ h \in Nat
  BY <1>1, <1>2 DEF New
<1>4. /\ row[f].phase = "none" /\ minted' = [minted EXCEPT ![f] = h]
      /\ UNCHANGED <<tomb, writer, put, loop, todo, att, turn, faults>>
  BY <1>2, <1>3 DEF Publish, Mints, workVars, New
<1>5. minted' \in [Files -> Nat] /\ minted'[f] = h /\ minted[f] < h /\ minted[f] \in Nat
      /\ \A g \in Files \ {f} : minted'[g] = minted[g]
  BY <1>1, <1>3, <1>4
<1>6. Fits(row[f], put[f]) /\ put[f].sent = {} /\ WriterInv(f) /\ HeldInv(f)
  BY <1>4 DEF IInv, RowInv, Fits, Early
<1>7. writer[f].pc = "writing" => tomb
  BY <1>4, NotReserved
<1>8. ASSUME NEW r \in Rows, row' = [row EXCEPT ![f] = r], r.phase = "sealed", r.outcome = "live",
             ~r.gaveUp,
             alive' \in [Files -> SUBSET Nat], \A g \in Files \ {f} : alive'[g] = alive[g],
             alive[f] \subseteq alive'[f],
             call' \in Calls, call'.held[f].holder \in {h, call.held[f].holder},
             \A g \in Files \ {f} : call'.held[g] = call.held[g]
      PROVE  Good
  <2>1. TypeOK'
    BY <1>1, <1>4, <1>5, <1>8, TypeIs DEF IInv, TypeOK, Puts, Writers, Calls, Atts, Waits
  <2>2. \A g \in Files \ {f} : Same(g)
    BY <1>1, <1>4, <1>5, <1>8 DEF Same
  <2>3. row'[f] = r
    BY <1>1, <1>8
  <2>4. RowInv(f)'
    BY <1>4, <1>6, <1>8, <2>3 DEF RowInv, Fits, Early, OnNode
  <2>5. WriterInv(f)'
    BY <1>4, <1>5, <1>6, <1>7, <1>8, <2>1, WriterSafe DEF WriterInv
  <2>6. HeldInv(f)'
    <3>1. writer[f].pc = "writing" => writer[f].holder \in Nat /\ writer[f].holder <= minted[f]
      BY <1>5, <1>6 DEF WriterInv
    <3>2. call.held[f].holder \in Nat
      BY <1>1 DEF Calls, Handles
    <3> QED BY <1>3, <1>4, <1>5, <1>6, <1>8, <3>1, <3>2 DEF HeldInv
  <2>7. Goes(f)
    BY <1>4, <1>5, <1>8, <2>3, <2>4, <2>5, <2>6 DEF Goes, Keeps
  <2>8. \A p \in Procs : Works(p)
    BY <1>4, NoWork
  <2> QED BY <1>4, <2>1, <2>2, <2>7, <2>8, OneFile
<1>9. PICK n : n = [NoRow EXCEPT !.phase = "sealed", !.holder = h]
  OBVIOUS
<1>10. /\ n \in Rows /\ n.phase = "sealed" /\ n.outcome = "live" /\ ~n.gaveUp
  BY <1>3, <1>9 DEF NoRow, Rows, Phases, Owing
<1>11. CASE /\ row' = [row EXCEPT ![f] = n]
            /\ Joins(f, h)
            /\ Holding(f, [holder |-> h, epoch |-> 0])
  <2>1. PICK k : k = [holder |-> h, epoch |-> 0]
    OBVIOUS
  <2>2. k \in Handles /\ k.holder = h
    BY <1>3, <2>1 DEF Handles
  <2>3. call' = [call EXCEPT !.held[f] = k, !.refs = @ \cup {f}]
    BY <1>11, <2>1 DEF Holding
  <2>4. call' \in Calls /\ call'.held = [call.held EXCEPT ![f] = k]
    BY <1>1, <2>2, <2>3 DEF Calls
  <2>5. call'.held[f] = k /\ \A g \in Files \ {f} : call'.held[g] = call.held[g]
    BY <1>1, <2>4 DEF Calls
  <2>6. /\ alive' \in [Files -> SUBSET Nat] /\ \A g \in Files \ {f} : alive'[g] = alive[g]
        /\ alive[f] \subseteq alive'[f]
    BY <1>1, <1>3, <1>11 DEF Joins
  <2> QED BY <1>8, <1>10, <1>11, <2>2, <2>4, <2>5, <2>6
<1>12. CASE /\ \E quiet \in BOOLEAN :
                 row' = [row EXCEPT ![f] = Released([n EXCEPT !.silent = quiet])]
            /\ UNCHANGED <<alive, call>>
  <2>1. PICK quiet \in BOOLEAN :
                 row' = [row EXCEPT ![f] = Released([n EXCEPT !.silent = quiet])]
    BY <1>12
  <2>2. PICK m : m = [n EXCEPT !.silent = quiet]
    OBVIOUS
  <2>3. m \in Rows /\ m.phase = "sealed" /\ m.outcome = "live" /\ ~m.gaveUp
    BY <1>10, <2>2 DEF Rows
  <2>4. PICK r : r = Released(m)
    OBVIOUS
  <2>5. After(r, m, "sealed", "live")
    BY <2>3, <2>4, ReleasedIs
  <2>6. r \in Rows /\ r.phase = "sealed" /\ r.outcome = "live"
    BY <2>5 DEF After
  <2>7. ~r.gaveUp
    BY <2>3, <2>4 DEF Released, Written
  <2>8. row' = [row EXCEPT ![f] = r]
    BY <2>1, <2>2, <2>4
  <2> QED BY <1>1, <1>8, <1>12, <2>6, <2>7, <2>8
<1> QED BY <1>2, <1>9, <1>11, <1>12 DEF Publish

LEMMA ObserveIsGood ==
  ASSUME IInv, NEW f \in Files, Observe(f)
  PROVE  Good
<1>1. call \in Calls
  BY TypesAre DEF IInv
<1>2. /\ call' = [call EXCEPT !.refs = @ \cup {f}]
      /\ UNCHANGED <<row, tomb, minted, alive, writer, put, loop, todo, att, turn, faults>>
  BY DEF Observe, workVars
<1>3. call' \in Calls /\ call'.held = call.held
  BY <1>1, <1>2 DEF Calls
<1>4. TypeOK'
  BY <1>2, <1>3, TypeIs DEF IInv, TypeOK, Puts, Writers, Calls, Atts, Waits
<1>5. \A g \in Files : Same(g)
  BY <1>2, <1>3 DEF Same
<1>6. \A g \in Files : Goes(g)
  BY <1>2, <1>5, SameGoes
<1>7. \A p \in Procs : Works(p)
  BY <1>2, NoWork
<1> QED BY <1>4, <1>6, <1>7, GoodIs

----------------------------------------------------------------------------
(* Steps that write rows and leave the puts and the tokens alone.           *)

\* r is row f, or what a write that tells nothing of its file makes of it.
Rewrites(r, f) ==
  \/ r = row[f]
  \/ /\ row[f].phase # "none"
     /\ writer[f].pc = "writing" => tomb'
     /\ \/ After(r, row[f], row[f].phase, row[f].outcome)
        \/ /\ After(r, row[f], row[f].phase, "abandoned")
           /\ tomb' \/ Owned(row[f], call.held[f])

LEMMA RewritesGoes ==
  ASSUME IInv, TypeOK', NEW f \in Files, NEW r \in Rows, Rewrites(r, f), row'[f] = r,
         put'[f] = put[f], minted'[f] = minted[f], writer'[f].pc = "writing" => writer'[f] = writer[f],
         tomb => tomb', writer'[f].pc = "writing" => writer[f].holder \in alive'[f],
         call'.held[f].holder \in {call.held[f].holder, Nobody}
  PROVE  Goes(f)
<1>1. /\ row[f] \in Rows /\ row[f].epoch \in Nat /\ minted[f] \in Nat
      /\ Fits(row[f], put[f])
  BY EpochsAre DEF IInv, RowInv
<1>2. HeldInv(f)'
  BY <1>1, HeldSafe
<1>3. WriterInv(f)'
  <2>1. CASE writer'[f].pc = "writing"
    <3>1. writer[f].pc = "writing" => tomb' \/ row'[f] = row[f]
      BY DEF Rewrites
    <3>2. /\ writer[f].holder \in alive[f] /\ writer[f].holder \in 1..minted[f]
          /\ tomb \/ Sealable(f)
      BY <2>1 DEF IInv, WriterInv
    <3>3. tomb \/ Sealable(f) => tomb' \/ Sealable(f)'
      BY <2>1, <3>1 DEF Sealable, Owned, Reservation, Live
    <3> QED BY <2>1, <3>2, <3>3 DEF WriterInv
  <2>2. CASE writer'[f].pc # "writing"
    BY <2>2 DEF WriterInv
  <2> QED BY <2>1, <2>2
<1>4. CASE r = row[f]
  <2>1. RowInv(f)'
    BY <1>1, <1>4 DEF RowInv
  <2>2. Keeps(f)
    BY <1>4 DEF Keeps, Live
  <2> QED BY <1>1, <1>2, <1>3, <1>4, <2>1, <2>2 DEF Goes
<1>5. CASE r # row[f]
  <2>1. /\ row[f].phase # "none" /\ r.epoch > row[f].epoch /\ r.phase = row[f].phase
        /\ \/ r.outcome = row[f].outcome
           \/ r.outcome = "abandoned" /\ (tomb' \/ Owned(row[f], call.held[f]))
    BY <1>1, <1>5 DEF Rewrites, After
  <2>2. Keeps(f)
    BY <2>1 DEF Keeps, Live
  <2>3. OnNode(r) => OnNode(row[f])
    BY <2>1 DEF OnNode
  <2>4. OnNode(r) => put'[f].taken # {}
    BY <1>1, <2>3 DEF Fits
  <2> QED BY <1>1, <1>2, <1>3, <2>1, <2>2, <2>4, RowGoes
<1> QED BY <1>4, <1>5

\* A step that rewrites rows.
LEMMA RewriteIsGood ==
  ASSUME IInv, row' \in [Files -> Rows], \A f \in Files : Rewrites(row'[f], f),
         tomb => tomb', tomb' \in BOOLEAN, UNCHANGED <<put, minted>>,
         writer' \in [Files -> Writers],
         \A f \in Files : writer'[f].pc = "writing" =>
             writer'[f] = writer[f] /\ writer[f].holder \in alive'[f],
         alive' \in [Files -> SUBSET Nat], call' \in Calls,
         \A f \in Files : call'.held[f].holder \in {call.held[f].holder, Nobody},
         loop' \in [Loops -> {"off", "on", "stopping"}], faults' \in Nat,
         turn' \in Procs \cup {Free}, todo' \in [Procs -> [Files -> Rows]],
         att' \in [Procs -> Atts], \A p \in Procs : Works(p)
  PROVE  Good
<1>1. TypeOK'
  BY TypeIs DEF IInv, TypeOK, Puts, Writers, Calls, Atts, Waits
<1>2. ASSUME NEW f \in Files PROVE Goes(f)
  <2>1. PICK r \in Rows : r = row'[f]
    OBVIOUS
  <2>2. Rewrites(r, f)
    BY <2>1
  <2> QED BY <1>1, <2>1, <2>2, RewritesGoes
<1> QED BY <1>1, <1>2, GoodIs

\* A row that no step touches.
LEMMA Untouched == ASSUME NEW f, row'[f] = row[f] PROVE Rewrites(row'[f], f)
  BY DEF Rewrites

LEMMA DropSessionIsGood ==
  ASSUME IInv, DropSession
  PROVE  Good
<1>1. /\ alive \in [Files -> SUBSET Nat] /\ call \in Calls /\ faults \in Nat
      /\ row \in [Files -> Rows] /\ writer \in [Files -> Writers]
      /\ att \in [Procs -> Atts] /\ todo \in [Procs -> [Files -> Rows]]
      /\ loop \in [Loops -> {"off", "on", "stopping"}] /\ turn \in Procs \cup {Free}
  BY TypesAre DEF IInv
<1>2. /\ tomb' = TRUE
      /\ row' = [f \in Files |-> IF Live(row[f]) THEN Ended(row[f], "abandoned") ELSE row[f]]
      /\ att' = [p \in Procs |->
               IF p \in Loops /\ att[p].pc # "idle" /\ Live(row[att[p].file])
               THEN [att[p] EXCEPT !.aborted = TRUE] ELSE att[p]]
      /\ UNCHANGED <<minted, alive, put, writer, call, loop, todo, turn, faults>>
  BY DEF DropSession
<1>3. ASSUME NEW f \in Files PROVE row'[f] \in Rows /\ Rewrites(row'[f], f)
  <2>1. CASE Live(row[f])
    <3>1. row[f].phase # "none" /\ row[f] \in Rows
      BY <1>1, <2>1 DEF Live
    <3>2. After(Ended(row[f], "abandoned"), row[f], row[f].phase, "abandoned")
      BY <3>1, EndedIs DEF Outcomes
    <3> QED BY <1>2, <2>1, <3>1, <3>2 DEF Rewrites, After
  <2>2. CASE ~Live(row[f])
    BY <1>1, <1>2, <2>2 DEF Rewrites
  <2> QED BY <2>1, <2>2
<1>4. ASSUME NEW p \in Procs PROVE att'[p] \in Atts /\ Waiting(att'[p], att[p])
  <2>1. PICK a \in Atts : a = att[p]
    BY <1>1
  <2>2. /\ [a EXCEPT !.aborted = TRUE] \in Atts
        /\ Waiting([a EXCEPT !.aborted = TRUE], a)
    BY DEF Atts, Waiting
  <2>3. att'[p] \in {a, [a EXCEPT !.aborted = TRUE]}
    BY <1>2, <2>1
  <2> QED BY <2>1, <2>2, <2>3 DEF Waiting
<1>5. \A p \in Procs : Works(p)
  BY <1>2, <1>4 DEF Works
<1>6. row' \in [Files -> Rows] /\ att' \in [Procs -> Atts]
  BY <1>2, <1>3, <1>4
<1>7. \A f \in Files : writer[f].pc = "writing" => writer[f].holder \in alive[f]
  BY DEF IInv, WriterInv
<1> QED BY <1>1, <1>2, <1>3, <1>5, <1>6, <1>7, RewriteIsGood

LEMMA RetryGivenUpIsGood ==
  ASSUME IInv, RetryGivenUp
  PROVE  Good
<1>1. /\ alive \in [Files -> SUBSET Nat] /\ call \in Calls /\ faults \in Nat
      /\ row \in [Files -> Rows] /\ writer \in [Files -> Writers]
      /\ att \in [Procs -> Atts] /\ todo \in [Procs -> [Files -> Rows]]
      /\ loop \in [Loops -> {"off", "on", "stopping"}] /\ turn \in Procs \cup {Free}
      /\ tomb \in BOOLEAN
  BY TypesAre DEF IInv
<1>0. PICK given : given = {f \in Files : Live(row[f]) /\ row[f].gaveUp /\ row[f].phase # "committing"}
  OBVIOUS
<1>2. /\ \A f \in given : Live(row[f]) /\ row[f].gaveUp
      /\ row' = [f \in Files |-> IF f \in given THEN Retried(row[f]) ELSE row[f]]
      /\ UNCHANGED <<tomb, minted, alive, put, writer, call, loop, todo, att, turn, faults>>
  BY <1>0 DEF RetryGivenUp
<1>3. ASSUME NEW f \in Files PROVE row'[f] \in Rows /\ Rewrites(row'[f], f)
  <2>1. CASE f \in given
    <3>1. row[f].phase # "none" /\ row[f] \in Rows
      BY <1>1, <1>2, <2>1 DEF Live
    <3>2. After(Retried(row[f]), row[f], row[f].phase, row[f].outcome)
      BY <3>1, RetriedIs
    <3>3. writer[f].pc = "writing" => tomb
      <4>1. row[f].gaveUp /\ Fits(row[f], put[f])
        BY <1>2, <2>1 DEF IInv, RowInv
      <4> QED BY <4>1, NotReserved DEF Fits
    <3> QED BY <1>2, <2>1, <3>1, <3>2, <3>3 DEF Rewrites, After
  <2>2. CASE f \notin given
    BY <1>1, <1>2, <2>2 DEF Rewrites
  <2> QED BY <2>1, <2>2
<1>4. row' \in [Files -> Rows]
  BY <1>2, <1>3
<1>5. \A p \in Procs : Works(p)
  BY <1>2, NoWork
<1>6. \A f \in Files : writer[f].pc = "writing" => writer[f].holder \in alive[f]
  BY DEF IInv, WriterInv
<1> QED BY <1>1, <1>2, <1>3, <1>4, <1>5, <1>6, RewriteIsGood

LEMMA WorkerIsGood ==
  ASSUME IInv, NEW p \in Loops, StartWorker(p) \/ StopWorker(p)
  PROVE  Good
<1>1. /\ alive \in [Files -> SUBSET Nat] /\ call \in Calls /\ faults \in Nat
      /\ row \in [Files -> Rows] /\ writer \in [Files -> Writers]
      /\ att \in [Procs -> Atts] /\ todo \in [Procs -> [Files -> Rows]]
      /\ loop \in [Loops -> {"off", "on", "stopping"}] /\ turn \in Procs \cup {Free}
      /\ tomb \in BOOLEAN
  BY TypesAre DEF IInv
<1>2. /\ UNCHANGED <<row, tomb, minted, alive, put, writer, call, todo, turn>>
      /\ faults' \in Nat /\ loop' \in [Loops -> {"off", "on", "stopping"}]
  BY <1>1 DEF StartWorker, StopWorker, Fault
<1>3. PICK b \in BOOLEAN : att' = att \/ att' = [att EXCEPT ![p].aborted = b]
  BY DEF StartWorker, StopWorker
<1>4. ASSUME NEW q \in Procs PROVE att'[q] \in Atts /\ Waiting(att'[q], att[q])
  <2>1. PICK a \in Atts : a = att[q]
    BY <1>1
  <2>2. /\ [a EXCEPT !.aborted = b] \in Atts
        /\ Waiting([a EXCEPT !.aborted = b], a)
    BY DEF Atts, Waiting
  <2>3. att'[q] \in {a, [a EXCEPT !.aborted = b]}
    BY <1>1, <1>3, <2>1
  <2> QED BY <2>1, <2>2, <2>3 DEF Waiting
<1>5. att' \in [Procs -> Atts]
  BY <1>1, <1>3, <1>4
<1>6. \A q \in Procs : Works(q)
  BY <1>2, <1>4 DEF Works
<1>7. \A f \in Files : Rewrites(row'[f], f)
  BY <1>2 DEF Rewrites
<1>8. \A f \in Files : writer[f].pc = "writing" => writer[f].holder \in alive[f]
  BY DEF IInv, WriterInv
<1> QED BY <1>1, <1>2, <1>5, <1>6, <1>7, <1>8, RewriteIsGood

LEMMA CrashIsGood ==
  ASSUME IInv, Crash
  PROVE  Good
<1>1. /\ faults \in Nat /\ row \in [Files -> Rows] /\ writer \in [Files -> Writers]
      /\ tomb \in BOOLEAN /\ Idle \in Atts /\ NoTodo \in [Files -> Rows] /\ NoHandle \in Handles
      /\ Idle.pc = "idle" /\ NoHandle.holder = Nobody /\ \A f \in Files : NoTodo[f] = NoRow
  BY TypesAre, LiteralsAreTyped DEF IInv
<1>2. PICK k : k = [f \in Files |-> NoHandle]
  OBVIOUS
<1>3. k \in [Files -> Handles] /\ \A f \in Files : k[f].holder = Nobody
  BY <1>1, <1>2
<1>4. PICK c : c = [pc |-> "end", refs |-> {}, held |-> k, aborted |-> FALSE]
  OBVIOUS
<1>5. c \in Calls /\ c.held = k
  BY <1>3, <1>4 DEF Calls
<1>6. /\ call' = c /\ faults' = faults + 1
      /\ alive' = [f \in Files |-> {}]
      /\ writer' = [f \in Files |-> IF writer[f].pc = "writing"
                                THEN [pc |-> "gone", holder |-> Nobody] ELSE writer[f]]
      /\ loop' = [p \in Loops |-> "off"]
      /\ todo' = [p \in Procs |-> NoTodo]
      /\ att' = [p \in Procs |-> Idle]
      /\ turn' = Free
      /\ UNCHANGED <<row, tomb, minted, put>>
  BY <1>2, <1>4 DEF Crash, Fault
<1>7. /\ alive' \in [Files -> SUBSET Nat] /\ loop' \in [Loops -> {"off", "on", "stopping"}]
      /\ todo' \in [Procs -> [Files -> Rows]] /\ att' \in [Procs -> Atts] /\ faults' \in Nat
  BY <1>1, <1>6
<1>8. /\ writer' \in [Files -> Writers]
      /\ \A f \in Files : writer'[f].pc # "writing"
  BY <1>1, <1>6 DEF Writers, Nobody
<1>9. \A p \in Procs : Works(p)
  BY <1>1, <1>6 DEF Works
<1>10. \A f \in Files : Rewrites(row'[f], f)
  BY <1>6 DEF Rewrites
<1> QED BY <1>1, <1>3, <1>5, <1>6, <1>7, <1>8, <1>9, <1>10, RewriteIsGood

\* What the end of the call, or its return, makes of a row it holds.
LEMMA HeldRewrites ==
  ASSUME IInv, NEW f \in Files, Owned(row[f], call.held[f]), tomb' = tomb,
         NEW r, r = Ended(row[f], "abandoned") \/ r = Released(row[f])
  PROVE  r \in Rows /\ Rewrites(r, f)
<1>1. row[f] \in Rows /\ row[f].phase # "none"
  BY TypesAre DEF IInv, Owned, Live
<1>2. writer[f].pc = "writing" => tomb'
  BY NotReserved
<1>3. CASE r = Ended(row[f], "abandoned")
  <2>1. After(r, row[f], row[f].phase, "abandoned")
    BY <1>1, <1>3, EndedIs DEF Outcomes
  <2> QED BY <1>1, <1>2, <2>1 DEF Rewrites, After
<1>4. CASE r = Released(row[f])
  <2>1. After(r, row[f], row[f].phase, row[f].outcome)
    BY <1>1, <1>4, ReleasedIs
  <2> QED BY <1>1, <1>2, <2>1 DEF Rewrites, After
<1> QED BY <1>3, <1>4

\* The holders of a set of held files retire.
LEMMA HeldRetires ==
  ASSUME IInv, NEW S, RetiresHeld(S)
  PROVE  /\ alive' \in [Files -> SUBSET Nat]
         /\ \A f \in Files : writer[f].pc = "writing" => writer[f].holder \in alive'[f]
<1>1. alive \in [Files -> SUBSET Nat]
  BY TypesAre DEF IInv
<1>2. \A f \in Files : alive'[f] \in {alive[f], alive[f] \ {call.held[f].holder}}
  BY DEF RetiresHeld
<1>3. alive' \in [Files -> SUBSET Nat]
  BY <1>1 DEF RetiresHeld
<1>4. \A f \in Files : writer[f].pc = "writing" =>
        writer[f].holder \in alive[f] /\ call.held[f].holder # writer[f].holder
  BY DEF IInv, WriterInv, HeldInv
<1> QED BY <1>2, <1>3, <1>4

LEMMA CallThrowsIsGood ==
  ASSUME IInv, CallThrows
  PROVE  Good
<1>1. /\ call \in Calls /\ faults \in Nat /\ NoHandle \in Handles /\ NoHandle.holder = Nobody
      /\ row \in [Files -> Rows] /\ writer \in [Files -> Writers]
      /\ att \in [Procs -> Atts] /\ todo \in [Procs -> [Files -> Rows]]
      /\ loop \in [Loops -> {"off", "on", "stopping"}] /\ turn \in Procs \cup {Free}
      /\ tomb \in BOOLEAN
  BY TypesAre, LiteralsAreTyped DEF IInv
<1>2. PICK k : k = [f \in Files |-> NoHandle]
  OBVIOUS
<1>3. /\ call' = [call EXCEPT !.pc = "end", !.held = k]
      /\ row' = [f \in Files |-> IF f \in HeldBy(call) /\ Owned(row[f], call.held[f])
                                 THEN Ended(row[f], "abandoned") ELSE row[f]]
      /\ RetiresHeld(HeldBy(call))
      /\ UNCHANGED <<tomb, minted, put, writer, loop, todo, att, turn, faults>>
  BY <1>2 DEF CallThrows
<1>4. call' \in Calls /\ call'.held = k
  BY <1>1, <1>2, <1>3 DEF Calls
<1>5. \A f \in Files : call'.held[f].holder = Nobody
  BY <1>1, <1>2, <1>4
<1>6. \A f \in Files : row'[f] \in Rows /\ Rewrites(row'[f], f)
  <2> TAKE f \in Files
  <2>1. CASE f \in HeldBy(call) /\ Owned(row[f], call.held[f])
    BY <1>3, <2>1, HeldRewrites
  <2>2. CASE ~(f \in HeldBy(call) /\ Owned(row[f], call.held[f]))
    BY <1>1, <1>3, <2>2, Untouched
  <2> QED BY <2>1, <2>2
<1>7. row' \in [Files -> Rows]
  BY <1>3, <1>6
<1>8. \A p \in Procs : Works(p)
  BY <1>3, NoWork
<1> QED BY <1>1, <1>3, <1>4, <1>5, <1>6, <1>7, <1>8, HeldRetires, RewriteIsGood

LEMMA CallReturnsIsGood ==
  ASSUME IInv, CallReturns
  PROVE  Good
<1>1. /\ call \in Calls /\ faults \in Nat /\ NoHandle \in Handles /\ NoHandle.holder = Nobody
      /\ row \in [Files -> Rows] /\ writer \in [Files -> Writers]
      /\ att \in [Procs -> Atts] /\ todo \in [Procs -> [Files -> Rows]]
      /\ loop \in [Loops -> {"off", "on", "stopping"}] /\ Call \in Procs
      /\ tomb \in BOOLEAN /\ NoRow \in Rows
  BY TypesAre, LiteralsAreTyped DEF IInv, Procs
<1>2. PICK named \in SUBSET call.refs :
       LET unnamed == HeldBy(call) \ named IN
       /\ row' = [f \in Files |-> IF f \in unnamed /\ Owned(row[f], call.held[f])
                                  THEN Ended(row[f], "abandoned") ELSE row[f]]
       /\ RetiresHeld(unnamed)
       /\ call' = [call EXCEPT !.pc = "push",
                     !.held = [f \in Files |-> IF f \in unnamed THEN NoHandle ELSE @[f]]]
       /\ todo' = [todo EXCEPT ![Call] = [f \in Files |-> IF f \in named THEN row'[f] ELSE NoRow]]
  BY DEF CallReturns
<1>3. PICK u : u = HeldBy(call) \ named
  OBVIOUS
<1>4. PICK k : k = [f \in Files |-> IF f \in u THEN NoHandle ELSE call.held[f]]
  OBVIOUS
<1>5. PICK d : d = [f \in Files |-> IF f \in named THEN row'[f] ELSE NoRow]
  OBVIOUS
<1>6. /\ call' = [call EXCEPT !.pc = "push", !.held = k]
      /\ row' = [f \in Files |-> IF f \in u /\ Owned(row[f], call.held[f])
                                 THEN Ended(row[f], "abandoned") ELSE row[f]]
      /\ RetiresHeld(u)
      /\ todo' = [todo EXCEPT ![Call] = d]
      /\ turn' = Call
      /\ UNCHANGED <<tomb, minted, put, writer, loop, att, faults>>
  BY <1>2, <1>3, <1>4, <1>5 DEF CallReturns
<1>7. k \in [Files -> Handles]
  BY <1>1, <1>4 DEF Calls
<1>8. call' \in Calls /\ call'.held = k
  BY <1>1, <1>6, <1>7 DEF Calls
<1>9. \A f \in Files : call'.held[f].holder \in {call.held[f].holder, Nobody}
  BY <1>1, <1>4, <1>8
<1>10. \A f \in Files : row'[f] \in Rows /\ Rewrites(row'[f], f)
  <2> TAKE f \in Files
  <2>1. CASE f \in u /\ Owned(row[f], call.held[f])
    BY <1>6, <2>1, HeldRewrites
  <2>2. CASE ~(f \in u /\ Owned(row[f], call.held[f]))
    BY <1>1, <1>6, <2>2, Untouched
  <2> QED BY <2>1, <2>2
<1>11. row' \in [Files -> Rows]
  BY <1>6, <1>10
<1>12. d \in [Files -> Rows] /\ \A f \in Files : d[f] = NoRow \/ d[f] = row'[f]
  BY <1>1, <1>5, <1>10
<1>13. todo' \in [Procs -> [Files -> Rows]]
  BY <1>1, <1>6, <1>12
<1>14. ASSUME NEW p \in Procs PROVE Works(p)
  <2>1. todo'[p] \in {todo[p], d}
    BY <1>1, <1>6
  <2>2. att'[p] = att[p]
    BY <1>6
  <2> QED BY <1>12, <2>1, <2>2 DEF Works, Waiting
<1> QED BY <1>1, <1>6, <1>8, <1>9, <1>10, <1>11, <1>13, <1>14, HeldRetires, RewriteIsGood

LEMMA CallEndsIsGood ==
  ASSUME IInv, CallEnds
  PROVE  Good
<1>1. /\ call \in Calls /\ faults \in Nat /\ NoHandle \in Handles /\ NoHandle.holder = Nobody
      /\ row \in [Files -> Rows] /\ writer \in [Files -> Writers]
      /\ att \in [Procs -> Atts] /\ todo \in [Procs -> [Files -> Rows]]
      /\ loop \in [Loops -> {"off", "on", "stopping"}]
      /\ tomb \in BOOLEAN /\ NoTodo \in [Files -> Rows] /\ \A f \in Files : NoTodo[f] = NoRow
  BY TypesAre, LiteralsAreTyped DEF IInv
<1>2. PICK k : k = [f \in Files |-> NoHandle]
  OBVIOUS
<1>3. /\ call' = [call EXCEPT !.pc = "end", !.held = k]
      /\ row' = [f \in Files |-> IF f \in HeldBy(call) /\ Owned(row[f], call.held[f])
                                 THEN Released(row[f]) ELSE row[f]]
      /\ RetiresHeld(HeldBy(call))
      /\ todo' = [todo EXCEPT ![Call] = NoTodo]
      /\ turn' = Free
      /\ UNCHANGED <<tomb, minted, put, writer, loop, att, faults>>
  BY <1>2 DEF CallEnds
<1>4. call' \in Calls /\ call'.held = k
  BY <1>1, <1>2, <1>3 DEF Calls
<1>5. \A f \in Files : call'.held[f].holder = Nobody
  BY <1>1, <1>2, <1>4
<1>6. \A f \in Files : row'[f] \in Rows /\ Rewrites(row'[f], f)
  <2> TAKE f \in Files
  <2>1. CASE f \in HeldBy(call) /\ Owned(row[f], call.held[f])
    BY <1>3, <2>1, HeldRewrites
  <2>2. CASE ~(f \in HeldBy(call) /\ Owned(row[f], call.held[f]))
    BY <1>1, <1>3, <2>2, Untouched
  <2> QED BY <2>1, <2>2
<1>7. row' \in [Files -> Rows] /\ todo' \in [Procs -> [Files -> Rows]]
  BY <1>1, <1>3, <1>6
<1>8. ASSUME NEW p \in Procs PROVE Works(p)
  <2>1. todo'[p] \in {todo[p], NoTodo}
    BY <1>1, <1>3
  <2> QED BY <1>1, <1>3, <2>1 DEF Works, Waiting
<1> QED BY <1>1, <1>3, <1>4, <1>5, <1>6, <1>7, <1>8, HeldRetires, RewriteIsGood

----------------------------------------------------------------------------
(* Steps of an attempt.                                                     *)

\* A step that moves the row, the puts, the tokens and the live holders of a file.
Sets(f, r, s, m, l) ==
  /\ row' = [row EXCEPT ![f] = r] /\ put' = [put EXCEPT ![f] = s]
  /\ minted' = [minted EXCEPT ![f] = m] /\ alive' = [alive EXCEPT ![f] = l]

\* Where it may move them.
Allowed(f, r, s, m, l) ==
  /\ r = row[f] \/ (row[f].phase # "none" /\ r.epoch > row[f].epoch)
  /\ r.phase # "none"
  /\ (r # row[f] /\ r.outcome = "abandoned") => row[f].phase \notin Owing \ {"writing"}
  /\ Fits(r, s) /\ put[f].sent \subseteq s.sent /\ put[f].taken \subseteq s.taken
  /\ minted[f] <= m
  /\ writer[f].pc = "writing" => writer[f].holder \in l /\ (tomb \/ r = row[f])

\* The attempt b fits what the step makes of the file.
Trying(b, f, r, s, m) ==
  /\ b.file = f
  /\ b.holder \in 1..m
  /\ writer[f].pc = "writing" => b.holder # writer[f].holder
  /\ b.epoch <= r.epoch
  /\ b.committing => b.holder \in s.sent
  /\ b.pc = "notify" => s.taken # {} /\ (Owned(r, Handle(b)) => r.phase = "notifying")

\* What is left alone, and what is read.
Others(f) ==
  /\ UNCHANGED <<tomb, writer>>
  /\ call' \in Calls /\ call'.held[f].holder \in {call.held[f].holder, Nobody}
  /\ \A g \in Files \ {f} : call'.held[g] = call.held[g]
  /\ loop' \in [Loops -> {"off", "on", "stopping"}] /\ turn' \in Procs \cup {Free}
  /\ faults' \in Nat /\ todo' \in [Procs -> [Files -> Rows]]
  /\ \A q \in Procs : \A g \in Files : todo'[q][g] = todo[q][g] \/ todo'[q][g] = NoRow

LEMMA MoveIsGood ==
  ASSUME IInv, NEW f \in Files, NEW r \in Rows, NEW s \in Puts, NEW m \in Nat,
         NEW l \in SUBSET Nat, Sets(f, r, s, m, l), Allowed(f, r, s, m, l), Others(f),
         NEW p \in Procs, NEW b \in Atts,
         \/ att' = att
         \/ att' = [att EXCEPT ![p] = b] /\ (b.pc = "idle" \/ Trying(b, f, r, s, m))
  PROVE  Good
<1>1. /\ row \in [Files -> Rows] /\ minted \in [Files -> Nat] /\ put \in [Files -> Puts]
      /\ alive \in [Files -> SUBSET Nat] /\ writer \in [Files -> Writers]
      /\ att \in [Procs -> Atts] /\ tomb \in BOOLEAN
  BY TypesAre DEF IInv
<1>2. /\ row'[f] = r /\ put'[f] = s /\ minted'[f] = m /\ alive'[f] = l
      /\ row' \in [Files -> Rows] /\ minted' \in [Files -> Nat] /\ put' \in [Files -> Puts]
      /\ alive' \in [Files -> SUBSET Nat] /\ att' \in [Procs -> Atts]
      /\ \A q \in Procs \ {p} : att'[q] = att[q]
  BY <1>1 DEF Sets
<1>3. TypeOK'
  BY <1>1, <1>2 DEF TypeOK, Others, Puts, Writers, Calls, Atts, Waits
<1>4. \A g \in Files \ {f} : Same(g)
  BY <1>1, <1>3 DEF Same, Sets, Others
<1>5. RowInv(f)'
  BY <1>2 DEF Allowed, RowInv
<1>6. WriterInv(f)'
  BY <1>2, <1>3, WriterSafe DEF Allowed, Others
<1>7. HeldInv(f)'
  BY <1>2, <1>3, HeldSafe DEF Allowed, Others
<1>8. Keeps(f)
  BY <1>2 DEF Allowed, Keeps, Live
<1>9. Goes(f)
  BY <1>2, <1>5, <1>6, <1>7, <1>8 DEF Goes, Allowed, Others
<1>10. ASSUME NEW q \in Procs PROVE Works(q)
  <2>1. CASE q # p \/ att' = att
    BY <1>2, <2>1 DEF Works, Waiting, Others
  <2>2. CASE q = p /\ att'[p] = b /\ b.pc = "idle"
    BY <1>2, <2>2 DEF Works, Others
  <2>3. CASE q = p /\ att'[p] = b /\ Trying(b, f, r, s, m)
    <3>1. b.file = f /\ Tries(b, f)'
      BY <1>2, <2>3 DEF Trying, Tries, Others, Allowed
    <3>2. AttInv(q)'
      BY <1>2, <2>3, <3>1, TryIs
    <3> QED BY <3>2 DEF Works, Others
  <2> QED BY <1>1, <2>1, <2>2, <2>3
<1> QED BY <1>3, <1>4, <1>9, <1>10, OneFile DEF Others

\* An attempt under way.
LEMMA AttemptIs ==
  ASSUME IInv, NEW p \in Procs, att[p].pc # "idle", NEW a, a = att[p], NEW f, f = a.file
  PROVE  /\ a \in Atts /\ f \in Files /\ Tries(a, f)
         /\ row[f] \in Rows /\ row[f].phase # "none" /\ row[f].epoch \in Nat
         /\ put[f] \in Puts /\ minted[f] \in Nat /\ alive[f] \in SUBSET Nat
         /\ alive[f] \ {a.holder} \in SUBSET Nat /\ a.holder \in Nat /\ a.epoch \in Nat
         /\ Fits(row[f], put[f])
         /\ writer[f].pc = "writing" =>
              /\ writer[f].holder \in alive[f] /\ writer[f].holder \in alive[f] \ {a.holder}
              /\ tomb \/ ~Owned(row[f], Handle(a))
<1>1. AttInv(p) /\ a \in Atts /\ f \in Files
  BY TypesAre DEF IInv, AttInv
<1>2. Tries(a, f) /\ RowInv(f) /\ WriterInv(f)
  BY <1>1 DEF IInv, AttInv
<1>3. writer[f].pc = "writing" => tomb \/ ~Owned(row[f], Handle(a))
  BY <1>1, <1>2, NotReserved
<1> QED BY <1>1, <1>2, <1>3, TypesAre DEF IInv, RowInv, WriterInv, Tries, Rows, Atts

LEMMA OverIs ==
  ASSUME IInv, NEW p \in Procs, AttemptOver(p), NEW a, a = att[p], a.file \in Files
  PROVE  /\ att' = [att EXCEPT ![p] = Idle]
         /\ alive' = [alive EXCEPT ![a.file] = alive[a.file] \ {a.holder}]
         /\ loop' \in [Loops -> {"off", "on", "stopping"}] /\ turn' \in Procs \cup {Free}
         /\ todo' \in [Procs -> [Files -> Rows]]
         /\ \A q \in Procs : \A g \in Files : todo'[q][g] = todo[q][g] \/ todo'[q][g] = NoRow
<1>1. /\ loop \in [Loops -> {"off", "on", "stopping"}] /\ turn \in Procs \cup {Free}
      /\ todo \in [Procs -> [Files -> Rows]] /\ NoTodo \in [Files -> Rows]
      /\ \A f \in Files : NoTodo[f] = NoRow
      /\ alive \in [Files -> SUBSET Nat]
  BY TypesAre, LiteralsAreTyped DEF IInv
<1>2. /\ att' = [att EXCEPT ![p] = Idle]
      /\ alive' = [alive EXCEPT ![a.file] = alive[a.file] \ {a.holder}]
  BY DEF AttemptOver, Retires
<1>3. /\ loop' \in [Loops -> {"off", "on", "stopping"}] /\ turn' \in Procs \cup {Free}
      /\ todo' = todo \/ todo' = [todo EXCEPT ![p] = NoTodo]
  BY <1>1 DEF AttemptOver, Procs
<1>4. todo' \in [Procs -> [Files -> Rows]]
  BY <1>1, <1>3
<1>5. ASSUME NEW q \in Procs, NEW g \in Files
      PROVE  todo'[q][g] = todo[q][g] \/ todo'[q][g] = NoRow
  <2>1. todo'[q] \in {todo[q], NoTodo}
    BY <1>1, <1>3
  <2> QED BY <1>1, <2>1
<1> QED BY <1>2, <1>3, <1>4, <1>5

LEMMA CallIsCancelledIsGood ==
  ASSUME IInv, CallIsCancelled
  PROVE  Good
<1>1. call \in Calls /\ faults \in Nat
  BY TypesAre DEF IInv
<1>2. /\ call' = [call EXCEPT !.aborted = TRUE] /\ faults' = faults + 1
      /\ UNCHANGED <<row, tomb, minted, alive, writer, put, loop, todo, att, turn>>
  BY DEF CallIsCancelled, Fault
<1>3. call' \in Calls /\ call'.held = call.held /\ faults' \in Nat
  <2>1. PICK c \in Calls : c = call
    BY <1>1
  <2>2. PICK d : d = [c EXCEPT !.aborted = TRUE]
    OBVIOUS
  <2>3. d \in Calls /\ d.held = c.held
    BY <2>2 DEF Calls
  <2>4. call' = d /\ faults' \in Nat
    BY <1>1, <1>2, <2>1, <2>2
  <2> QED BY <2>1, <2>3, <2>4
<1>4. TypeOK'
  BY <1>2, <1>3, TypeIs DEF IInv, TypeOK, Puts, Writers, Calls, Atts, Waits
<1>5. \A g \in Files : Same(g)
  BY <1>2, <1>3 DEF Same
<1>6. \A g \in Files : Goes(g)
  BY <1>2, <1>5, SameGoes
<1>7. \A p \in Procs : Works(p)
  BY <1>2, NoWork
<1> QED BY <1>4, <1>6, <1>7, GoodIs

LEMMA NodeTakesIsGood ==
  ASSUME IInv, NEW f \in Files, NodeTakes(f)
  PROVE  Good
<1>1. /\ put \in [Files -> Puts] /\ row[f] \in Rows /\ writer \in [Files -> Writers]
      /\ call \in Calls
  BY TypesAre DEF IInv
<1>2. PICK h \in put[f].flying :
        put' = [put EXCEPT ![f].flying = @ \ {h}, ![f].taken = @ \cup {h}]
  BY DEF NodeTakes
<1>3. PICK s \in Puts : s = put[f]
  BY <1>1
<1>4. PICK t : t = [s EXCEPT !.flying = @ \ {h}, !.taken = @ \cup {h}]
  OBVIOUS
<1>5. /\ t \in Puts /\ t.sent = s.sent /\ s.taken \subseteq t.taken /\ t.taken # {}
  BY <1>2, <1>3, <1>4 DEF Puts
<1>6. put' = [put EXCEPT ![f] = t]
  BY <1>1, <1>2, <1>3, <1>4 DEF Puts
<1>7. UNCHANGED <<row, tomb, minted, alive, writer, call, loop, todo, att, turn, faults>>
  BY DEF NodeTakes
<1>8. TypeOK' /\ put'[f] = t /\ \A g \in Files \ {f} : put'[g] = put[g]
  BY <1>1, <1>5, <1>6, <1>7, TypeIs DEF IInv, TypeOK, Puts, Writers, Calls, Atts, Waits
<1>9. \A g \in Files \ {f} : Same(g)
  BY <1>7, <1>8 DEF Same
<1>10. RowInv(f)'
  <2>1. Fits(row[f], s)
    BY <1>3 DEF IInv, RowInv
  <2>2. Fits(row[f], t)
    BY <1>5, <2>1 DEF Fits
  <2> QED BY <1>7, <1>8, <2>2 DEF RowInv
<1>11. WriterInv(f)' /\ HeldInv(f)'
  <2>1. WriterInv(f) /\ HeldInv(f)
    BY DEF IInv
  <2> QED BY <1>7, <2>1 DEF WriterInv, HeldInv, Sealable, Owned, Live, Reservation
<1>12. minted[f] \in Nat
  BY TypesAre DEF IInv
<1>13. Goes(f)
  BY <1>3, <1>5, <1>7, <1>8, <1>10, <1>11, <1>12 DEF Goes, Keeps, Live
<1>14. \A p \in Procs : Works(p)
  BY <1>7, NoWork
<1> QED BY <1>7, <1>8, <1>9, <1>13, <1>14, OneFile

\* A pass or a selection goes on without a write.
LEMMA TodoIsGood ==
  ASSUME IInv, UNCHANGED <<row, tomb, minted, alive, put, writer, call, loop, att, faults>>,
         turn' \in Procs \cup {Free}, todo' \in [Procs -> [Files -> Rows]],
         \A q \in Procs : \A g \in Files :
           todo'[q][g] = todo[q][g] \/ todo'[q][g] = NoRow \/ todo'[q][g] = row[g]
  PROVE  Good
<1>1. TypeOK'
  BY TypeIs DEF IInv, TypeOK, Puts, Writers, Calls, Atts, Waits
<1>2. \A g \in Files : Same(g)
  BY DEF Same
<1>3. \A g \in Files : Goes(g)
  BY <1>2, SameGoes
<1>4. \A p \in Procs : Works(p)
  BY DEF Works, Waiting
<1> QED BY <1>1, <1>3, <1>4, GoodIs

\* A row leaves what a pass or a selection has read.
LEMMA OneRead ==
  ASSUME TypeOK, NEW p \in Procs, NEW f \in Files, todo' = [todo EXCEPT ![p][f] = NoRow]
  PROVE  /\ todo' \in [Procs -> [Files -> Rows]]
         /\ \A q \in Procs : \A g \in Files : todo'[q][g] = todo[q][g] \/ todo'[q][g] = NoRow
<1>1. todo \in [Procs -> [Files -> Rows]] /\ NoRow \in Rows
  BY TypesAre, LiteralsAreTyped
<1>2. PICK d : d = [todo[p] EXCEPT ![f] = NoRow]
  OBVIOUS
<1>3. d \in [Files -> Rows] /\ \A g \in Files : d[g] = todo[p][g] \/ d[g] = NoRow
  BY <1>1, <1>2
<1>4. todo' = [todo EXCEPT ![p] = d]
  BY <1>1, <1>2
<1>5. todo' \in [Procs -> [Files -> Rows]]
  BY <1>1, <1>3, <1>4
<1>6. ASSUME NEW q \in Procs, NEW g \in Files
      PROVE  todo'[q][g] = todo[q][g] \/ todo'[q][g] = NoRow
  <2>1. todo'[q] \in {todo[q], d} /\ (q # p => todo'[q] = todo[q])
    BY <1>1, <1>4
  <2> QED BY <1>3, <2>1
<1> QED BY <1>5, <1>6

LEMMA SkipIsGood ==
  ASSUME IInv, NEW f \in Files, (\E p \in Loops : SkipRow(p, f)) \/ ReportFile(f)
  PROVE  Good
<1>1. PICK p \in Procs :
        /\ todo' = [todo EXCEPT ![p][f] = NoRow]
        /\ turn' \in {turn, Free, p}
        /\ UNCHANGED <<row, tomb, minted, alive, put, writer, call, loop, att, faults>>
  BY DEF SkipRow, Passed, ReportFile, Procs
<1>2. turn' \in Procs \cup {Free}
  BY <1>1, TypesAre DEF IInv
<1>3. TypeOK
  BY DEF IInv
<1> QED BY <1>1, <1>2, <1>3, OneRead, TodoIsGood

LEMMA ListDeliveriesIsGood ==
  ASSUME IInv, NEW p \in Loops, ListDeliveries(p)
  PROVE  Good
<1>1. /\ row \in [Files -> Rows] /\ NoRow \in Rows /\ todo \in [Procs -> [Files -> Rows]]
      /\ p \in Procs
  BY TypesAre, LiteralsAreTyped DEF IInv, Procs
<1>2. PICK d : d = [f \in Files |-> IF f \in Listed THEN row[f] ELSE NoRow]
  OBVIOUS
<1>3. /\ todo' = [todo EXCEPT ![p] = d] /\ turn' = p
      /\ UNCHANGED <<row, tomb, minted, alive, put, writer, call, loop, att, faults>>
  BY <1>2 DEF ListDeliveries
<1>4. d \in [Files -> Rows] /\ \A f \in Files : d[f] = row[f] \/ d[f] = NoRow
  BY <1>1, <1>2
<1>5. todo' \in [Procs -> [Files -> Rows]] /\ turn' \in Procs \cup {Free}
  BY <1>1, <1>3, <1>4
<1>6. ASSUME NEW q \in Procs, NEW g \in Files
      PROVE  todo'[q][g] = todo[q][g] \/ todo'[q][g] = NoRow \/ todo'[q][g] = row[g]
  <2>1. todo'[q] \in {todo[q], d}
    BY <1>1, <1>3
  <2> QED BY <1>4, <2>1
<1> QED BY <1>3, <1>5, <1>6, TodoIsGood

\* A claim is made on the row as it was read.
LEMMA ClaimIs ==
  ASSUME IInv, NEW p \in Procs, NEW f \in Files, NEW t, t = todo[p][f], t # NoRow,
         Claimable(f, t)
  PROVE  /\ t = row[f] /\ row[f] \in Rows /\ row[f].phase \in Phases /\ row[f].outcome = "live"
         /\ row[f].epoch \in Nat /\ Fits(row[f], put[f])
         /\ put[f] \in Puts /\ minted[f] \in Nat /\ alive[f] \in SUBSET Nat
         /\ writer[f].pc = "writing" => tomb /\ writer[f].holder \in alive[f]
<1>1. t \in Rows /\ TodoInv(p, f) /\ RowInv(f) /\ WriterInv(f)
  BY TypesAre DEF IInv
<1>2. row[f] \in Rows /\ Live(row[f]) /\ row[f].epoch = t.epoch
  BY TypesAre DEF IInv, Claimable
<1>3. writer[f].pc = "writing" => tomb
  BY <1>1, NotReserved
<1> QED BY <1>1, <1>2, <1>3, TypesAre
        DEF IInv, TodoInv, Read, RowInv, WriterInv, Live, Rows

\* What a claim makes of the row, and what a write of its new owner adds.
LEMMA MineIs ==
  ASSUME IInv, NEW p \in Procs, NEW f \in Files, NEW t, t = todo[p][f], t # NoRow,
         Claimable(f, t), NEW h, h = New(f), NEW r, r = Claimed(row[f], h)
  PROVE  /\ h \in Nat /\ h = minted[f] + 1 /\ h \in 1..h /\ minted[f] <= h
         /\ r \in Rows /\ r.epoch = row[f].epoch + 1 /\ r.phase = row[f].phase
         /\ r.phase \in Phases /\ r.epoch \in Nat
         /\ r.outcome = "live" /\ r.holder = h
         /\ writer[f].pc = "writing" => h # writer[f].holder
<1>1. /\ row[f] \in Rows /\ row[f].phase \in Phases /\ row[f].outcome = "live"
      /\ row[f].epoch \in Nat /\ minted[f] \in Nat
  BY ClaimIs
<1>2. h \in Nat /\ h = minted[f] + 1
  BY <1>1 DEF New
<1>3. row[f].phase # "none"
  BY <1>1 DEF Phases, Owing
<1>4. After(r, row[f], row[f].phase, row[f].outcome) /\ r.holder = h
  BY <1>1, <1>2, <1>3, ClaimedIs
<1>5. writer[f].pc = "writing" => h # writer[f].holder
  BY <1>1, <1>2 DEF IInv, WriterInv
<1> QED BY <1>1, <1>2, <1>4, <1>5 DEF After

LEMMA CloseDeadRowIsGood ==
  ASSUME IInv, NEW p \in Loops, NEW f \in Files, CloseDeadRow(p, f)
  PROVE  Good
<1>1. /\ row \in [Files -> Rows] /\ minted \in [Files -> Nat] /\ put \in [Files -> Puts]
      /\ alive \in [Files -> SUBSET Nat] /\ call \in Calls
      /\ att \in [Procs -> Atts] /\ att[p] \in Atts /\ faults \in Nat
      /\ loop \in [Loops -> {"off", "on", "stopping"}] /\ p \in Procs
  BY TypesAre DEF IInv, Procs
<1>2. PICK t : t = todo[p][f]
  OBVIOUS
<1>3. PICK h : h = New(f)
  OBVIOUS
<1>4. PICK r : r = Claimed(row[f], h)
  OBVIOUS
<1>5. t # NoRow /\ Claimable(f, t)
  BY <1>2 DEF CloseDeadRow, Reaches
<1>6. /\ t = row[f] /\ row[f] \in Rows /\ row[f].phase \in Phases /\ row[f].outcome = "live"
      /\ row[f].epoch \in Nat /\ Fits(row[f], put[f])
      /\ put[f] \in Puts /\ minted[f] \in Nat /\ alive[f] \in SUBSET Nat
      /\ writer[f].pc = "writing" => tomb /\ writer[f].holder \in alive[f]
  BY <1>1, <1>2, <1>5, ClaimIs
<1>7. /\ h \in Nat /\ minted[f] <= h /\ h = minted[f] + 1
      /\ r \in Rows /\ r.epoch = row[f].epoch + 1 /\ r.phase = row[f].phase
      /\ r.phase \in Phases /\ r.epoch \in Nat /\ r.outcome = "live"
  BY <1>1, <1>2, <1>3, <1>4, <1>5, MineIs
<1>8. PICK w : /\ row' = [row EXCEPT ![f] = w]
               /\ \/ r.phase = "writing" /\ w = Ended(r, "abandoned")
                  \/ r.phase = "committing" /\ w = Failed(r, TRUE)
  BY <1>2, <1>3, <1>4, <1>6, <1>7 DEF CloseDeadRow
<1>9. /\ w \in Rows /\ w.epoch > row[f].epoch /\ w.phase = row[f].phase
      /\ ~OnNode(w) /\ w.phase # "none"
      /\ w.outcome = "abandoned" => row[f].phase = "writing"
  <2>1. r.phase # "none" /\ TRUE \in BOOLEAN /\ "abandoned" \in Outcomes
    BY <1>7 DEF Phases, Owing, Outcomes
  <2>2. CASE r.phase = "writing" /\ w = Ended(r, "abandoned")
    <3>1. After(w, r, r.phase, "abandoned")
      BY <1>7, <2>1, <2>2, EndedIs
    <3> QED BY <1>6, <1>7, <2>1, <2>2, <3>1 DEF After, OnNode
  <2>3. CASE r.phase = "committing" /\ w = Failed(r, TRUE)
    <3>0. r.phase = "committing"
      BY <2>3
    <3>1. After(w, r, r.phase, r.outcome)
      BY <1>7, <2>1, <2>3, FailedIs
    <3>2. /\ w \in Rows /\ w.epoch = r.epoch + 1 /\ w.phase = "committing"
          /\ w.outcome = "live"
      BY <1>7, <3>0, <3>1 DEF After
    <3>3. ~OnNode(w)
      BY <3>2 DEF OnNode
    <3>4. row[f].phase = "committing" /\ w.epoch > row[f].epoch
      BY <1>6, <1>7, <3>0, <3>2
    <3> QED BY <3>2, <3>3, <3>4
  <2> QED BY <1>8, <2>2, <2>3
<1>10. /\ minted' = [minted EXCEPT ![f] = h] /\ Passed(p, f)
       /\ UNCHANGED <<tomb, alive, put, writer, call, loop, att, faults>>
  BY <1>3, <1>7 DEF CloseDeadRow, Mints, New
<1>11. /\ put' = [put EXCEPT ![f] = put[f]] /\ alive' = [alive EXCEPT ![f] = alive[f]]
  BY <1>1, <1>10
<1>12. /\ turn' \in Procs \cup {Free} /\ todo' = [todo EXCEPT ![p][f] = NoRow] /\ TypeOK
  BY <1>1, <1>10 DEF Passed, IInv
<1>13. Sets(f, w, put[f], h, alive[f])
  BY <1>8, <1>10, <1>11 DEF Sets
<1>14. Allowed(f, w, put[f], h, alive[f])
  <2>1. w.epoch # 0
    BY <1>6, <1>9 DEF Rows
  <2>2. Fits(w, put[f])
    BY <1>6, <1>9, <2>1 DEF Fits
  <2> QED BY <1>6, <1>7, <1>9, <2>2 DEF Allowed, Phases, Owing
<1>15. Others(f)
  BY <1>1, <1>10, <1>12, OneRead DEF Others
<1> QED BY <1>1, <1>6, <1>7, <1>9, <1>10, <1>13, <1>14, <1>15, MoveIsGood

\* w, s and b are what a step of the attempt a makes of the row r, of the
\* puts and of the attempt.
Went(p, f, a, r, m, w, s, b) ==
  /\ row' = [row EXCEPT ![f] = w] /\ put' = [put EXCEPT ![f] = s]
  /\ att' = [att EXCEPT ![p] = b] /\ (b.pc = "idle" \/ Trying(b, f, w, s, m))
  /\ w = r \/ (Owned(r, Handle(a)) /\ w.outcome = "live" /\ w.epoch > r.epoch)
  /\ w.phase # "none"
  /\ Fits(w, s) /\ put[f].sent \subseteq s.sent /\ put[f].taken \subseteq s.taken

\* What the first or the next put of an attempt makes of its file.
LEMMA PutIs ==
  ASSUME IInv, NEW f \in Files, NEW a \in Atts, a.file = f, NEW r \in Rows,
         r.phase # "none", r.epoch \in Nat, a.epoch <= r.epoch, NEW m \in Nat, a.holder \in 1..m,
         writer[f].pc = "writing" => a.holder # writer[f].holder,
         a.committing => a.holder \in put[f].sent,
         Fits(r, put[f]), put[f] \in Puts, row \in [Files -> Rows], put \in [Files -> Puts],
         NEW p \in Procs, SendPart(p, a, r) \/ SendFinal(p, a, r)
  PROVE  \E w \in Rows, s \in Puts, b \in Atts : Went(p, f, a, r, m, w, s, b)
<1>1. a.holder \in Nat /\ a.epoch \in Nat
  BY DEF Atts
<1>2. CASE SendPart(p, a, r)
  <2>1. PICK b : b = [a EXCEPT !.pc = "part"]
    OBVIOUS
  <2>2. /\ b \in Atts /\ b.pc = "part" /\ b.file = f /\ b.holder = a.holder /\ b.epoch = a.epoch
        /\ b.committing = a.committing
    BY <2>1 DEF Atts, Waits
  <2>3. row' = [row EXCEPT ![f] = r] /\ put' = [put EXCEPT ![f] = put[f]]
        /\ att' = [att EXCEPT ![p] = b]
    BY <1>2, <2>1 DEF SendPart
  <2>4. Trying(b, f, r, put[f], m)
    BY <2>2 DEF Trying
  <2>5. Went(p, f, a, r, m, r, put[f], b)
    BY <2>3, <2>4 DEF Went
  <2> QED BY <2>2, <2>5
<1>3. CASE SendFinal(p, a, r)
  <2>1. PICK s \in Puts : s = put[f]
    OBVIOUS
  <2>2. PICK t : t = [s EXCEPT !.sent = @ \cup {a.holder}, !.flying = @ \cup {a.holder}]
    OBVIOUS
  <2>3. t \in Puts /\ t.sent = s.sent \cup {a.holder} /\ t.taken = s.taken
    BY <1>1, <2>1, <2>2 DEF Puts
  <2>4. put' = [put EXCEPT ![f] = t]
    BY <1>3, <2>1, <2>2 DEF SendFinal, Puts
  <2>5. PICK w : w = IF a.committing THEN r ELSE Advanced(r, "committing")
    OBVIOUS
  <2>11. PICK e : e = IF a.committing THEN a.epoch ELSE a.epoch + 1
    OBVIOUS
  <2>12. e \in Nat
    BY <1>1, <2>11
  <2>6. PICK b : b = [a EXCEPT !.pc = "final", !.committing = TRUE, !.epoch = e]
    OBVIOUS
  <2>7. row' = [row EXCEPT ![f] = w] /\ att' = [att EXCEPT ![p] = b]
    BY <1>3, <2>5, <2>6, <2>11 DEF SendFinal
  <2>8. /\ b \in Atts /\ b.pc = "final" /\ b.file = f /\ b.holder = a.holder
        /\ b.epoch = e
    BY <2>6, <2>12 DEF Atts, Waits
  <2>9. CASE a.committing
    <3>1. w = r /\ t.sent = s.sent /\ b.epoch = a.epoch
      BY <2>1, <2>3, <2>5, <2>8, <2>9, <2>11
    <3>2. Fits(w, t)
      BY <2>1, <2>3, <3>1 DEF Fits
    <3>3. Trying(b, f, w, t, m)
      BY <2>3, <2>8, <3>1 DEF Trying
    <3>4. Went(p, f, a, r, m, w, t, b)
      BY <2>1, <2>3, <2>4, <2>7, <3>1, <3>2, <3>3 DEF Went
    <3> QED BY <2>3, <2>8, <3>1, <3>4
  <2>10. CASE ~a.committing
    <3>1. Owned(r, Handle(a)) /\ r.phase = "uploading" /\ r.outcome = "live"
      BY <1>3, <2>10 DEF SendFinal, Owned, Live
    <3>2. After(w, r, "committing", "live")
      BY <2>5, <2>10, <3>1, AdvancedIs DEF Phases, Owing
    <3>3. /\ w \in Rows /\ w.epoch = r.epoch + 1 /\ w.phase = "committing" /\ w.outcome = "live"
      BY <3>2 DEF After
    <3>4. s.sent = {} /\ t.sent = {a.holder}
      BY <2>1, <2>3, <3>1 DEF Fits, Early
    <3>5. Fits(w, t)
      BY <3>3, <3>4 DEF Fits, Early, OnNode
    <3>6. Trying(b, f, w, t, m)
      <4>1. b.epoch <= w.epoch
        BY <1>1, <2>8, <2>10, <2>11, <3>3
      <4> QED BY <2>8, <3>4, <4>1 DEF Trying
    <3>7. Went(p, f, a, r, m, w, t, b)
      BY <2>1, <2>3, <2>4, <2>7, <3>1, <3>3, <3>5, <3>6 DEF Went
    <3> QED BY <2>3, <2>8, <3>3, <3>7
  <2> QED BY <2>9, <2>10
<1> QED BY <1>2, <1>3

\* What the end of the attempt a may make of the row it worked on.
Closes(r, f, a) ==
  \/ r = row[f]
  \/ /\ Owned(row[f], Handle(a)) /\ r.epoch > row[f].epoch /\ r.phase # "none"
     /\ r.phase \in Early => row[f].phase \in Early
     /\ OnNode(r) => put[f].taken # {}
     /\ r.outcome = "abandoned" => row[f].phase \notin Owing \ {"writing"}

LEMMA OverIsGood ==
  ASSUME IInv, NEW p \in Procs, att[p].pc # "idle", NEW a, a = att[p], NEW f, f = a.file,
         AttemptOver(p), NEW r \in Rows, row' = [row EXCEPT ![f] = r], Closes(r, f, a),
         NEW s \in Puts, put' = [put EXCEPT ![f] = s],
         s.sent = put[f].sent, s.taken = put[f].taken,
         call' \in Calls, call'.held = call.held, faults' \in Nat,
         UNCHANGED <<tomb, minted, writer>>
  PROVE  Good
<1>1. /\ a \in Atts /\ f \in Files /\ Tries(a, f)
      /\ row[f] \in Rows /\ row[f].phase # "none" /\ row[f].epoch \in Nat
      /\ put[f] \in Puts /\ minted[f] \in Nat /\ alive[f] \in SUBSET Nat
      /\ alive[f] \ {a.holder} \in SUBSET Nat /\ a.holder \in Nat /\ a.epoch \in Nat
      /\ Fits(row[f], put[f])
      /\ writer[f].pc = "writing" =>
           /\ writer[f].holder \in alive[f] /\ writer[f].holder \in alive[f] \ {a.holder}
           /\ tomb \/ ~Owned(row[f], Handle(a))
  BY AttemptIs
<1>2. /\ att' = [att EXCEPT ![p] = Idle]
      /\ alive' = [alive EXCEPT ![f] = alive[f] \ {a.holder}]
      /\ loop' \in [Loops -> {"off", "on", "stopping"}] /\ turn' \in Procs \cup {Free}
      /\ todo' \in [Procs -> [Files -> Rows]]
      /\ \A q \in Procs : \A g \in Files : todo'[q][g] = todo[q][g] \/ todo'[q][g] = NoRow
  BY <1>1, OverIs
<1>3. minted' = [minted EXCEPT ![f] = minted[f]]
  BY TypesAre DEF IInv
<1>4. Sets(f, r, s, minted[f], alive[f] \ {a.holder})
  BY <1>2, <1>3 DEF Sets
<1>5. Fits(r, s)
  <2>1. CASE r = row[f]
    <3>1. PICK v : v = put[f]
      OBVIOUS
    <3>2. Fits(r, v) /\ s.sent = v.sent /\ s.taken = v.taken
      BY <1>1, <2>1, <3>1
    <3> QED BY <3>2 DEF Fits
  <2>2. CASE r # row[f]
    <3>1. PICK u \in Rows : u = row[f]
      BY <1>1
    <3>2. PICK v : v = put[f]
      OBVIOUS
    <3>3. /\ Fits(u, v) /\ s.sent = v.sent /\ u.phase # "none" /\ r.epoch > u.epoch
          /\ r.phase # "none" /\ (OnNode(r) => s.taken # {})
      BY <1>1, <2>2, <3>1, <3>2 DEF Closes
    <3>4. r.phase \in Early => u.phase \in Early
      BY <2>2, <3>1 DEF Closes
    <3> QED BY <3>3, <3>4, AfterFits
  <2> QED BY <2>1, <2>2
<1>6. Allowed(f, r, s, minted[f], alive[f] \ {a.holder})
  BY <1>1, <1>5 DEF Allowed, Closes
<1>7. Others(f)
  BY <1>2 DEF Others
<1>8. Idle \in Atts /\ Idle.pc = "idle"
  BY LiteralsAreTyped
<1>9. PICK l \in SUBSET Nat : l = alive[f] \ {a.holder}
  BY <1>1
<1>10. Sets(f, r, s, minted[f], l) /\ Allowed(f, r, s, minted[f], l)
  BY <1>4, <1>6, <1>9
<1>11. f \in Files /\ minted[f] \in Nat /\ att' = [att EXCEPT ![p] = Idle]
  BY <1>1, <1>2
<1> QED BY <1>7, <1>8, <1>10, <1>11, MoveIsGood

LEMMA PartAnsweredIsGood ==
  ASSUME IInv, NEW p \in Procs, PartAnswered(p)
  PROVE  Good
<1>1. /\ row \in [Files -> Rows] /\ minted \in [Files -> Nat] /\ put \in [Files -> Puts]
      /\ alive \in [Files -> SUBSET Nat] /\ call \in Calls /\ tomb \in BOOLEAN
      /\ att \in [Procs -> Atts] /\ todo \in [Procs -> [Files -> Rows]] /\ faults \in Nat
      /\ loop \in [Loops -> {"off", "on", "stopping"}] /\ turn \in Procs \cup {Free}
  BY TypesAre DEF IInv
<1>2. PICK a : a = att[p]
  OBVIOUS
<1>3. PICK f : f = a.file
  OBVIOUS
<1>4. a.pc = "part" /\ att[p].pc # "idle"
  BY <1>2 DEF PartAnswered
<1>5. /\ a \in Atts /\ f \in Files /\ Tries(a, f)
      /\ row[f] \in Rows /\ row[f].phase # "none" /\ row[f].epoch \in Nat
      /\ put[f] \in Puts /\ minted[f] \in Nat /\ alive[f] \in SUBSET Nat
      /\ alive[f] \ {a.holder} \in SUBSET Nat /\ a.holder \in Nat /\ a.epoch \in Nat
      /\ Fits(row[f], put[f])
      /\ writer[f].pc = "writing" =>
           /\ writer[f].holder \in alive[f] /\ writer[f].holder \in alive[f] \ {a.holder}
           /\ tomb \/ ~Owned(row[f], Handle(a))
  BY <1>2, <1>3, <1>4, AttemptIs
<1>6. UNCHANGED <<tomb, minted, writer, call, faults>>
  BY DEF PartAnswered
<1>7. minted' = [minted EXCEPT ![f] = minted[f]]
  BY <1>1, <1>6
<1>8. CASE SendFinal(p, a, row[f]) /\ UNCHANGED <<alive, loop, todo, turn>>
  <2>1. PICK w \in Rows, s \in Puts, b \in Atts : Went(p, f, a, row[f], minted[f], w, s, b)
    <3>1. /\ a.file = f /\ a.epoch <= row[f].epoch /\ a.holder \in 1..minted[f]
          /\ writer[f].pc = "writing" => a.holder # writer[f].holder
          /\ a.committing => a.holder \in put[f].sent
      BY <1>3, <1>5 DEF Tries
    <3> QED BY <1>1, <1>5, <1>8, <3>1, PutIs
  <2>2. alive' = [alive EXCEPT ![f] = alive[f]]
    BY <1>1, <1>8
  <2>3. Sets(f, w, s, minted[f], alive[f])
    BY <1>7, <2>1, <2>2 DEF Sets, Went
  <2>4. Allowed(f, w, s, minted[f], alive[f])
    BY <1>5, <2>1 DEF Allowed, Went
  <2>5. Others(f)
    BY <1>1, <1>6, <1>8 DEF Others
  <2> QED BY <1>5, <2>1, <2>3, <2>4, <2>5, MoveIsGood DEF Went
<1>9. CASE AttemptLost(p)
  <2>1. AttemptOver(p) /\ row' = [row EXCEPT ![f] = row[f]] /\ put' = [put EXCEPT ![f] = put[f]]
    BY <1>1, <1>9 DEF AttemptLost
  <2>2. Closes(row[f], f, a)
    BY DEF Closes
  <2> QED BY <1>1, <1>2, <1>3, <1>4, <1>5, <1>6, <2>1, <2>2, OverIsGood
<1> QED BY <1>2, <1>3, <1>8, <1>9 DEF PartAnswered

LEMMA PutResyncedIsGood ==
  ASSUME IInv, NEW p \in Procs, PutResynced(p)
  PROVE  Good
<1>1. /\ row \in [Files -> Rows] /\ minted \in [Files -> Nat] /\ put \in [Files -> Puts]
      /\ alive \in [Files -> SUBSET Nat] /\ call \in Calls /\ tomb \in BOOLEAN
      /\ att \in [Procs -> Atts] /\ todo \in [Procs -> [Files -> Rows]] /\ faults \in Nat
      /\ loop \in [Loops -> {"off", "on", "stopping"}] /\ turn \in Procs \cup {Free}
  BY TypesAre DEF IInv
<1>2. PICK a : a = att[p]
  OBVIOUS
<1>3. PICK f : f = a.file
  OBVIOUS
<1>4. a.pc = "final" /\ att[p].pc # "idle" /\ att[p].pc = "final"
  BY <1>2 DEF PutResynced
<1>5. /\ a \in Atts /\ f \in Files /\ Tries(a, f)
      /\ row[f] \in Rows /\ row[f].phase # "none" /\ row[f].epoch \in Nat
      /\ put[f] \in Puts /\ minted[f] \in Nat /\ alive[f] \in SUBSET Nat
      /\ alive[f] \ {a.holder} \in SUBSET Nat /\ a.holder \in Nat /\ a.epoch \in Nat
      /\ Fits(row[f], put[f])
      /\ writer[f].pc = "writing" =>
           /\ writer[f].holder \in alive[f] /\ writer[f].holder \in alive[f] \ {a.holder}
           /\ tomb \/ ~Owned(row[f], Handle(a))
  BY <1>2, <1>3, <1>4, AttemptIs
<1>6. UNCHANGED <<row, tomb, minted, writer, call, faults>>
  BY DEF PutResynced
<1>7. PICK s \in Puts : s = put[f]
  BY <1>5
<1>8. PICK t : t = [s EXCEPT !.flying = @ \ {a.holder}]
  OBVIOUS
<1>9. t \in Puts /\ t.sent = s.sent /\ t.taken = s.taken
  BY <1>7, <1>8 DEF Puts
<1>10. put' = [put EXCEPT ![f] = t] /\ row' = [row EXCEPT ![f] = row[f]]
  <2>1. put' = [put EXCEPT ![f].flying = @ \ {a.holder}]
    BY <1>2, <1>3 DEF PutResynced
  <2> QED BY <1>1, <1>6, <1>7, <1>8, <2>1 DEF Puts
<1>11. CASE /\ att' = [att EXCEPT ![p].pc = "part", ![p].resyncs = @ + 1]
            /\ UNCHANGED <<alive, loop, todo, turn>>
  <2>9. PICK n : n = a.resyncs + 1
    OBVIOUS
  <2>10. n \in Nat
    BY <1>5, <2>9 DEF Atts
  <2>1. PICK b : b = [a EXCEPT !.pc = "part", !.resyncs = n]
    OBVIOUS
  <2>2. /\ b \in Atts /\ b.pc = "part" /\ b.file = a.file /\ b.holder = a.holder
        /\ b.epoch = a.epoch /\ b.committing = a.committing
    BY <1>5, <2>1, <2>10 DEF Atts, Waits
  <2>3. att' = [att EXCEPT ![p] = b]
    BY <1>1, <1>2, <1>11, <2>1, <2>9 DEF Atts
  <2>4. Trying(b, f, row[f], t, minted[f])
    BY <1>3, <1>5, <1>7, <1>9, <2>2 DEF Tries, Trying
  <2>5. Fits(row[f], t)
    <3>1. Fits(row[f], s)
      BY <1>5, <1>7
    <3> QED BY <1>9, <3>1 DEF Fits
  <2>6. Allowed(f, row[f], t, minted[f], alive[f])
    BY <1>5, <1>7, <1>9, <2>5 DEF Allowed
  <2>7. Sets(f, row[f], t, minted[f], alive[f])
    BY <1>1, <1>6, <1>10, <1>11 DEF Sets
  <2>8. Others(f)
    BY <1>1, <1>6, <1>11 DEF Others
  <2> QED BY <1>5, <1>9, <2>2, <2>3, <2>4, <2>6, <2>7, <2>8, MoveIsGood
<1>12. CASE AttemptOver(p)
  <2>1. Closes(row[f], f, a)
    BY DEF Closes
  <2> QED BY <1>1, <1>2, <1>3, <1>4, <1>5, <1>6, <1>7, <1>9, <1>10, <1>12, <2>1, OverIsGood
<1> QED BY <1>11, <1>12 DEF PutResynced

\* What the answer to the final put makes of the row.
LEMMA LandedIs ==
  ASSUME NEW r \in Rows, r.phase # "none", r.outcome = "live", r.epoch \in Nat,
         NEW w, w = Advanced(Advanced(r, "uploaded"), "notifying")
  PROVE  /\ w \in Rows /\ w.epoch > r.epoch /\ w.phase = "notifying" /\ w.outcome = "live"
         /\ w.epoch \in Nat
<1>1. PICK u : u = Advanced(r, "uploaded")
  OBVIOUS
<1>2. After(u, r, "uploaded", "live")
  BY <1>1, AdvancedIs DEF Phases, Owing
<1>3. u \in Rows /\ u.phase # "none" /\ u.outcome = "live" /\ u.epoch = r.epoch + 1
  BY <1>2 DEF After
<1>4. w = Advanced(u, "notifying")
  BY <1>1
<1>5. After(w, u, "notifying", "live")
  BY <1>3, <1>4, AdvancedIs DEF Phases, Owing
<1> QED BY <1>3, <1>5 DEF After

LEMMA FinalAnsweredIsGood ==
  ASSUME IInv, NEW p \in Procs, FinalAnswered(p)
  PROVE  Good
<1>1. /\ row \in [Files -> Rows] /\ minted \in [Files -> Nat] /\ put \in [Files -> Puts]
      /\ alive \in [Files -> SUBSET Nat] /\ call \in Calls /\ tomb \in BOOLEAN
      /\ att \in [Procs -> Atts] /\ todo \in [Procs -> [Files -> Rows]] /\ faults \in Nat
      /\ loop \in [Loops -> {"off", "on", "stopping"}] /\ turn \in Procs \cup {Free}
  BY TypesAre DEF IInv
<1>2. PICK a : a = att[p]
  OBVIOUS
<1>3. PICK f : f = a.file
  OBVIOUS
<1>4. a.pc = "final" /\ att[p].pc # "idle" /\ a.holder \in put[f].taken
  BY <1>2, <1>3 DEF FinalAnswered
<1>5. /\ a \in Atts /\ f \in Files /\ Tries(a, f)
      /\ row[f] \in Rows /\ row[f].phase # "none" /\ row[f].epoch \in Nat
      /\ put[f] \in Puts /\ minted[f] \in Nat /\ alive[f] \in SUBSET Nat
      /\ alive[f] \ {a.holder} \in SUBSET Nat /\ a.holder \in Nat /\ a.epoch \in Nat
      /\ Fits(row[f], put[f])
      /\ writer[f].pc = "writing" =>
           /\ writer[f].holder \in alive[f] /\ writer[f].holder \in alive[f] \ {a.holder}
           /\ tomb \/ ~Owned(row[f], Handle(a))
  BY <1>2, <1>3, <1>4, AttemptIs
<1>6. UNCHANGED <<tomb, minted, writer, call>>
  BY DEF FinalAnswered
<1>7. PICK w : w = Advanced(Advanced(row[f], "uploaded"), "notifying")
  OBVIOUS
<1>8. Owned(row[f], Handle(a)) => /\ w \in Rows /\ w.epoch > row[f].epoch
                                  /\ w.phase = "notifying" /\ w.outcome = "live" /\ w.epoch \in Nat
  <2>1. Owned(row[f], Handle(a)) => row[f].outcome = "live"
    BY DEF Owned, Live
  <2> QED BY <1>5, <1>7, <2>1, LandedIs
<1>9. put[f].taken # {}
  BY <1>4
<1>10. minted' = [minted EXCEPT ![f] = minted[f]]
  BY <1>1, <1>6
<1>11. CASE /\ Owned(row[f], Handle(a))
            /\ row' = [row EXCEPT ![f] = w]
            /\ att' = [att EXCEPT ![p] = [a EXCEPT !.pc = "notify", !.committing = FALSE,
                                               !.epoch = w.epoch]]
            /\ UNCHANGED <<put, alive, loop, todo, turn, faults>>
  <2>1. PICK b : b = [a EXCEPT !.pc = "notify", !.committing = FALSE, !.epoch = w.epoch]
    OBVIOUS
  <2>2. /\ b \in Atts /\ b.pc = "notify" /\ b.file = a.file /\ b.holder = a.holder
        /\ b.epoch = w.epoch /\ b.committing = FALSE
    BY <1>5, <1>8, <1>11, <2>1 DEF Atts, Waits
  <2>3. Trying(b, f, w, put[f], minted[f])
    BY <1>3, <1>5, <1>8, <1>9, <1>11, <2>2 DEF Tries, Trying
  <2>4. Fits(w, put[f])
    BY <1>5, <1>8, <1>9, <1>11 DEF Fits, Early
  <2>5. Allowed(f, w, put[f], minted[f], alive[f])
    BY <1>5, <1>8, <1>11, <2>4 DEF Allowed
  <2>6. Sets(f, w, put[f], minted[f], alive[f])
    BY <1>1, <1>10, <1>11 DEF Sets
  <2>7. Others(f)
    BY <1>1, <1>6, <1>11 DEF Others
  <2>8. att' = [att EXCEPT ![p] = b]
    BY <1>11, <2>1
  <2> QED BY <1>5, <1>8, <1>11, <2>2, <2>3, <2>5, <2>6, <2>7, <2>8, MoveIsGood
<1>12. ASSUME Owned(row[f], Handle(a)), AttemptOver(p), UNCHANGED put, faults' \in Nat,
              NEW v \in Rows, row' = [row EXCEPT ![f] = v],
              v.epoch > row[f].epoch, v.phase = "notifying", v.outcome # "abandoned"
       PROVE  Good
  <2>1. Closes(v, f, a)
    BY <1>9, <1>12 DEF Closes, Early
  <2>2. put' = [put EXCEPT ![f] = put[f]]
    BY <1>1, <1>12
  <2>3. call' \in Calls /\ call'.held = call.held
    BY <1>1, <1>6
  <2>4. UNCHANGED <<tomb, minted, writer>> /\ put[f] \in Puts /\ att[p].pc # "idle"
    BY <1>4, <1>5, <1>6
  <2>5. /\ AttemptOver(p) /\ faults' \in Nat /\ row' = [row EXCEPT ![f] = v]
    BY <1>12
  <2> QED BY <1>2, <1>3, <2>1, <2>2, <2>3, <2>4, <2>5, OverIsGood
<1>13. PICK n \in BOOLEAN : n = FALSE
  OBVIOUS
<1>14. CASE /\ Owned(row[f], Handle(a)) /\ AttemptOver(p) /\ UNCHANGED put
            /\ \/ row' = [row EXCEPT ![f] = Ended(w, "done")] /\ UNCHANGED faults
               \/ row' = [row EXCEPT ![f] = IF a.aborted THEN w ELSE Failed(w, n)] /\ Fault
  <2>1. PICK d : d = Ended(w, "done")
    OBVIOUS
  <2>2. PICK e : e = Failed(w, n)
    OBVIOUS
  <2>3. After(d, w, "notifying", "done") /\ After(e, w, "notifying", "live")
    BY <1>8, <1>14, <2>1, <2>2, EndedIs, FailedIs DEF Outcomes
  <2>4. /\ d \in Rows /\ d.epoch > row[f].epoch /\ d.phase = "notifying" /\ d.outcome # "abandoned"
        /\ e \in Rows /\ e.epoch > row[f].epoch /\ e.phase = "notifying" /\ e.outcome # "abandoned"
    BY <1>5, <1>8, <1>14, <2>3 DEF After
  <2>5. faults' \in Nat
    BY <1>1, <1>14 DEF Fault
  <2>6. PICK v \in {w, d, e} : row' = [row EXCEPT ![f] = v]
    BY <1>14, <2>1, <2>2
  <2> QED BY <1>8, <1>12, <1>14, <2>4, <2>5, <2>6
<1>15. CASE AttemptLost(p) /\ UNCHANGED faults
  <2>1. AttemptOver(p) /\ row' = [row EXCEPT ![f] = row[f]] /\ put' = [put EXCEPT ![f] = put[f]]
    BY <1>1, <1>15 DEF AttemptLost
  <2>2. Closes(row[f], f, a)
    BY DEF Closes
  <2> QED BY <1>1, <1>2, <1>3, <1>4, <1>5, <1>6, <1>15, <2>1, <2>2, OverIsGood
<1> QED BY <1>2, <1>3, <1>7, <1>11, <1>13, <1>14, <1>15 DEF FinalAnswered

LEMMA NotifyAnsweredIsGood ==
  ASSUME IInv, NEW p \in Procs, NotifyAnswered(p)
  PROVE  Good
<1>1. /\ row \in [Files -> Rows] /\ put \in [Files -> Puts] /\ call \in Calls /\ faults \in Nat
  BY TypesAre DEF IInv
<1>2. PICK a : a = att[p]
  OBVIOUS
<1>3. PICK f : f = a.file
  OBVIOUS
<1>4. a.pc = "notify" /\ att[p].pc # "idle"
  BY <1>2 DEF NotifyAnswered
<1>5. /\ f \in Files /\ Tries(a, f) /\ row[f] \in Rows /\ row[f].phase # "none"
      /\ row[f].epoch \in Nat /\ put[f] \in Puts
  BY <1>2, <1>3, <1>4, AttemptIs
<1>6. AttemptOver(p) /\ UNCHANGED <<tomb, minted, put, writer, call, faults>>
  BY DEF NotifyAnswered
<1>7. PICK how \in {"done", "abandoned"} :
        row' = IF Owned(row[f], Handle(a)) THEN [row EXCEPT ![f] = Ended(@, how)] ELSE row
  BY <1>2, <1>3 DEF NotifyAnswered
<1>8. /\ put' = [put EXCEPT ![f] = put[f]] /\ call' \in Calls /\ call'.held = call.held
      /\ UNCHANGED <<tomb, minted, writer>> /\ faults' \in Nat
  BY <1>1, <1>6
<1>9. PICK r \in Rows : row' = [row EXCEPT ![f] = r] /\ Closes(r, f, a)
  <2>1. CASE ~Owned(row[f], Handle(a))
    <3>1. row' = [row EXCEPT ![f] = row[f]]
      BY <1>1, <1>7, <2>1
    <3> QED BY <1>5, <3>1 DEF Closes
  <2>2. CASE Owned(row[f], Handle(a))
    <3>1. PICK w : w = Ended(row[f], how)
      OBVIOUS
    <3>2. row[f].phase = "notifying" /\ put[f].taken # {}
      BY <1>4, <1>5, <2>2 DEF Tries
    <3>3. After(w, row[f], "notifying", how)
      BY <1>5, <3>1, <3>2, EndedIs DEF Outcomes
    <3>4. w \in Rows /\ w.epoch > row[f].epoch /\ w.phase = "notifying"
      BY <1>5, <3>3 DEF After
    <3>5. Closes(w, f, a)
      BY <2>2, <3>2, <3>4 DEF Closes, Early, Owing
    <3>6. row' = [row EXCEPT ![f] = w]
      BY <1>7, <2>2, <3>1
    <3> QED BY <3>4, <3>5, <3>6
  <2> QED BY <2>1, <2>2
<1>10. /\ att[p].pc # "idle" /\ put[f] \in Puts /\ AttemptOver(p)
       /\ call' \in Calls /\ call'.held = call.held /\ faults' \in Nat
       /\ UNCHANGED <<tomb, minted, writer>> /\ put' = [put EXCEPT ![f] = put[f]]
  BY <1>4, <1>5, <1>6, <1>8
<1> QED BY <1>2, <1>3, <1>9, <1>10, OverIsGood

LEMMA AttemptFailsIsGood ==
  ASSUME IInv, NEW p \in Procs, AttemptFails(p)
  PROVE  Good
<1>1. /\ row \in [Files -> Rows] /\ put \in [Files -> Puts] /\ call \in Calls /\ faults \in Nat
  BY TypesAre DEF IInv
<1>2. PICK a : a = att[p]
  OBVIOUS
<1>3. PICK f : f = a.file
  OBVIOUS
<1>4. att[p].pc # "idle"
  BY DEF AttemptFails
<1>5. /\ f \in Files /\ row[f] \in Rows /\ row[f].phase # "none" /\ a \in Atts
      /\ row[f].epoch \in Nat /\ put[f] \in Puts /\ Fits(row[f], put[f])
  BY <1>2, <1>3, <1>4, AttemptIs
<1>6. /\ AttemptOver(p) /\ UNCHANGED <<tomb, minted, put, writer>>
      /\ faults' = faults + 1 \/ faults' = faults
  BY DEF AttemptFails, Fault
<1>7. put' = [put EXCEPT ![f] = put[f]] /\ faults' \in Nat
  BY <1>1, <1>6
<1>8. call' \in Calls /\ call'.held = call.held
  <2>1. PICK n \in BOOLEAN : call' = call \/ call' = [call EXCEPT !.aborted = n]
    <3>1. (call.aborted \/ p = Call) \in BOOLEAN
      OBVIOUS
    <3> QED BY <3>1 DEF AttemptFails
  <2>2. PICK c \in Calls : c = call
    BY <1>1
  <2>3. PICK d : d = [c EXCEPT !.aborted = n]
    OBVIOUS
  <2>4. d \in Calls /\ d.held = c.held
    BY <2>3 DEF Calls
  <2> QED BY <2>1, <2>2, <2>3, <2>4
<1>9. PICK r \in Rows : row' = [row EXCEPT ![f] = r] /\ Closes(r, f, a)
  <2>1. CASE UNCHANGED row
    <3>1. row' = [row EXCEPT ![f] = row[f]]
      BY <1>1, <2>1
    <3> QED BY <1>5, <3>1 DEF Closes
  <2>2. ASSUME ~UNCHANGED row
        PROVE  \E n \in BOOLEAN : Owned(row[f], Handle(a)) /\ row' = [row EXCEPT ![f] = Failed(@, n)]
    <3>1. PICK missing \in BOOLEAN :
             row' = IF Owned(row[f], Handle(a))
                    THEN [row EXCEPT ![f] = Failed(@, GivesUp(p, a, missing))] ELSE row
      BY <1>2, <1>3, <2>2 DEF AttemptFails
    <3>2. GivesUp(p, a, missing) \in BOOLEAN
      BY <1>5 DEF GivesUp, Atts
    <3> QED BY <2>2, <3>1, <3>2
  <2>3. CASE ~UNCHANGED row
    <3>1. PICK n \in BOOLEAN :
            Owned(row[f], Handle(a)) /\ row' = [row EXCEPT ![f] = Failed(@, n)]
      BY <2>2, <2>3
    <3>2. PICK w : w = Failed(row[f], n)
      OBVIOUS
    <3>3. After(w, row[f], row[f].phase, row[f].outcome)
      BY <1>5, <3>2, FailedIs
    <3>4. /\ w \in Rows /\ w.epoch > row[f].epoch /\ w.phase = row[f].phase
          /\ w.outcome = "live"
      BY <1>5, <3>1, <3>3 DEF After, Owned, Live
    <3>5. OnNode(w) => put[f].taken # {}
      BY <1>5, <3>1, <3>4 DEF OnNode, Fits, Owned, Live
    <3>6. Closes(w, f, a)
      BY <1>5, <3>1, <3>4, <3>5 DEF Closes
    <3>7. row' = [row EXCEPT ![f] = w]
      BY <3>1, <3>2
    <3> QED BY <3>4, <3>6, <3>7
  <2> QED BY <2>1, <2>3
<1>10. /\ att[p].pc # "idle" /\ put[f] \in Puts /\ AttemptOver(p)
       /\ call' \in Calls /\ call'.held = call.held /\ faults' \in Nat
       /\ UNCHANGED <<tomb, minted, writer>> /\ put' = [put EXCEPT ![f] = put[f]]
  BY <1>4, <1>5, <1>6, <1>7, <1>8
<1> QED BY <1>2, <1>3, <1>9, <1>10, OverIsGood

----------------------------------------------------------------------------
(* Claims that start an attempt.                                            *)

\* A step of the attempt a of p, which works on the row r of the file.
LEMMA StartedIsGood ==
  ASSUME IInv, NEW p \in Procs, NEW f \in Files, NEW r \in Rows, NEW m \in Nat,
         NEW l \in SUBSET Nat, NEW w \in Rows, NEW s \in Puts, NEW b \in Atts, NEW a \in Atts,
         r = row[f] \/ (row[f].phase # "none" /\ r.epoch > row[f].epoch /\ r.outcome = "live"),
         r.epoch \in Nat, Went(p, f, a, r, m, w, s, b),
         writer[f].pc = "writing" =>
           writer[f].holder \in l /\ (tomb \/ (r = row[f] /\ ~Owned(r, Handle(a)))),
         minted' = [minted EXCEPT ![f] = m], minted[f] <= m, alive' = [alive EXCEPT ![f] = l],
         Others(f)
  PROVE  Good
<1>1. row[f].epoch \in Nat /\ w.epoch \in Nat
  BY TypesAre DEF IInv, Rows
<1>2. Sets(f, w, s, m, l)
  BY DEF Sets, Went
<1>3. row[f].phase = "none" => ~Owned(row[f], Handle(a))
  BY DEF Owned, Live
<1>4. w = row[f] \/ (row[f].phase # "none" /\ w.epoch > row[f].epoch)
  BY <1>1, <1>3 DEF Went
<1>5. w # row[f] => w.outcome # "abandoned"
  BY DEF Went
<1>6. writer[f].pc = "writing" => writer[f].holder \in l /\ (tomb \/ w = row[f])
  BY DEF Went
<1>7. Allowed(f, w, s, m, l)
  BY <1>4, <1>5, <1>6 DEF Allowed, Went
<1> QED BY <1>2, <1>7, MoveIsGood DEF Went

LEMMA ResumeUploadIsGood ==
  ASSUME IInv, NEW p \in Loops, NEW f \in Files, ResumeUpload(p, f)
  PROVE  Good
<1>1. /\ row \in [Files -> Rows] /\ minted \in [Files -> Nat] /\ put \in [Files -> Puts]
      /\ alive \in [Files -> SUBSET Nat] /\ call \in Calls /\ faults \in Nat
      /\ loop \in [Loops -> {"off", "on", "stopping"}] /\ p \in Procs
      /\ todo \in [Procs -> [Files -> Rows]] /\ todo[p][f] \in Rows
  BY TypesAre DEF IInv, Procs
<1>2. PICK t : t = todo[p][f]
  OBVIOUS
<1>3. PICK h : h = New(f)
  OBVIOUS
<1>4. PICK r : r = Claimed(row[f], h)
  OBVIOUS
<1>5. /\ t # NoRow /\ Claimable(f, t) /\ t.phase \in {"sealed", "queued", "uploading"}
      /\ minted' = [minted EXCEPT ![f] = h] /\ Joins(f, h)
      /\ UNCHANGED <<tomb, writer, call, loop, faults>> /\ Awaits(p, f)
  BY <1>1, <1>2, <1>3 DEF ResumeUpload, Reaches, Mints, New
<1>6. /\ t = row[f] /\ row[f] \in Rows /\ row[f].phase \in Phases /\ row[f].outcome = "live"
      /\ row[f].epoch \in Nat /\ Fits(row[f], put[f])
      /\ put[f] \in Puts /\ minted[f] \in Nat /\ alive[f] \in SUBSET Nat
      /\ writer[f].pc = "writing" => tomb /\ writer[f].holder \in alive[f]
  BY <1>1, <1>2, <1>5, ClaimIs
<1>7. /\ h \in Nat /\ minted[f] <= h /\ h \in 1..h
      /\ r \in Rows /\ r.epoch = row[f].epoch + 1 /\ r.phase = row[f].phase
      /\ r.phase \in Phases /\ r.epoch \in Nat /\ r.outcome = "live"
      /\ writer[f].pc = "writing" => h # writer[f].holder
  BY <1>1, <1>2, <1>3, <1>4, <1>5, MineIs
<1>8. PICK n : n = IF t.phase = "uploading" THEN r ELSE Advanced(r, "uploading")
  OBVIOUS
<1>9. /\ n \in Rows /\ n.phase = "uploading" /\ n.outcome = "live" /\ n.epoch > row[f].epoch
      /\ n.epoch \in Nat
  <2>1. CASE t.phase = "uploading"
    BY <1>6, <1>7, <1>8, <2>1
  <2>2. CASE t.phase # "uploading"
    <3>1. r.phase # "none" /\ "uploading" \in Phases
      BY <1>7 DEF Phases, Owing
    <3>2. n = Advanced(r, "uploading")
      BY <1>8, <2>2
    <3>3. After(n, r, "uploading", "live")
      BY <1>7, <3>1, <3>2, AdvancedIs
    <3> QED BY <1>6, <1>7, <3>3 DEF After
  <2> QED BY <2>1, <2>2
<1>10. PICK a : a = Attempt(f, h, n, t.attempts)
  OBVIOUS
<1>11. /\ a \in Atts /\ a.file = f /\ a.holder = h /\ a.epoch = n.epoch /\ ~a.committing
  BY <1>1, <1>2, <1>7, <1>9, <1>10 DEF Attempt, Idle, Atts, Waits, Rows
<1>12. SendPart(p, a, n) \/ SendFinal(p, a, n)
  BY <1>2, <1>3, <1>4, <1>8, <1>10 DEF ResumeUpload, SendPut
<1>13. Fits(n, put[f])
  <2>1. row[f].phase \in Early /\ row[f].phase # "none"
    BY <1>2, <1>5, <1>6 DEF Early
  <2>2. n.epoch # 0
    BY <1>6, <1>9
  <2> QED BY <1>6, <1>9, <2>1, <2>2 DEF Fits, OnNode
<1>14. PICK w \in Rows, s \in Puts, b \in Atts : Went(p, f, a, n, h, w, s, b)
  <2>1. n.phase # "none" /\ a.epoch <= n.epoch /\ a.holder \in 1..h
        /\ (writer[f].pc = "writing" => a.holder # writer[f].holder)
        /\ (a.committing => a.holder \in put[f].sent)
    BY <1>7, <1>9, <1>11
  <2> QED BY <1>1, <1>6, <1>7, <1>9, <1>11, <1>12, <1>13, <2>1, PutIs
<1>15. PICK l \in SUBSET Nat : l = alive[f] \cup {h}
  BY <1>6, <1>7
<1>16. alive' = [alive EXCEPT ![f] = l]
  BY <1>5, <1>15 DEF Joins
<1>17. Others(f)
  <2>1. turn' \in Procs \cup {Free} /\ todo' = [todo EXCEPT ![p][f] = NoRow] /\ TypeOK
    BY <1>5 DEF Awaits, IInv
  <2> QED BY <1>1, <1>5, <2>1, OneRead DEF Others
<1>18. /\ row[f].phase # "none" /\ n.epoch > row[f].epoch /\ n.outcome = "live"
       /\ writer[f].pc = "writing" => tomb /\ writer[f].holder \in l
  BY <1>6, <1>9, <1>15 DEF Phases, Owing
<1> QED BY <1>1, <1>5, <1>7, <1>9, <1>11, <1>14, <1>16, <1>17, <1>18, StartedIsGood

LEMMA ResumeWakeIsGood ==
  ASSUME IInv, NEW p \in Loops, NEW f \in Files, ResumeWake(p, f)
  PROVE  Good
<1>1. /\ row \in [Files -> Rows] /\ minted \in [Files -> Nat] /\ put \in [Files -> Puts]
      /\ alive \in [Files -> SUBSET Nat] /\ call \in Calls /\ faults \in Nat
      /\ loop \in [Loops -> {"off", "on", "stopping"}] /\ p \in Procs
      /\ todo \in [Procs -> [Files -> Rows]] /\ todo[p][f] \in Rows /\ Idle \in Atts
  BY TypesAre, LiteralsAreTyped DEF IInv, Procs
<1>2. PICK t : t = todo[p][f]
  OBVIOUS
<1>3. PICK h : h = New(f)
  OBVIOUS
<1>4. PICK r : r = Claimed(row[f], h)
  OBVIOUS
<1>5. /\ t # NoRow /\ Claimable(f, t) /\ t.phase \in {"uploaded", "notifying"}
      /\ minted' = [minted EXCEPT ![f] = h]
      /\ UNCHANGED <<tomb, put, writer, call, loop, faults>>
  BY <1>1, <1>2, <1>3 DEF ResumeWake, Reaches, Mints, New
<1>6. /\ t = row[f] /\ row[f] \in Rows /\ row[f].phase \in Phases /\ row[f].outcome = "live"
      /\ row[f].epoch \in Nat /\ Fits(row[f], put[f])
      /\ put[f] \in Puts /\ minted[f] \in Nat /\ alive[f] \in SUBSET Nat
      /\ writer[f].pc = "writing" => tomb /\ writer[f].holder \in alive[f]
  BY <1>1, <1>2, <1>5, ClaimIs
<1>7. /\ h \in Nat /\ minted[f] <= h /\ h \in 1..h
      /\ r \in Rows /\ r.epoch = row[f].epoch + 1 /\ r.phase = row[f].phase
      /\ r.phase \in Phases /\ r.epoch \in Nat /\ r.outcome = "live"
      /\ writer[f].pc = "writing" => h # writer[f].holder
  BY <1>1, <1>2, <1>3, <1>4, <1>5, MineIs
<1>8. PICK n : n = IF t.phase = "notifying" THEN r ELSE Advanced(r, "notifying")
  OBVIOUS
<1>9. /\ n \in Rows /\ n.phase = "notifying" /\ n.outcome = "live" /\ n.epoch > row[f].epoch
      /\ n.epoch \in Nat
  <2>1. CASE t.phase = "notifying"
    BY <1>6, <1>7, <1>8, <2>1
  <2>2. CASE t.phase # "notifying"
    <3>1. r.phase # "none" /\ "notifying" \in Phases
      BY <1>7 DEF Phases, Owing
    <3>2. n = Advanced(r, "notifying")
      BY <1>8, <2>2
    <3>3. After(n, r, "notifying", "live")
      BY <1>7, <3>1, <3>2, AdvancedIs
    <3> QED BY <1>6, <1>7, <3>3 DEF After
  <2> QED BY <2>1, <2>2
<1>10. /\ row[f].phase \in {"uploaded", "notifying"} /\ put[f].taken # {}
  BY <1>5, <1>6 DEF Fits, OnNode
<1>11. put' = [put EXCEPT ![f] = put[f]]
  BY <1>1, <1>5
<1>12. ASSUME NEW w \in Rows, w.phase = "notifying", w.epoch > row[f].epoch, w.outcome # "abandoned",
              NEW l \in SUBSET Nat, alive[f] \subseteq l
       PROVE  Allowed(f, w, put[f], h, l)
  <2>1. w.epoch # 0
    BY <1>6, <1>12
  <2>2. Fits(w, put[f])
    BY <1>6, <1>10, <1>12, <2>1 DEF Fits, Early
  <2> QED BY <1>6, <1>7, <1>10, <1>12, <2>2 DEF Allowed
<1>13. ASSUME turn' \in Procs \cup {Free}, todo' = [todo EXCEPT ![p][f] = NoRow]
       PROVE  Others(f)
  <2>1. TypeOK
    BY DEF IInv
  <2> QED BY <1>1, <1>5, <1>13, <2>1, OneRead DEF Others
<1>14. CASE /\ row' = [row EXCEPT ![f] = n]
            /\ att' = [att EXCEPT ![p] = [Attempt(f, h, n, t.attempts) EXCEPT !.pc = "notify"]]
            /\ Joins(f, h)
            /\ Awaits(p, f)
  <2>1. PICK b : b = [Attempt(f, h, n, t.attempts) EXCEPT !.pc = "notify"]
    OBVIOUS
  <2>2. /\ b \in Atts /\ b.file = f /\ b.holder = h /\ b.epoch = n.epoch /\ ~b.committing
    BY <1>1, <1>2, <1>7, <1>9, <2>1 DEF Attempt, Idle, Atts, Waits, Rows
  <2>3. PICK l \in SUBSET Nat : l = alive[f] \cup {h}
    BY <1>6, <1>7
  <2>4. Sets(f, n, put[f], h, l)
    BY <1>5, <1>11, <1>14, <2>3 DEF Sets, Joins
  <2>5. Allowed(f, n, put[f], h, l)
    BY <1>9, <1>12, <2>3
  <2>6. Trying(b, f, n, put[f], h)
    BY <1>7, <1>9, <1>10, <2>2 DEF Trying
  <2>7. Others(f)
    BY <1>13, <1>14 DEF Awaits
  <2>8. att' = [att EXCEPT ![p] = b] /\ p \in Procs /\ h \in Nat /\ put[f] \in Puts /\ n \in Rows
    BY <1>1, <1>6, <1>7, <1>9, <1>14, <2>1
  <2> QED BY <2>2, <2>4, <2>5, <2>6, <2>7, <2>8, MoveIsGood
<1>15. CASE /\ row' = [row EXCEPT ![f] = Ended(n, "done")]
            /\ Passed(p, f)
            /\ UNCHANGED <<att, alive>>
  <2>1. PICK w : w = Ended(n, "done")
    OBVIOUS
  <2>2. After(w, n, "notifying", "done")
    BY <1>9, <2>1, EndedIs DEF Outcomes
  <2>3. w \in Rows /\ w.epoch > row[f].epoch /\ w.phase = "notifying" /\ w.outcome # "abandoned"
    BY <1>6, <1>9, <2>2 DEF After
  <2>4. Sets(f, w, put[f], h, alive[f])
    BY <1>1, <1>5, <1>11, <1>15, <2>1 DEF Sets
  <2>5. Allowed(f, w, put[f], h, alive[f])
    BY <1>6, <1>12, <2>3
  <2>6. Others(f)
    BY <1>1, <1>13, <1>15 DEF Passed
  <2>7. p \in Procs /\ h \in Nat /\ put[f] \in Puts /\ alive[f] \in SUBSET Nat /\ Idle \in Atts
        /\ att' = att
    BY <1>1, <1>6, <1>7, <1>15
  <2> QED BY <2>3, <2>4, <2>5, <2>6, <2>7, MoveIsGood
<1> QED BY <1>2, <1>3, <1>4, <1>8, <1>14, <1>15 DEF ResumeWake

----------------------------------------------------------------------------
(* The push of a tool call.                                                 *)

LEMMA PushIsGood ==
  ASSUME IInv, NEW f \in Files, NEW a \in Atts, a.file = f, NEW m \in Nat,
         a.committing => a.holder \in put[f].sent, a.holder \in 1..m, writer[f].pc = "writing" => a.holder # writer[f].holder,
         NEW r \in Rows, r.phase # "none", r.epoch \in Nat, a.epoch <= r.epoch, Fits(r, put[f]),
         r = row[f] \/ (row[f].phase # "none" /\ r.epoch > row[f].epoch /\ r.outcome = "live"),
         writer[f].pc = "writing" =>
           /\ writer[f].holder \in alive[f]
           /\ tomb \/ (r = row[f] /\ ~Owned(r, Handle(a))),
         minted' = [minted EXCEPT ![f] = m], minted[f] <= m, Push(a, r), Others(f)
  PROVE  Good
<1>1. /\ row \in [Files -> Rows] /\ put \in [Files -> Puts] /\ alive \in [Files -> SUBSET Nat]
      /\ put[f] \in Puts /\ alive[f] \in SUBSET Nat
      /\ Idle \in Atts /\ Idle.pc = "idle" /\ Call \in Procs
      /\ a.holder \in Nat
  BY TypesAre, LiteralsAreTyped DEF IInv, Procs, Atts
<1>2. PICK d \in SUBSET Nat : d = alive[f] \ {a.holder}
  BY <1>1
<1>3. PICK l \in SUBSET Nat : l = alive[f] \cup {a.holder}
  BY <1>1
<1>4. writer[f].pc = "writing" => writer[f].holder \in d /\ writer[f].holder \in l
  BY <1>2, <1>3
<1>5. ASSUME NEW w \in Rows, row' = [row EXCEPT ![f] = w], UNCHANGED put, Retires(f, a.holder),
             att' = [att EXCEPT ![Call] = Idle], Fits(w, put[f]), w.phase # "none",
             w = r \/ (Owned(r, Handle(a)) /\ w.outcome = "live" /\ w.epoch > r.epoch)
      PROVE  Good
  <2>1. put' = [put EXCEPT ![f] = put[f]] /\ alive' = [alive EXCEPT ![f] = d]
    BY <1>1, <1>2, <1>5 DEF Retires
  <2>2. Went(Call, f, a, r, m, w, put[f], Idle)
    BY <1>1, <1>5, <2>1 DEF Went
  <2> QED BY <1>1, <1>4, <2>1, <2>2, StartedIsGood
<1>6. ASSUME Owned(r, Handle(a)), r.phase = "sealed", NEW to \in {"queued", "uploading"},
             NEW w, w = Advanced(r, to)
      PROVE  /\ w \in Rows /\ w.epoch = r.epoch + 1 /\ w.phase = to /\ w.outcome = "live"
             /\ Fits(w, put[f]) /\ r.outcome = "live" /\ put[f].sent = {} /\ w.epoch \in Nat
             /\ w.holder = r.holder
  <2>1. r.outcome = "live" /\ to \in Phases /\ put[f].sent = {}
    BY <1>6 DEF Owned, Live, Phases, Owing, Fits, Early
  <2>2. After(w, r, to, "live") /\ w.holder = r.holder
    BY <1>6, <2>1, AdvancedIs
  <2>3. w \in Rows /\ w.epoch = r.epoch + 1 /\ w.phase = to /\ w.outcome = "live"
    BY <2>2 DEF After
  <2>4. Fits(w, put[f])
    BY <2>1, <2>3 DEF Fits, OnNode
  <2> QED BY <2>1, <2>2, <2>3, <2>4
<1>7. CASE LeaveForWorker(a, r)
  <2>1. UNCHANGED put /\ Retires(f, a.holder) /\ att' = [att EXCEPT ![Call] = Idle]
    BY <1>7 DEF LeaveForWorker
  <2>2. CASE ~(Owned(r, Handle(a)) /\ r.phase = "sealed")
    <3>1. row' = [row EXCEPT ![f] = r]
      BY <1>7, <2>2 DEF LeaveForWorker
    <3> QED BY <1>5, <2>1, <3>1
  <2>3. CASE Owned(r, Handle(a)) /\ r.phase = "sealed"
    <3>1. PICK q : q = Advanced(r, "queued")
      OBVIOUS
    <3>2. PICK w : w = Released(q)
      OBVIOUS
    <3>3. /\ q \in Rows /\ q.epoch = r.epoch + 1 /\ q.phase = "queued" /\ q.outcome = "live"
          /\ put[f].sent = {}
      BY <1>6, <2>3, <3>1
    <3>4. After(w, q, "queued", "live")
      BY <3>2, <3>3, ReleasedIs
    <3>5. w \in Rows /\ w.epoch > r.epoch /\ w.phase = "queued" /\ w.outcome = "live"
      BY <3>3, <3>4 DEF After
    <3>6. Fits(w, put[f])
      BY <3>3, <3>5 DEF Fits, OnNode
    <3>7. row' = [row EXCEPT ![f] = w]
      BY <1>7, <2>3, <3>1, <3>2 DEF LeaveForWorker
    <3> QED BY <1>5, <2>1, <2>3, <3>5, <3>6, <3>7
  <2> QED BY <2>2, <2>3
<1>8. CASE StartPush(a, r)
  <2>1. CASE ~(Owned(r, Handle(a)) /\ r.phase = "sealed")
    <3>1. /\ row' = [row EXCEPT ![f] = r] /\ UNCHANGED put /\ Retires(f, a.holder)
          /\ att' = [att EXCEPT ![Call] = Idle]
      BY <1>8, <2>1 DEF StartPush
    <3> QED BY <1>5, <3>1
  <2>2. CASE Owned(r, Handle(a)) /\ r.phase = "sealed"
    <3>1. PICK n : n = Advanced(r, "uploading")
      OBVIOUS
    <3>2. PICK b : b = [a EXCEPT !.epoch = n.epoch]
      OBVIOUS
    <3>3. /\ n \in Rows /\ n.epoch = r.epoch + 1 /\ n.phase = "uploading" /\ n.outcome = "live"
          /\ Fits(n, put[f]) /\ r.outcome = "live" /\ n.epoch \in Nat
      BY <1>6, <2>2, <3>1
    <3>4. /\ b \in Atts /\ b.file = f /\ b.holder = a.holder /\ b.epoch = n.epoch
          /\ b.committing = a.committing
      BY <3>2, <3>3 DEF Atts
    <3>5. /\ SendPart(Call, b, n) \/ SendFinal(Call, b, n)
          /\ Joins(f, a.holder)
      BY <1>8, <2>2, <3>1, <3>2 DEF StartPush, SendPut
    <3>6. PICK w \in Rows, s \in Puts, c \in Atts : Went(Call, f, b, n, m, w, s, c)
      <4>1. /\ n.phase # "none" /\ b.epoch <= n.epoch /\ b.holder \in 1..m
            /\ (writer[f].pc = "writing" => b.holder # writer[f].holder)
            /\ (b.committing => b.holder \in put[f].sent)
        BY <3>3, <3>4
      <4> QED BY <1>1, <3>3, <3>4, <3>5, <4>1, PutIs
    <3>7. row[f].phase # "none" /\ n.epoch > row[f].epoch
      <4>1. row[f].epoch \in Nat
        BY TypesAre DEF IInv, Rows
      <4> QED BY <3>3, <4>1
    <3>8. writer[f].pc = "writing" => writer[f].holder \in l /\ tomb
      BY <1>4, <2>2
    <3>9. alive' = [alive EXCEPT ![f] = l]
      BY <1>3, <3>5 DEF Joins
    <3> QED BY <1>1, <3>3, <3>4, <3>6, <3>7, <3>8, <3>9, StartedIsGood
  <2> QED BY <2>1, <2>2
<1>9. CASE AskRenewal(a, r)
  <2>1. PICK b : b = [a EXCEPT !.pc = "renew"]
    OBVIOUS
  <2>2. /\ b \in Atts /\ b.file = f /\ b.holder = a.holder /\ b.epoch = a.epoch
        /\ b.committing = a.committing /\ b.pc = "renew"
    BY <2>1 DEF Atts, Waits
  <2>3. /\ row' = [row EXCEPT ![f] = r] /\ put' = [put EXCEPT ![f] = put[f]]
        /\ att' = [att EXCEPT ![Call] = b] /\ alive' = [alive EXCEPT ![f] = l]
    BY <1>1, <1>3, <1>9, <2>1 DEF AskRenewal, Joins
  <2>4. Trying(b, f, r, put[f], m)
    BY <2>2 DEF Trying
  <2>5. Went(Call, f, a, r, m, r, put[f], b)
    BY <2>3, <2>4 DEF Went
  <2> QED BY <1>1, <1>4, <2>2, <2>3, <2>5, StartedIsGood
<1> QED BY <1>7, <1>8, <1>9 DEF Push

\* A step of the push waits or goes on.
LEMMA PushTurn ==
  ASSUME NEW a, NEW r, Push(a, r)
  PROVE  turn' \in Procs \cup {Free}
  BY DEF Push, LeaveForWorker, StartPush, AskRenewal, Procs

LEMMA RenewalAnsweredIsGood ==
  ASSUME IInv, RenewalAnswered
  PROVE  Good
<1>1. /\ minted \in [Files -> Nat] /\ call \in Calls /\ faults \in Nat
      /\ loop \in [Loops -> {"off", "on", "stopping"}]
      /\ todo \in [Procs -> [Files -> Rows]] /\ Call \in Procs
  BY TypesAre DEF IInv, Procs
<1>2. PICK a : a = att[Call]
  OBVIOUS
<1>3. PICK f : f = a.file
  OBVIOUS
<1>4. /\ att[Call].pc # "idle" /\ Push(a, row[f])
      /\ UNCHANGED <<tomb, minted, writer, call, loop, todo, faults>>
  BY <1>2, <1>3 DEF RenewalAnswered, Push
<1>5. /\ a \in Atts /\ f \in Files /\ Tries(a, f)
      /\ row[f] \in Rows /\ row[f].phase # "none" /\ row[f].epoch \in Nat
      /\ minted[f] \in Nat /\ Fits(row[f], put[f])
      /\ writer[f].pc = "writing" =>
           /\ writer[f].holder \in alive[f]
           /\ tomb \/ ~Owned(row[f], Handle(a))
  BY <1>1, <1>2, <1>3, <1>4, AttemptIs
<1>6. /\ a.holder \in 1..minted[f] /\ a.epoch <= row[f].epoch /\ a.file = f
      /\ writer[f].pc = "writing" => a.holder # writer[f].holder
      /\ a.committing => a.holder \in put[f].sent
  BY <1>3, <1>5 DEF Tries
<1>7. minted' = [minted EXCEPT ![f] = minted[f]] /\ minted[f] <= minted[f]
  BY <1>1, <1>4, <1>5
<1>8. Others(f)
  BY <1>1, <1>4, PushTurn DEF Others
<1> QED BY <1>4, <1>5, <1>6, <1>7, <1>8, PushIsGood

LEMMA PushFileIsGood ==
  ASSUME IInv, NEW f \in Files, PushFile(f)
  PROVE  Good
<1>1. /\ minted \in [Files -> Nat] /\ call \in Calls /\ faults \in Nat /\ put[f] \in Puts
      /\ loop \in [Loops -> {"off", "on", "stopping"}] /\ row[f] \in Rows
      /\ todo \in [Procs -> [Files -> Rows]] /\ Call \in Procs /\ Idle \in Atts
      /\ minted[f] \in Nat /\ todo[Call][f] \in Rows /\ TypeOK
  BY TypesAre, LiteralsAreTyped DEF IInv, Procs
<1>2. PICK t : t = todo[Call][f]
  OBVIOUS
<1>3. /\ t # NoRow /\ t.phase = "sealed" /\ UNCHANGED <<tomb, writer, loop, faults>>
      /\ todo' = [todo EXCEPT ![Call][f] = NoRow]
  BY <1>2 DEF PushFile, Selects, Pushable
<1>4. /\ todo' \in [Procs -> [Files -> Rows]]
      /\ \A q \in Procs : \A g \in Files : todo'[q][g] = todo[q][g] \/ todo'[q][g] = NoRow
  BY <1>1, <1>3, OneRead
<1>5. /\ row[f].epoch \in Nat /\ t.epoch \in Nat /\ t.epoch <= row[f].epoch
      /\ t.epoch = row[f].epoch => t = row[f]
      /\ Fits(row[f], put[f]) /\ WriterInv(f) /\ HeldInv(f)
  <2>1. TodoInv(Call, f) /\ RowInv(f) /\ WriterInv(f) /\ HeldInv(f)
    BY <1>1 DEF IInv
  <2> QED BY <1>1, <1>2, <1>3, <2>1 DEF TodoInv, Read, RowInv, Rows
<1>6. row[f].phase # "none"
  <2>1. row[f].phase = "none" => row[f] = NoRow /\ NoRow.epoch = 0
    BY <1>5, LiteralsAreTyped DEF Fits
  <2> QED BY <1>3, <1>5, <2>1
<1>7. CASE /\ Ours(f) /\ call' = [call EXCEPT !.held[f] = NoHandle]
           /\ Push([Idle EXCEPT !.file = f, !.holder = call.held[f].holder,
                                !.epoch = call.held[f].epoch], row[f])
           /\ UNCHANGED minted
  <2>1. PICK k : k = call.held[f]
    OBVIOUS
  <2>2. /\ k \in Handles /\ k.holder \in Nat /\ k.epoch \in Nat /\ k.holder # Nobody
        /\ k.epoch = t.epoch /\ k.holder <= minted[f]
        /\ writer[f].pc = "writing" => k.holder # writer[f].holder
    BY <1>1, <1>2, <1>5, <1>7, <2>1 DEF Ours, Calls, Handles, HeldInv
  <2>3. PICK a : a = [Idle EXCEPT !.file = f, !.holder = k.holder, !.epoch = k.epoch]
    OBVIOUS
  <2>4. /\ a \in Atts /\ a.file = f /\ a.holder = k.holder /\ a.epoch = k.epoch /\ ~a.committing
    BY <2>2, <2>3 DEF Idle, Atts, Waits
  <2>5. Push(a, row[f])
    BY <1>7, <2>1, <2>3
  <2>6. a.holder \in 1..minted[f] /\ a.epoch <= row[f].epoch
    BY <1>1, <1>5, <2>2, <2>4 DEF Nobody
  <2>7. writer[f].pc = "writing" =>
          writer[f].holder \in alive[f] /\ (tomb \/ ~Owned(row[f], Handle(a)))
    <3>1. Owned(row[f], Handle(a)) => Owned(row[f], call.held[f])
      BY <2>1, <2>4 DEF Owned, Handle
    <3> QED BY <1>5, <3>1, NotReserved DEF WriterInv
  <2>8. minted' = [minted EXCEPT ![f] = minted[f]] /\ minted[f] <= minted[f]
    BY <1>1, <1>7
  <2>9. Others(f)
    <3>1. PICK c \in Calls : c = call
      BY <1>1
    <3>2. PICK g : g = [c.held EXCEPT ![f] = NoHandle]
      OBVIOUS
    <3>3. g \in [Files -> Handles] /\ g[f].holder = Nobody /\ \A e \in Files \ {f} : g[e] = c.held[e]
      BY <3>2, LiteralsAreTyped DEF Calls
    <3>4. PICK d : d = [c EXCEPT !.held = g]
      OBVIOUS
    <3>5. d \in Calls /\ d.held = g
      BY <3>3, <3>4 DEF Calls
    <3>6. call' = d
      BY <1>7, <3>1, <3>2, <3>4 DEF Calls
    <3>7. /\ call' \in Calls /\ call'.held[f].holder \in {call.held[f].holder, Nobody}
          /\ \A e \in Files \ {f} : call'.held[e] = call.held[e]
      BY <3>1, <3>3, <3>5, <3>6
    <3>8. turn' \in Procs \cup {Free}
      BY <2>5, PushTurn
    <3> QED BY <1>1, <1>3, <1>4, <3>7, <3>8 DEF Others
  <2>10. /\ writer[f].pc = "writing" => a.holder # writer[f].holder
         /\ a.committing => a.holder \in put[f].sent
    BY <2>2, <2>4
  <2> QED BY <1>1, <1>5, <1>6, <2>4, <2>5, <2>6, <2>7, <2>8, <2>9, <2>10, PushIsGood
<1>8. PICK h : h = New(f)
  OBVIOUS
<1>9. PICK r : r = Claimed(row[f], h)
  OBVIOUS
<1>10. CASE /\ Claimable(f, t) /\ Mints(f) /\ Push(Attempt(f, h, r, 0), r)
            /\ UNCHANGED call
  <2>1. /\ t = row[f] /\ row[f].phase \in Phases /\ row[f].outcome = "live"
        /\ writer[f].pc = "writing" => tomb /\ writer[f].holder \in alive[f]
    BY <1>1, <1>2, <1>3, <1>10, ClaimIs
  <2>2. /\ h \in Nat /\ minted[f] <= h /\ h \in 1..h
        /\ r \in Rows /\ r.epoch = row[f].epoch + 1 /\ r.phase = row[f].phase
        /\ r.epoch \in Nat /\ r.outcome = "live"
        /\ writer[f].pc = "writing" => h # writer[f].holder
    BY <1>1, <1>2, <1>3, <1>8, <1>9, <1>10, MineIs
  <2>3. PICK a : a = Attempt(f, h, r, 0)
    OBVIOUS
  <2>4. /\ a \in Atts /\ a.file = f /\ a.holder = h /\ a.epoch = r.epoch /\ ~a.committing
    BY <2>2, <2>3 DEF Attempt, Idle, Atts, Waits
  <2>5. Push(a, r)
    BY <1>10, <2>3
  <2>6. minted' = [minted EXCEPT ![f] = h]
    BY <1>1, <1>8, <1>10 DEF Mints, New
  <2>7. Others(f)
    BY <1>1, <1>3, <1>4, <1>10, <2>5, PushTurn DEF Others
  <2>8. Fits(r, put[f])
    <3>1. r.phase = "sealed" /\ put[f].sent = {} /\ r.epoch # 0
      BY <1>3, <1>5, <2>1, <2>2 DEF Fits, Early
    <3> QED BY <2>2, <3>1 DEF Fits, OnNode
  <2>9. /\ writer[f].pc = "writing" => a.holder # writer[f].holder
        /\ a.committing => a.holder \in put[f].sent
        /\ a.epoch <= r.epoch /\ a.holder \in 1..h
        /\ r.phase # "none" /\ r.epoch > row[f].epoch
    BY <1>5, <1>6, <2>2, <2>4
  <2> QED BY <1>6, <2>1, <2>2, <2>4, <2>5, <2>6, <2>7, <2>8, <2>9, PushIsGood
<1> QED BY <1>2, <1>7, <1>8, <1>9, <1>10 DEF PushFile

----------------------------------------------------------------------------
(* The specification.                                                       *)

LEMMA InitIsGood == Init => IInv
<1> SUFFICES ASSUME Init PROVE IInv
  OBVIOUS
<1>1. /\ Idle \in Atts /\ Idle.pc = "idle" /\ NoHandle \in Handles /\ NoHandle.holder = Nobody
      /\ NoTodo \in [Files -> Rows] /\ \A f \in Files : NoTodo[f] = NoRow
      /\ NoRow.phase = "none" /\ NoRow.epoch = 0
  BY LiteralsAreTyped
<1>2. NoRow.outcome = "live" /\ ~NoRow.gaveUp
  BY DEF NoRow
<1>3. PICK e : e = [sent |-> {}, flying |-> {}, taken |-> {}]
  OBVIOUS
<1>4. e \in Puts /\ e.sent = {} /\ put = [f \in Files |-> e]
  BY <1>3 DEF Puts, Init
<1>5. PICK w : w = [pc |-> "none", holder |-> Nobody]
  OBVIOUS
<1>6. w \in Writers /\ w.pc = "none" /\ writer = [f \in Files |-> w]
  BY <1>5 DEF Writers, Init, Nobody
<1>7. PICK k : k = [f \in Files |-> NoHandle]
  OBVIOUS
<1>8. PICK c : c = [pc |-> "run", refs |-> {}, held |-> k, aborted |-> FALSE]
  OBVIOUS
<1>9. k \in [Files -> Handles] /\ c \in Calls /\ call = c /\ c.held = k
  BY <1>1, <1>7, <1>8 DEF Calls, Init
<1>10. TypeOK
  BY <1>1, <1>4, <1>6, <1>9, TypeIs DEF Init
<1>11. ASSUME NEW f \in Files PROVE RowInv(f) /\ WriterInv(f) /\ HeldInv(f)
  <2>1. row[f] = NoRow /\ put[f].sent = {} /\ minted[f] = 0 /\ writer[f].pc = "none"
        /\ call.held[f].holder = Nobody
    BY <1>1, <1>4, <1>6, <1>7, <1>9 DEF Init
  <2> QED BY <1>1, <1>2, <2>1 DEF RowInv, Fits, Early, OnNode, WriterInv, HeldInv, Nobody
<1>12. ASSUME NEW p \in Procs PROVE AttInv(p) /\ \A f \in Files : TodoInv(p, f)
  BY <1>1 DEF Init, AttInv, TodoInv, Read
<1> QED BY <1>10, <1>11, <1>12 DEF IInv

LEMMA StutterIsGood == ASSUME IInv, UNCHANGED vars PROVE Good
<1>1. UNCHANGED <<row, tomb, minted, alive, put, writer, call, loop, todo, att, turn, faults>>
  BY DEF vars
<1>2. turn' \in Procs \cup {Free} /\ todo' \in [Procs -> [Files -> Rows]]
  BY <1>1, TypesAre DEF IInv
<1> QED BY <1>1, <1>2, TodoIsGood

LEMMA NextIsGood == ASSUME IInv, Next PROVE Good
<1>1. CASE \E f \in Files : Produce(f) \/ NodeTakes(f)
  BY <1>1, ReserveIsGood, SealIsGood, SealThrowsIsGood, AbandonWritingIsGood, PublishIsGood,
     ObserveIsGood, NodeTakesIsGood DEF Produce
<1>2. CASE DropSession \/ RetryGivenUp \/ Crash
  BY <1>2, DropSessionIsGood, RetryGivenUpIsGood, CrashIsGood
<1>3. CASE \E p \in Loops : StartWorker(p) \/ StopWorker(p) \/ ListDeliveries(p)
  BY <1>3, WorkerIsGood, ListDeliveriesIsGood
<1>4. CASE \E p \in Loops, f \in Files : Pass(p, f)
  BY <1>4, SkipIsGood, CloseDeadRowIsGood, ResumeUploadIsGood, ResumeWakeIsGood DEF Pass
<1>5. CASE \E p \in Procs : Answered(p) \/ AttemptFails(p)
  BY <1>5, PartAnsweredIsGood, PutResyncedIsGood, FinalAnsweredIsGood, NotifyAnsweredIsGood,
     AttemptFailsIsGood DEF Answered
<1>6. CASE CallThrows \/ CallReturns \/ CallIsCancelled
  BY <1>6, CallThrowsIsGood, CallReturnsIsGood, CallIsCancelledIsGood
<1>7. CASE Selection
  BY <1>7, SkipIsGood, PushFileIsGood, RenewalAnsweredIsGood, CallEndsIsGood DEF Selection
<1> QED BY <1>1, <1>2, <1>3, <1>4, <1>5, <1>6, <1>7 DEF Next

\* The invariant, and the step property it gives, hold of every behaviour.
THEOREM Inductive == Spec => []IInv
<1>1. IInv /\ [Next]_vars => IInv'
  BY NextIsGood, StutterIsGood DEF Good
<1> QED BY <1>1, InitIsGood, PTL DEF Spec

\* Every variable keeps its type: the tables of db-session-deliveries.ts, the
\* holders, and what the writers, the call and the worker loops keep in memory.
THEOREM TypeCorrect == Spec => []TypeOK
<1>1. IInv => TypeOK
  BY DEF IInv
<1> QED BY <1>1, Inductive, PTL

\* At most one attempt ever sends the final put of a file, for any number of
\* files, worker loops, retries, crashes and claims of dead holders' rows: the
\* gate of `beforeFinal` in artifact-transfer.ts.
THEOREM FinalOnce == Spec => []FinalPutOnce
<1>1. IInv => FinalPutOnce
  <2> SUFFICES ASSUME IInv, NEW f \in Files PROVE Cardinality(put[f].sent) <= 1
    BY DEF FinalPutOnce
  <2>1. \A g, h \in put[f].sent : g = h
    BY DEF IInv, RowInv, Fits
  <2>2. CASE put[f].sent = {}
    BY <2>2, FS_EmptySet
  <2>3. CASE put[f].sent # {}
    <3>1. PICK h \in put[f].sent : put[f].sent = {h}
      BY <2>1, <2>3
    <3>2. Cardinality({h}) = 1
      BY FS_Singleton
    <3> QED BY <3>1, <3>2
  <2> QED BY <2>2, <2>3
<1> QED BY <1>1, Inductive, PTL

\* Nobody takes the row of a writer at work, short of the session's end: not
\* the worker's pass, not a claim, not the end of a call (zone-delivery.ts).
THEOREM WriterKeeps == Spec => []WriterKeepsItsRow
<1>1. IInv => WriterKeepsItsRow
  BY DEF IInv, WriterInv, WriterKeepsItsRow
<1> QED BY <1>1, Inductive, PTL

\* Whenever protectionOf says that the node's copy counts, the node has one.
THEOREM CopyIsReal == Spec => []NodeCopyIsReal
<1>1. IInv => NodeCopyIsReal
  <2> SUFFICES ASSUME IInv, NEW f \in Files, Protection(f) = "node-authoritative"
               PROVE  put[f].taken # {}
    BY DEF NodeCopyIsReal
  <2>1. /\ row[f] \in Rows /\ Fits(row[f], put[f])
    BY TypesAre DEF IInv, RowInv
  <2>2. OnNode(row[f])
    BY <2>1 DEF Protection, OnNode, Live, Rows, Phases, Owing
  <2> QED BY <2>1, <2>2 DEF Fits
<1> QED BY <1>1, Inductive, PTL

\* A complete file that is not on the node is abandoned only with its session
\* or by the call that made it, whatever a pass or a selection once read.
THEOREM FileKept == Spec => CompleteFileIsKept
<1>1. IInv /\ [Next]_vars =>
        [\A f \in Files :
           (/\ Live(row[f]) /\ row[f].phase \in Owing \ {"writing"}
            /\ row'[f].outcome = "abandoned")
           => tomb' \/ Owned(row[f], call.held[f])]_vars
  <2> SUFFICES ASSUME IInv, Next
               PROVE  \A f \in Files : Keeps(f)
    BY DEF Keeps
  <2> QED BY NextIsGood DEF Good
<1> QED BY <1>1, Inductive, PTL DEF Spec, CompleteFileIsKept
=============================================================================
