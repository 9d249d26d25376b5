-------------------------- MODULE ControlLeaseProofs --------------------------
(****************************************************************************)
(* Theorems of ControlLease, for any resources, frontends and bounds: the   *)
(* type invariant, one driver per resource, generations that grow, a fence  *)
(* that never reopens, and mutations that land in the order of the grants.  *)
(* They rest on one inductive invariant, FenceInv: what the proofs handed   *)
(* out say of the row of their resource.                                    *)
(****************************************************************************)
EXTENDS ControlLease, TLAPS

\* A proof is as old as its resource's row or older, and names what the row says
\* when it is the row's own.
AsRowSays(p) ==
  LET l == row[p.resource] IN
  /\ p.id <= l.id
  /\ p.epoch <= l.epoch
  /\ p.id = l.id => /\ l.holder = p.frontend.holder /\ l.delegate = p.frontend.delegate
                    /\ l.generation = p.generation /\ l.epoch = p.epoch
  /\ p.epoch = l.epoch => p.generation <= l.generation
  /\ p.epoch = l.epoch /\ p.id < l.id => p.generation < l.generation

RowsAreOld ==
  \A r \in Resources : row[r].id <= granted /\ row[r].epoch <= epoch /\ writer[r] <= row[r].id

FenceInv ==
  /\ RowsAreOld
  /\ \A p \in proofs : AsRowSays(p)
  /\ GenerationsGrow
  /\ pending \subseteq proofs

-----------------------------------------------------------------------------
(* Types.                                                                    *)

\* What the assumptions say of the constants.
LEMMA ConstantTypes ==
  /\ Ttl \in Nat \ {0} /\ MaxGrants \in Nat \ {0} /\ MaxEpoch \in Nat \ {0} /\ MaxTime \in Nat
  /\ \A f \in Frontends : f.holder \in Holders /\ f.delegate \in Delegates /\ f.yields \in {None, ToHolder, ToAny}
  /\ {None, ToHolder, ToAny} \subseteq Nat
BY FrontendsAreActors, BoundsArePositive DEF None, ToHolder, ToAny, Holders, Delegates

\* A new grant is a row, also after its revocation.
LEMMA GrantType ==
  ASSUME TypeOK, NEW r \in Resources, NEW f \in Frontends, granted < MaxGrants
  PROVE  Grant(r, f) \in Rows /\ [Grant(r, f) EXCEPT !.expires = 0] \in Rows
<1>1. granted + 1 \in Ids
  BY ConstantTypes DEF TypeOK, Ids
<1>2. (IF row[r].epoch = epoch THEN row[r].generation + 1 ELSE 1) \in Nat
  BY DEF TypeOK, Rows
<1>3. now + Ttl \in Nat
  BY ConstantTypes DEF TypeOK
<1>4. f.holder \in Holders /\ f.delegate \in Delegates /\ f.yields \in {None, ToHolder, ToAny}
  BY ConstantTypes
<1>5. epoch \in Nat
  BY DEF TypeOK
<1>6. Grant(r, f) \in Rows
  BY <1>1, <1>2, <1>3, <1>4, <1>5 DEF Grant, Rows
<1> QED
  BY <1>6 DEF Rows

\* A renewed grant is a row.
LEMMA ExtendedType ==
  ASSUME TypeOK, NEW r \in Resources, NEW f \in Frontends
  PROVE  Extended(r, f) \in Rows
<1>1. row[r].id \in Ids /\ row[r].generation \in Nat /\ epoch \in Nat
  BY DEF TypeOK, Rows
<1>2. now + Ttl \in Nat
  BY ConstantTypes DEF TypeOK
<1>3. f.holder \in Holders /\ f.delegate \in Delegates /\ f.yields \in {None, ToHolder, ToAny}
  BY ConstantTypes
<1> QED
  BY <1>1, <1>2, <1>3 DEF Extended, Rows

\* What a holder is given is a proof.
LEMMA ProofType ==
  ASSUME NEW r \in Resources, NEW f \in Frontends, NEW l \in Rows
  PROVE  ProofOf(r, f, l) \in Proofs
BY DEF ProofOf, Proofs, Rows

\* acquire and upsert keep the variables they write typed.
LEMMA AcquiredType ==
  ASSUME TypeOK, NEW r \in Resources, NEW f \in Frontends, Acquired(r, f)
  PROVE  /\ row' \in [Resources -> Rows] /\ granted' \in Ids /\ proofs' \subseteq Proofs
         /\ timer' \in [Resources -> Nat] /\ seen' \in [Resources -> Ids]
<1>1. timer' \in [Resources -> Nat]
  BY ConstantTypes DEF Acquired, TypeOK
<1>2. CASE Extends(r, f)
  BY <1>2, <1>1, ExtendedType, ProofType DEF Acquired, TypeOK
<1>3. CASE ~Extends(r, f)
  <2>1. Grant(r, f) \in Rows
    BY <1>3, GrantType DEF Acquired
  <2>2. granted + 1 \in Ids
    BY <1>3, ConstantTypes DEF Acquired, TypeOK, Ids
  <2>3. row' \in [Resources -> Rows] /\ row'[r] \in Rows
    BY <1>3, <2>1 DEF Acquired, TypeOK
  <2> QED
    BY <1>1, <1>3, <2>2, <2>3, ProofType DEF Acquired, TypeOK
<1> QED
  BY <1>2, <1>3

\* So does a revocation of several resources.
LEMMA RevokeAllType ==
  ASSUME TypeOK, NEW R, RevokeAll(R)
  PROVE  /\ row' \in [Resources -> Rows] /\ granted' \in Ids /\ proofs' \subseteq Proofs
         /\ timer' \in [Resources -> Nat] /\ seen' \in [Resources -> Ids]
<1>1. ASSUME NEW r \in Resources
      PROVE  [row[r] EXCEPT !.expires = 0] \in Rows
  BY DEF TypeOK, Rows
<1>2. 0 \in Ids
  BY ConstantTypes DEF Ids
<1> QED
  BY <1>1, <1>2 DEF RevokeAll, Revoked, TypeOK

\* The types hold at the start.
LEMMA TypeInit == Init => TypeOK
<1> SUFFICES ASSUME Init PROVE TypeOK
  OBVIOUS
<1>1. 0 \in Ids
  BY ConstantTypes DEF Ids
<1>2. NoRow \in Rows
  <2>1. "nobody" \in Holders /\ "nobody" \in Delegates
    BY DEF Holders, Delegates
  <2>2. None \in {None, ToHolder, ToAny}
    OBVIOUS
  <2> QED
    BY <1>1, <2>1, <2>2 DEF NoRow, Rows
<1> QED
  BY <1>1, <1>2 DEF Init, TypeOK

\* And every step keeps them.
LEMMA TypeStep == TypeOK /\ [Next]_vars => TypeOK'
<1> SUFFICES ASSUME TypeOK, [Next]_vars PROVE TypeOK'
  OBVIOUS
<1>1. ASSUME NEW f \in Frontends, NEW r \in Resources, NEW reclaim \in BOOLEAN, AcquireControl(f, r, reclaim)
      PROVE  TypeOK'
  BY <1>1, AcquiredType DEF AcquireControl, TypeOK
<1>2. ASSUME NEW f \in Frontends, NEW r \in Resources, AcquireRolledBack(f, r)
      PROVE  TypeOK'
  <2>1. granted + 1 \in Ids /\ 0 \in Ids
    BY <1>2, ConstantTypes DEF AcquireRolledBack, TypeOK, Ids
  <2> QED
    BY <1>2, <2>1, GrantType DEF AcquireRolledBack, TypeOK
<1>3. ASSUME NEW p \in proofs, RenewControl(p)
      PROVE  TypeOK'
  <2>1. p.resource \in Resources /\ now + Ttl \in Nat
    BY ConstantTypes DEF TypeOK, Proofs
  <2>2. [row[p.resource] EXCEPT !.expires = now + Ttl] \in Rows
    BY <2>1 DEF TypeOK, Rows
  <2> QED
    BY <1>3, <2>1, <2>2 DEF RenewControl, TypeOK
<1>4. ASSUME NEW p \in proofs, ReleaseLease(p)
      PROVE  TypeOK'
  BY <1>4, RevokeAllType DEF ReleaseLease, TypeOK
<1>5. ASSUME NEW p \in proofs, Mutate(p) \/ BeginMutation(p) \/ FinishMutation(p)
      PROVE  TypeOK'
  <2>1. p \in Proofs /\ p.id \in Ids
    BY DEF TypeOK, Proofs
  <2> QED
    BY <1>5, <2>1 DEF Mutate, BeginMutation, FinishMutation, leaseVars, TypeOK
<1>6. ASSUME NEW r \in Resources, Revoke(r) \/ TakeFromController(r)
      PROVE  TypeOK'
  BY <1>6, RevokeAllType DEF Revoke, TakeFromController, TypeOK
<1>7. ASSUME NEW h, RevokeHolder(h)
      PROVE  TypeOK'
  BY <1>7, RevokeAllType DEF RevokeHolder, TypeOK
<1>8. ASSUME NEW r \in Resources, ExpiryFires(r)
      PROVE  TypeOK'
  BY <1>8, ConstantTypes DEF ExpiryFires, TypeOK, Ids
<1>9. CASE Restart
  BY <1>9, ConstantTypes DEF Restart, TypeOK, Ids
<1>10. CASE Tick
  BY <1>10 DEF Tick, leaseVars, writeVars, TypeOK
<1>11. CASE UNCHANGED vars
  BY <1>11 DEF vars, TypeOK
<1> QED
  BY <1>1, <1>2, <1>3, <1>4, <1>5, <1>6, <1>7, <1>8, <1>9, <1>10, <1>11
  DEF Next, ClientStep, HostStep

\* Every variable keeps its type: rows, proofs and pending calls stay within the
\* bounds of ids, and each expiry and announcement is a time and an id.
THEOREM TypeCorrect == Spec => []TypeOK
BY TypeInit, TypeStep, PTL DEF Spec

-----------------------------------------------------------------------------
(* The fence.                                                                *)

\* Nothing but expiries change in the rows.
GrantsStand ==
  /\ proofs' = proofs /\ granted' = granted
  /\ \A r \in Resources :
       /\ row'[r].id = row[r].id /\ row'[r].holder = row[r].holder /\ row'[r].delegate = row[r].delegate
       /\ row'[r].generation = row[r].generation /\ row'[r].epoch = row[r].epoch

\* The row of r is replaced by a grant of f, whose proof is handed out or lost.
Regranted(r, f) ==
  /\ granted' = granted + 1
  /\ row' \in [Resources -> Rows]
  /\ \A q \in Resources \ {r} : row'[q] = row[q]
  /\ LET g == Grant(r, f) IN
       /\ row'[r].id = g.id /\ row'[r].holder = g.holder /\ row'[r].delegate = g.delegate
       /\ row'[r].generation = g.generation /\ row'[r].epoch = g.epoch
  /\ proofs' \in {proofs, proofs \cup {ProofOf(r, f, row'[r])}}

\* The fields of a proof are numbers, resources and frontends.
LEMMA ProofFields ==
  ASSUME TypeOK, NEW p \in proofs
  PROVE  /\ p \in Proofs /\ p.resource \in Resources /\ p.frontend \in Frontends
         /\ p.id \in Nat /\ p.generation \in Nat /\ p.epoch \in Nat
BY ConstantTypes DEF TypeOK, Proofs, Ids

\* The fields of a row are numbers.
LEMMA RowFields ==
  ASSUME TypeOK, NEW r \in Resources
  PROVE  /\ row[r].id \in Nat /\ row[r].generation \in Nat /\ row[r].epoch \in Nat
         /\ row[r].expires \in Nat /\ writer[r] \in Nat /\ granted \in Nat /\ epoch \in Nat
BY ConstantTypes DEF TypeOK, Rows, Ids

\* A step that gives no new grant keeps the fence.
LEMMA FenceStands ==
  ASSUME TypeOK, FenceInv, GrantsStand, epoch' \in Nat, epoch' >= epoch, pending' \subseteq proofs,
         \A r \in Resources : writer'[r] <= row[r].id
  PROVE  FenceInv'
<1>1. RowsAreOld'
  BY RowFields DEF FenceInv, RowsAreOld, GrantsStand
<1>2. ASSUME NEW p \in proofs
      PROVE  AsRowSays(p)'
  BY ProofFields DEF FenceInv, AsRowSays, GrantsStand
<1>3. GenerationsGrow'
  BY DEF FenceInv, GenerationsGrow, GrantsStand
<1> QED
  BY <1>1, <1>2, <1>3 DEF FenceInv, GrantsStand

\* A new grant keeps it too: its id is above every proof handed out.
LEMMA FenceRegranted ==
  ASSUME TypeOK, FenceInv, NEW r \in Resources, NEW f \in Frontends, Regranted(r, f),
         epoch' = epoch, pending' = pending, writer' = writer
  PROVE  FenceInv'
<1>0. PICK n : n = ProofOf(r, f, row'[r])
  OBVIOUS
<1>1. /\ row'[r].id = granted + 1 /\ row'[r].epoch = epoch
      /\ row'[r].holder = f.holder /\ row'[r].delegate = f.delegate
      /\ row[r].epoch = epoch => row'[r].generation = row[r].generation + 1
      /\ granted' = granted + 1
  BY DEF Regranted, Grant
<1>2. RowsAreOld'
  BY <1>1, RowFields DEF FenceInv, RowsAreOld, Regranted
<1>3. ASSUME NEW p \in proofs
      PROVE  /\ AsRowSays(p)' /\ p.id <= granted
             /\ p.resource = r /\ p.epoch = epoch => p.generation < row'[r].generation
  <2>1. p.id <= granted /\ p.epoch <= row[p.resource].epoch /\ row[p.resource].epoch <= epoch
        /\ row[p.resource].id <= granted
    BY ProofFields, RowFields DEF FenceInv, AsRowSays, RowsAreOld
  <2>2. CASE p.resource # r
    BY <2>1, <2>2, ProofFields DEF FenceInv, AsRowSays, Regranted
  <2>3. CASE p.resource = r
    <3>1. p.id < row'[r].id /\ p.epoch <= row'[r].epoch
      BY <1>1, <2>1, <2>3, ProofFields, RowFields
    <3>2. ASSUME p.epoch = epoch
          PROVE  p.generation < row'[r].generation
      <4>1. row[r].epoch = epoch
        BY <2>1, <2>3, <3>2, ProofFields, RowFields
      <4>2. p.generation <= row[r].generation
        BY <4>1, <2>3, <3>2 DEF FenceInv, AsRowSays
      <4> QED
        BY <1>1, <4>1, <4>2, ProofFields, RowFields
    <3>3. row'[r].generation \in Nat
      BY DEF Regranted, Rows
    <3> QED
      BY <1>1, <2>1, <2>3, <3>1, <3>2, <3>3, ProofFields, RowFields DEF AsRowSays
  <2> QED
    BY <2>2, <2>3
<1>4. n.resource = r /\ n.frontend = f /\ n.id = granted + 1 /\ n.epoch = epoch /\ n.generation = row'[r].generation
  BY <1>0, <1>1 DEF ProofOf
<1>5. AsRowSays(n)'
  <2>1. row'[r].id \in Nat /\ row'[r].generation \in Nat /\ row'[r].epoch \in Nat
    BY ConstantTypes DEF Regranted, Rows, Ids
  <2> QED
    BY <1>1, <1>4, <2>1, RowFields DEF AsRowSays
<1>6. GenerationsGrow'
  <2> SUFFICES ASSUME NEW p \in proofs', NEW q \in proofs',
                      p.resource = q.resource, p.epoch = q.epoch, p.id < q.id
               PROVE  p.generation < q.generation
    BY DEF GenerationsGrow
  <2>1. CASE p \in proofs /\ q \in proofs
    BY <2>1 DEF FenceInv, GenerationsGrow
  <2>2. CASE p \in proofs /\ q = n
    BY <2>2, <1>3, <1>4
  <2>3. CASE p = n
    <3>1. q = n \/ q \in proofs
      BY <1>0 DEF Regranted
    <3>2. CASE q \in proofs
      BY <2>3, <3>2, <1>3, <1>4, ProofFields, RowFields
    <3>3. CASE q = n
      BY <2>3, <3>3, <1>4, RowFields
    <3> QED
      BY <3>1, <3>2, <3>3
  <2> QED
    BY <1>0, <2>1, <2>2, <2>3 DEF Regranted
<1> QED
  BY <1>0, <1>2, <1>3, <1>5, <1>6 DEF FenceInv, Regranted

\* An acquire by the holder of the live lease hands out a proof of it again.
LEMMA FenceExtended ==
  ASSUME TypeOK, FenceInv, NEW r \in Resources, NEW f \in Frontends, Extends(r, f),
         row' = [row EXCEPT ![r] = Extended(r, f)], granted' = granted,
         proofs' = proofs \cup {ProofOf(r, f, row'[r])},
         epoch' = epoch, pending' = pending, writer' = writer
  PROVE  FenceInv'
<1>0. PICK n : n = ProofOf(r, f, row'[r])
  OBVIOUS
<1>1. /\ row'[r].id = row[r].id /\ row'[r].holder = row[r].holder /\ row'[r].delegate = row[r].delegate
      /\ row'[r].generation = row[r].generation /\ row'[r].epoch = row[r].epoch
      /\ row[r].epoch = epoch /\ row[r].holder = f.holder /\ row[r].delegate = f.delegate
  BY DEF Extends, Live, Extended, TypeOK
<1>2. \A q \in Resources \ {r} : row'[q] = row[q]
  BY DEF TypeOK
<1>3. n.resource = r /\ n.frontend = f /\ n.id = row[r].id /\ n.epoch = epoch /\ n.generation = row[r].generation
  BY <1>0, <1>1 DEF ProofOf
<1>4. RowsAreOld'
  BY <1>1, <1>2 DEF FenceInv, RowsAreOld
<1>5. ASSUME NEW p \in proofs
      PROVE  AsRowSays(p)'
  <2>1. CASE p.resource = r
    BY <2>1, <1>1 DEF FenceInv, AsRowSays
  <2>2. CASE p.resource # r
    BY <2>2, <1>2, ProofFields DEF FenceInv, AsRowSays
  <2> QED
    BY <2>1, <2>2
<1>6. AsRowSays(n)'
  BY <1>1, <1>3, RowFields DEF AsRowSays
<1>7. GenerationsGrow'
  <2> SUFFICES ASSUME NEW p \in proofs', NEW q \in proofs',
                      p.resource = q.resource, p.epoch = q.epoch, p.id < q.id
               PROVE  p.generation < q.generation
    BY DEF GenerationsGrow
  <2>1. CASE p \in proofs /\ q \in proofs
    BY <2>1 DEF FenceInv, GenerationsGrow
  <2>2. CASE p \in proofs /\ q = n
    BY <2>2, <1>1, <1>3 DEF FenceInv, AsRowSays
  <2>3. CASE p = n /\ q \in proofs
    BY <2>3, <1>3, ProofFields, RowFields DEF FenceInv, AsRowSays
  <2>4. CASE p = n /\ q = n
    BY <2>4, <1>3, RowFields
  <2> QED
    BY <1>0, <2>1, <2>2, <2>3, <2>4
<1> QED
  BY <1>0, <1>4, <1>5, <1>6, <1>7 DEF FenceInv

\* A revocation gives no new grant.
LEMMA RevokedStands ==
  ASSUME TypeOK, NEW R, RevokeAll(R)
  PROVE  GrantsStand
BY DEF RevokeAll, Revoked, GrantsStand, TypeOK, Rows

\* The fence stands at the start.
LEMMA FenceInit == Init => FenceInv
BY DEF Init, FenceInv, RowsAreOld, GenerationsGrow, NoRow

\* A proof that passes its check is its row's own.
LEMMA ValidIsNewest ==
  ASSUME TypeOK, NEW p \in proofs, Valid(p)
  PROVE  p.id = row[p.resource].id
BY DEF Valid

\* And after every step.
LEMMA FenceStep == TypeOK /\ FenceInv /\ [Next]_vars => FenceInv'
<1> SUFFICES ASSUME TypeOK, FenceInv, [Next]_vars PROVE FenceInv'
  OBVIOUS
<1>0. /\ epoch \in Nat /\ epoch + 1 >= epoch /\ epoch >= epoch
      /\ pending \subseteq proofs /\ \A r \in Resources : writer[r] <= row[r].id
  BY DEF TypeOK, FenceInv, RowsAreOld
<1>1. ASSUME NEW f \in Frontends, NEW r \in Resources, NEW reclaim \in BOOLEAN, AcquireControl(f, r, reclaim)
      PROVE  FenceInv'
  <2>1. CASE Extends(r, f)
    BY <1>1, <2>1, FenceExtended DEF AcquireControl, Acquired
  <2>2. CASE ~Extends(r, f)
    <3>1. Grant(r, f) \in Rows
      BY <1>1, <2>2, GrantType DEF AcquireControl, Acquired
    <3>2. Regranted(r, f)
      BY <1>1, <2>2, <3>1 DEF AcquireControl, Acquired, Regranted, TypeOK
    <3> QED
      BY <1>1, <3>2, FenceRegranted DEF AcquireControl
  <2> QED
    BY <2>1, <2>2
<1>2. ASSUME NEW f \in Frontends, NEW r \in Resources, AcquireRolledBack(f, r)
      PROVE  FenceInv'
  <2>1. Grant(r, f) \in Rows /\ [Grant(r, f) EXCEPT !.expires = 0] \in Rows
    BY <1>2, GrantType DEF AcquireRolledBack
  <2>2. LET g == [Grant(r, f) EXCEPT !.expires = 0] IN
        /\ g.id = Grant(r, f).id /\ g.holder = Grant(r, f).holder /\ g.delegate = Grant(r, f).delegate
        /\ g.generation = Grant(r, f).generation /\ g.epoch = Grant(r, f).epoch
    BY DEF Grant
  <2>3. Regranted(r, f)
    BY <1>2, <2>1, <2>2 DEF AcquireRolledBack, Regranted, TypeOK
  <2> QED
    BY <1>2, <2>3, FenceRegranted DEF AcquireRolledBack
<1>3. ASSUME NEW p \in proofs, RenewControl(p)
      PROVE  FenceInv'
  <2>1. GrantsStand
    BY <1>3 DEF RenewControl, GrantsStand, TypeOK, Rows
  <2> QED
    BY <1>0, <1>3, <2>1, FenceStands DEF RenewControl
<1>4. ASSUME NEW p \in proofs, ReleaseLease(p)
      PROVE  FenceInv'
  BY <1>0, <1>4, RevokedStands, FenceStands DEF ReleaseLease
<1>5. ASSUME NEW p \in proofs, Mutate(p) \/ BeginMutation(p) \/ FinishMutation(p)
      PROVE  FenceInv'
  <2>1. GrantsStand /\ epoch' = epoch
    BY <1>5 DEF Mutate, BeginMutation, FinishMutation, leaseVars, GrantsStand
  <2>2. pending' \subseteq proofs
    BY <1>0, <1>5 DEF Mutate, BeginMutation, FinishMutation
  <2>3. ASSUME NEW r \in Resources
        PROVE  writer'[r] <= row[r].id
    <3>1. writer' = writer \/ (Valid(p) /\ writer' = [writer EXCEPT ![p.resource] = p.id])
      BY <1>5 DEF Mutate, BeginMutation, FinishMutation
    <3> QED
      BY <1>0, <3>1, ValidIsNewest, RowFields, ProofFields DEF TypeOK
  <2> QED
    BY <1>0, <2>1, <2>2, <2>3, FenceStands
<1>6. ASSUME NEW r \in Resources, Revoke(r) \/ TakeFromController(r)
      PROVE  FenceInv'
  BY <1>0, <1>6, RevokedStands, FenceStands DEF Revoke, TakeFromController
<1>7. ASSUME NEW h, RevokeHolder(h)
      PROVE  FenceInv'
  BY <1>0, <1>7, RevokedStands, FenceStands DEF RevokeHolder
<1>8. ASSUME NEW r \in Resources, ExpiryFires(r)
      PROVE  FenceInv'
  <2>1. GrantsStand
    BY <1>8 DEF ExpiryFires, GrantsStand
  <2> QED
    BY <1>0, <1>8, <2>1, FenceStands DEF ExpiryFires
<1>9. CASE Restart
  <2>1. GrantsStand
    BY <1>9 DEF Restart, GrantsStand
  <2> QED
    BY <1>0, <1>9, <2>1, FenceStands DEF Restart
<1>10. CASE Tick \/ UNCHANGED vars
  <2>1. GrantsStand /\ UNCHANGED <<epoch, pending, writer>>
    BY <1>10 DEF Tick, vars, leaseVars, writeVars, GrantsStand
  <2> QED
    BY <1>0, <2>1, FenceStands
<1> QED
  BY <1>1, <1>2, <1>3, <1>4, <1>5, <1>6, <1>7, <1>8, <1>9, <1>10 DEF Next, ClientStep, HostStep

\* The rows and the proofs handed out agree in every reachable state, and with
\* them the generations of a resource grow with each grant of an epoch.
THEOREM GrantsOrdered == Spec => [](FenceInv /\ GenerationsGrow)
<1>1. FenceInv => GenerationsGrow
  BY DEF FenceInv
<1> QED
  BY <1>1, TypeInit, TypeStep, FenceInit, FenceStep, PTL DEF Spec

\* Whatever is granted, renewed, taken over, revoked or restarted, two frontends
\* never both pass the check on one resource.
THEOREM SingleDriver == Spec => []OneDriver
<1>1. TypeOK /\ FenceInv => OneDriver
  <2> SUFFICES ASSUME TypeOK, FenceInv, NEW p \in proofs, NEW q \in proofs,
                      p.resource = q.resource, Valid(p), Valid(q)
               PROVE  p.frontend = q.frontend
    BY DEF OneDriver
  <2>1. /\ row[p.resource].holder = p.frontend.holder /\ row[p.resource].delegate = p.frontend.delegate
        /\ row[p.resource].holder = q.frontend.holder /\ row[p.resource].delegate = q.frontend.delegate
    BY ValidIsNewest DEF FenceInv, AsRowSays
  <2> QED
    BY <2>1, ProofFields, FrontendsAreActors
<1> QED
  BY <1>1, TypeInit, TypeStep, FenceInit, FenceStep, PTL DEF Spec

-----------------------------------------------------------------------------
(* Action properties.                                                        *)

\* A proof that fails its check fails it after any step.
LEMMA StaysFenced ==
  ASSUME TypeOK, FenceInv, [Next]_vars, NEW p \in proofs, Valid(p)'
  PROVE  Valid(p)
<1> DEFINE l == row[p.resource]
<1>1. p.resource \in Resources /\ p.id <= l.id /\ l.id <= granted /\ l.epoch <= epoch /\ epoch \in Nat
      /\ l.id \in Nat /\ l.epoch \in Nat /\ l.expires \in Nat /\ granted \in Nat /\ p.id \in Nat /\ now \in Nat
  <2>1. now \in Nat
    BY DEF TypeOK
  <2> QED
    BY <2>1, ProofFields, RowFields DEF FenceInv, AsRowSays, RowsAreOld
\* A row that is left as it is, or was live and keeps all but its expiry, opens no proof.
<1>2. ASSUME epoch' = epoch, now' \in Nat, now' >= now, row'[p.resource] = l
      PROVE  Valid(p)
  BY <1>1, <1>2 DEF Valid
<1>3. ASSUME epoch' = epoch, GrantsStand, l.expires > now
      PROVE  Valid(p)
  BY <1>1, <1>3 DEF Valid, GrantsStand
<1>4. ASSUME NEW R, RevokeAll(R), UNCHANGED <<now, epoch>>
      PROVE  Valid(p)
  <2>1. CASE p.resource \in R
    <3>1. row'[p.resource].expires = 0
      BY <1>1, <1>4, <2>1 DEF RevokeAll, Revoked, TypeOK, Rows
    <3> QED
      BY <1>1, <1>4, <3>1 DEF Valid
  <2>2. CASE p.resource \notin R
    BY <1>1, <1>2, <1>4, <2>2 DEF RevokeAll, Revoked
  <2> QED
    BY <2>1, <2>2
<1>5. ASSUME NEW f \in Frontends, NEW r \in Resources, NEW reclaim \in BOOLEAN, AcquireControl(f, r, reclaim)
      PROVE  Valid(p)
  <2>1. CASE p.resource # r
    BY <1>1, <1>2, <1>5, <2>1 DEF AcquireControl, Acquired, TypeOK
  <2>2. CASE p.resource = r /\ Extends(r, f)
    <3>1. /\ row'[r].id = l.id /\ row'[r].holder = l.holder /\ row'[r].delegate = l.delegate
          /\ row'[r].generation = l.generation /\ row'[r].epoch = l.epoch /\ l.expires > now
      BY <1>5, <2>2 DEF AcquireControl, Acquired, Extends, Extended, Live, TypeOK
    <3> QED
      BY <1>1, <1>5, <2>2, <3>1 DEF Valid, AcquireControl
  <2>3. CASE p.resource = r /\ ~Extends(r, f)
    <3>1. row'[r].id = granted + 1
      BY <1>5, <2>3 DEF AcquireControl, Acquired, Grant, TypeOK
    <3> QED
      BY <1>1, <2>3, <3>1 DEF Valid
  <2> QED
    BY <2>1, <2>2, <2>3
<1>6. ASSUME NEW f \in Frontends, NEW r \in Resources, AcquireRolledBack(f, r)
      PROVE  Valid(p)
  <2>1. CASE p.resource # r
    BY <1>1, <1>2, <1>6, <2>1 DEF AcquireRolledBack, TypeOK
  <2>2. CASE p.resource = r
    <3>1. row'[r].id = granted + 1
      BY <1>6 DEF AcquireRolledBack, Grant, TypeOK
    <3> QED
      BY <1>1, <2>2, <3>1 DEF Valid
  <2> QED
    BY <2>1, <2>2
<1>7. ASSUME NEW q \in proofs, RenewControl(q)
      PROVE  Valid(p)
  <2>1. CASE p.resource # q.resource
    BY <1>1, <1>2, <1>7, <2>1, ProofFields DEF RenewControl, TypeOK
  <2>2. CASE p.resource = q.resource
    <3>1. GrantsStand
      BY <1>7 DEF RenewControl, GrantsStand, TypeOK, Rows
    <3>2. l.expires > now
      BY <1>7, <2>2 DEF RenewControl, Valid
    <3> QED
      BY <1>3, <1>7, <3>1, <3>2 DEF RenewControl
  <2> QED
    BY <2>1, <2>2
<1>8. ASSUME NEW q \in proofs, Mutate(q) \/ BeginMutation(q) \/ FinishMutation(q)
      PROVE  Valid(p)
  BY <1>1, <1>2, <1>8 DEF Mutate, BeginMutation, FinishMutation, leaseVars
<1>9. ASSUME NEW r \in Resources, ExpiryFires(r)
      PROVE  Valid(p)
  BY <1>1, <1>2, <1>9 DEF ExpiryFires
<1>10. CASE Restart
  BY <1>1, <1>10 DEF Restart, Valid
<1>11. CASE Tick \/ UNCHANGED vars
  BY <1>1, <1>2, <1>11 DEF Tick, vars, leaseVars
<1>12. ASSUME NEW q \in proofs, ReleaseLease(q)
       PROVE  Valid(p)
  BY <1>4, <1>12 DEF ReleaseLease
<1>13. ASSUME NEW r \in Resources, Revoke(r) \/ TakeFromController(r)
       PROVE  Valid(p)
  BY <1>4, <1>13 DEF Revoke, TakeFromController
<1>14. ASSUME NEW h, RevokeHolder(h)
       PROVE  Valid(p)
  BY <1>4, <1>14 DEF RevokeHolder
<1> QED
  BY <1>5, <1>6, <1>7, <1>8, <1>9, <1>10, <1>11, <1>12, <1>13, <1>14 DEF Next, ClientStep, HostStep

\* A fenced client stays fenced: no step of anyone makes a proof pass its check
\* again after it failed.
THEOREM FenceNeverReopens == Spec => FencedForever
<1>1. TypeOK /\ FenceInv /\ [Next]_vars => [\A p \in proofs : ~Valid(p) => ~Valid(p)']_vars
  BY StaysFenced
<1> QED
  BY <1>1, TypeInit, TypeStep, FenceInit, FenceStep, PTL DEF Spec, FencedForever

\* The effects of mutations land in the order of the grants they were made under,
\* although each may wait between its check and its effect.
THEOREM OrderedWrites == Spec => WritesInGrantOrder
<1>1. TypeOK /\ FenceInv /\ [Next]_vars => [\A r \in Resources : writer'[r] >= writer[r]]_vars
  <2> SUFFICES ASSUME TypeOK, FenceInv, [Next]_vars, NEW r \in Resources
               PROVE  writer'[r] >= writer[r]
    OBVIOUS
  <2>1. writer[r] \in Nat /\ writer[r] <= row[r].id /\ row[r].id \in Nat
    BY RowFields DEF FenceInv, RowsAreOld
  <2>2. ASSUME NEW p \in proofs, Valid(p), writer' = [writer EXCEPT ![p.resource] = p.id]
        PROVE  writer'[r] >= writer[r]
    BY <2>1, <2>2, ValidIsNewest, ProofFields DEF TypeOK
  <2>3. writer' = writer \/ \E p \in proofs : Valid(p) /\ writer' = [writer EXCEPT ![p.resource] = p.id]
    BY DEF Next, ClientStep, HostStep, AcquireControl, AcquireRolledBack, RenewControl, ReleaseLease, Mutate,
           BeginMutation, FinishMutation, Revoke, TakeFromController, ExpiryFires, RevokeHolder, Restart, Tick,
           writeVars, vars
  <2> QED
    BY <2>1, <2>2, <2>3
<1> QED
  BY <1>1, TypeInit, TypeStep, FenceInit, FenceStep, PTL DEF Spec, WritesInGrantOrder

-----------------------------------------------------------------------------
(* Take-backs and observers.  Both are inductive on top of the fence, which  *)
(* gives that no row is of a later epoch than the process: a restart leaves  *)
(* no lease live.                                                            *)

\* A lease that is live after a revocation was live before and was spared.
LEMMA LiveAfterRevocation ==
  ASSUME TypeOK, NEW R, RevokeAll(R), UNCHANGED <<now, epoch>>, NEW r \in Resources, Live(r)'
  PROVE  r \notin R /\ Live(r) /\ row'[r] = row[r] /\ timer'[r] = timer[r] /\ seen'[r] = seen[r]
<1>1. now \in Nat
  BY DEF TypeOK
<1>2. CASE r \in R
  <2>1. row'[r].expires = 0
    BY <1>2 DEF RevokeAll, Revoked, TypeOK, Rows
  <2> QED BY <1>1, <2>1 DEF Live
<1>3. CASE r \notin R
  <2>1. row'[r] = row[r] /\ timer'[r] = timer[r] /\ seen'[r] = seen[r]
    BY <1>3 DEF RevokeAll, Revoked
  <2> QED BY <1>3, <2>1 DEF Live
<1> QED BY <1>2, <1>3

\* Where a lease that is live after a step comes from: it was left or renewed as
\* it stood, or this step granted or extended it for a frontend.
LeftLive(r) ==
  /\ Live(r) /\ row'[r] = row[r] /\ timer'[r] = timer[r] /\ seen'[r] = seen[r]
  /\ released'[r] = released[r]

RenewedLive(r) ==
  /\ Live(r) /\ row'[r].holder = row[r].holder /\ row'[r].id = row[r].id /\ seen'[r] = seen[r]
  /\ timer'[r] = row'[r].expires /\ released'[r] = released[r]

AcquiredLive(r) ==
  /\ timer'[r] = row'[r].expires
  /\ \/ Live(r) /\ row'[r].id = row[r].id /\ seen'[r] = seen[r]
     \/ seen'[r] = row'[r].id
  /\ released'[r] => row'[r].holder = Desk

\* Every lease that is live after a step came about in one of these ways.
LEMMA LiveAfterStep ==
  ASSUME TypeOK, FenceInv, ObserversKnowTheLease, [Next]_vars, NEW r \in Resources, Live(r)'
  PROVE  LeftLive(r) \/ RenewedLive(r) \/ AcquiredLive(r)
<1>0. /\ row[r] \in Rows /\ row[r].epoch <= epoch /\ row[r].epoch \in Nat /\ row[r].expires \in Nat
      /\ epoch \in Nat /\ now \in Nat
  <2>1. row[r] \in Rows /\ now \in Nat
    BY DEF TypeOK
  <2> QED BY <2>1, RowFields DEF FenceInv, RowsAreOld
<1>1. ASSUME NEW f \in Frontends, NEW s \in Resources, NEW reclaim \in BOOLEAN,
             AcquireControl(f, s, reclaim)
      PROVE  LeftLive(r) \/ AcquiredLive(r)
  <2>1. CASE r # s
    <3>1. row'[r] = row[r] /\ timer'[r] = timer[r] /\ seen'[r] = seen[r] /\ released'[r] = released[r]
      BY <1>1, <2>1 DEF AcquireControl, Acquired, TypeOK
    <3> QED BY <1>1, <3>1 DEF LeftLive, Live, AcquireControl
  <2>2. CASE r = s
    <3>1. timer'[r] = now + Ttl /\ (released'[r] => ~IsController(f))
      BY <1>1, <2>2 DEF AcquireControl, Acquired, TypeOK
    <3>2. ~IsController(f) => f.holder = Desk
      <4>1. f.kind \in Kinds /\ (f.kind \in {"window", "phone"} => f.holder = Desk)
        BY FrontendsAreActors
      <4> QED BY <4>1 DEF IsController, Kinds
    <3>3. CASE Extends(r, f)
      <4>1. row'[r] = Extended(r, f) /\ seen' = seen
        BY <1>1, <2>2, <3>3 DEF AcquireControl, Acquired, TypeOK
      <4>2. row'[r].holder = f.holder /\ row'[r].id = row[r].id /\ row'[r].expires = now + Ttl
        BY <4>1 DEF Extended
      <4>3. Live(r)
        BY <3>3 DEF Extends
      <4> QED BY <3>1, <3>2, <4>1, <4>2, <4>3 DEF AcquiredLive
    <3>4. CASE ~Extends(r, f)
      <4>1. row'[r] = Grant(r, f) /\ seen'[r] = granted + 1
        BY <1>1, <2>2, <3>4 DEF AcquireControl, Acquired, TypeOK
      <4>2. row'[r].holder = f.holder /\ row'[r].id = granted + 1 /\ row'[r].expires = now + Ttl
        BY <4>1 DEF Grant
      <4> QED BY <3>1, <3>2, <4>1, <4>2 DEF AcquiredLive
    <3> QED BY <3>3, <3>4
  <2> QED BY <2>1, <2>2
<1>2. ASSUME NEW f \in Frontends, NEW s \in Resources, AcquireRolledBack(f, s)
      PROVE  LeftLive(r)
  <2>1. r # s
    <3>1. r = s => row'[r].expires = 0 /\ now' = now
      BY <1>2 DEF AcquireRolledBack, Grant, TypeOK
    <3> QED BY <1>0, <3>1 DEF Live
  <2>2. row'[r] = row[r] /\ timer'[r] = timer[r] /\ seen'[r] = seen[r]
    BY <1>2, <2>1 DEF AcquireRolledBack, TypeOK
  <2> QED BY <1>2, <2>2 DEF LeftLive, Live, AcquireRolledBack
<1>3. ASSUME NEW p \in proofs, RenewControl(p)
      PROVE  LeftLive(r) \/ RenewedLive(r)
  <2>1. CASE r # p.resource
    <3>1. row'[r] = row[r] /\ timer'[r] = timer[r]
      BY <1>3, <2>1, ProofFields DEF RenewControl, TypeOK
    <3> QED BY <1>3, <3>1 DEF LeftLive, Live, RenewControl
  <2>2. CASE r = p.resource
    <3>1. /\ row'[r].holder = row[r].holder /\ row'[r].id = row[r].id
          /\ row'[r].expires = now + Ttl /\ timer'[r] = now + Ttl
      BY <1>0, <1>3, <2>2 DEF RenewControl, TypeOK, Rows
    <3>2. Live(r)
      BY <1>3, <2>2 DEF RenewControl, Valid, Live
    <3> QED BY <1>3, <3>1, <3>2 DEF RenewedLive, RenewControl
  <2> QED BY <2>1, <2>2
<1>4. ASSUME NEW p \in proofs, ReleaseLease(p) PROVE LeftLive(r)
  BY <1>4, LiveAfterRevocation DEF ReleaseLease, LeftLive
<1>5. ASSUME NEW p \in proofs, Mutate(p) \/ BeginMutation(p) \/ FinishMutation(p) PROVE LeftLive(r)
  BY <1>5 DEF Mutate, BeginMutation, FinishMutation, leaseVars, LeftLive, Live
<1>6. ASSUME NEW s \in Resources, Revoke(s) PROVE LeftLive(r)
  BY <1>6, LiveAfterRevocation DEF Revoke, LeftLive
<1>7. ASSUME NEW s \in Resources, TakeFromController(s) PROVE LeftLive(r)
  <2>1. r # s /\ Live(r) /\ row'[r] = row[r] /\ timer'[r] = timer[r] /\ seen'[r] = seen[r]
    BY <1>7, LiveAfterRevocation DEF TakeFromController
  <2> QED BY <1>7, <2>1 DEF TakeFromController, LeftLive, TypeOK
<1>8. ASSUME NEW h, RevokeHolder(h) PROVE LeftLive(r)
  BY <1>8, LiveAfterRevocation DEF RevokeHolder, LeftLive
<1>9. ASSUME NEW s \in Resources, ExpiryFires(s) PROVE LeftLive(r)
  <2>1. Live(r) /\ row'[r] = row[r]
    BY <1>9 DEF ExpiryFires, Live
  <2>2. r # s
    <3>1. timer[r] = row[r].expires /\ row[r].expires > now
      BY <2>1 DEF ObserversKnowTheLease, Live
    <3> QED BY <1>0, <1>9, <3>1 DEF ExpiryFires
  <2> QED BY <1>9, <2>1, <2>2 DEF ExpiryFires, LeftLive, TypeOK
<1>10. ~Restart
  BY <1>0 DEF Restart, Live
<1>11. CASE Tick
  BY <1>0, <1>11 DEF Tick, leaseVars, LeftLive, Live
<1>12. CASE UNCHANGED vars
  BY <1>12 DEF vars, LeftLive, Live
<1> QED
  BY <1>1, <1>2, <1>3, <1>4, <1>5, <1>6, <1>7, <1>8, <1>9, <1>10, <1>11, <1>12
  DEF Next, ClientStep, HostStep

\* Observers know the live lease of every resource and when it ends, whatever
\* was granted, renewed, revoked, announced or restarted in between.
THEOREM ObserversKnow == Spec => []ObserversKnowTheLease
<1>1. Init => ObserversKnowTheLease
  BY DEF Init, NoRow, ObserversKnowTheLease, Live
<1>2. TypeOK /\ FenceInv /\ ObserversKnowTheLease /\ [Next]_vars => ObserversKnowTheLease'
  BY LiveAfterStep DEF ObserversKnowTheLease, LeftLive, RenewedLive, AcquiredLive
<1> QED
  BY <1>1, <1>2, TypeInit, TypeStep, FenceInit, FenceStep, PTL DEF Spec

\* A session its desktop's user took back stays with the desktop's own windows
\* and phones until a controller reclaims it.
THEOREM TakeBackHolds == Spec => []TakenBackStaysBack
<1>1. Init => TakenBackStaysBack
  BY DEF Init, TakenBackStaysBack
<1>2. /\ TypeOK /\ FenceInv /\ ObserversKnowTheLease /\ TakenBackStaysBack /\ [Next]_vars
      => TakenBackStaysBack'
  BY LiveAfterStep DEF TakenBackStaysBack, LeftLive, RenewedLive, AcquiredLive
<1> QED
  BY <1>1, <1>2, ObserversKnow, TypeInit, TypeStep, FenceInit, FenceStep, PTL DEF Spec

=============================================================================
