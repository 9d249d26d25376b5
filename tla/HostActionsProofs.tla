-------------------------- MODULE HostActionsProofs --------------------------
(* Theorems about HostActions for every value of its constants.             *)
EXTENDS HostActions, FiniteSetTheorems, TLAPS

-----------------------------------------------------------------------------
(* Types of the helpers.                                                     *)

\* A finite set listed by SetToSeq is a sequence of its elements.
LEMMA SetToSeqType ==
  ASSUME NEW S, IsFiniteSet(S)
  PROVE  SetToSeq(S) \in Seq(S)
<1>1. Cardinality(S) \in Nat /\ ExistsBijection(1..Cardinality(S), S)
  BY FS_CardinalityType
<1>2. PICK f \in [1..Cardinality(S) -> S] : IsInjective(f)
  BY <1>1 DEF ExistsBijection, Bijection, Injection, IsInjective
<1>3. SetToSeq(S) \in [1..Cardinality(S) -> S]
  BY <1>2 DEF SetToSeq
<1> QED BY <1>1, <1>3

\* What a transaction appends to the change log are changes.
LEMMA LogType ==
  ASSUME NEW old, NEW new \in [Actions -> Rows]
  PROVE  Log(old, new) \in Seq(Changes)
<1> DEFINE T == {a \in Actions : new[a] # old[a]}
           ids == SetToSeq(T)
<1>1. IsFiniteSet(T)
  BY FiniteActions, FS_Subset
<1>2. ids \in Seq(T)
  BY <1>1, SetToSeqType
<1> HIDE DEF ids
<1>3. Len(ids) \in Nat /\ \A i \in 1..Len(ids) : ids[i] \in Actions
  BY <1>2
<1>4. \A i \in 1..Len(ids) : Entry(ids[i], new[ids[i]]) \in Changes
  BY <1>3 DEF Entry, Changes, Rows
<1>5. [i \in 1..Len(ids) |-> Entry(ids[i], new[ids[i]])] \in Seq(Changes)
  BY <1>3, <1>4
<1> QED BY <1>5 DEF Log, ids

\* Every row update yields a row.
LEMMA RowUpdateType ==
  ASSUME NEW r \in Rows, NEW c \in Clients \cup {NoClient}
  PROVE  /\ Cancelled(r) \in Rows
         /\ BackToPending(r, c) \in Rows
         /\ r.controller \in Clients \cup {NoClient}
<1>1. Cancelled(r) \in Rows
  BY DEF Cancelled, Updated, Rows, States, Terminal
<1>2. BackToPending(r, c) \in Rows
  BY DEF BackToPending, Updated, Rows, States
<1> QED BY <1>1, <1>2 DEF Rows

\* A transaction writes rows and changes.
LEMMA StoreType ==
  ASSUME TypeOK, NEW new \in [Actions -> Rows], Store(new)
  PROVE  row' \in [Actions -> Rows] /\ changes' \in Seq(Changes)
<1>1. Log(row, new) \in Seq(Changes)
  BY LogType
<1> QED BY <1>1 DEF Store, TypeOK

\* Settling rows that are terminal writes answers.
LEMMA SettleType ==
  ASSUME TypeOK, NEW new \in [Actions -> Rows], NEW S,
         \A a \in S \cap waiting : new[a].state \in Terminal, Settle(S, new)
  PROVE  waiting' \subseteq Actions /\ answer' \in [Actions -> Answers \cup {NoAnswer}]
<1>1. \A a \in S \cap waiting : AnswerOf(new[a]) \in Answers
  BY DEF TypeOK, AnswerOf, Answers, Rows
<1> QED BY <1>1 DEF Settle, TypeOK

\* A transaction that cancels, sweeps or rebinds, with the settling of what it ended.
LEMMA CancelAllType ==
  ASSUME TypeOK, NEW S, CancelAll(S)
  PROVE  /\ row' \in [Actions -> Rows] /\ changes' \in Seq(Changes)
         /\ waiting' \subseteq Actions /\ answer' \in [Actions -> Answers \cup {NoAnswer}]
<1> DEFINE new == CancelRows(S)
<1>1. new \in [Actions -> Rows]
  BY RowUpdateType DEF CancelRows, TypeOK
<1>2. \A a \in Ended(new) : new[a].state \in Terminal
  BY DEF Ended, CancelRows, Cancelled, Updated, Terminal
<1> HIDE DEF new
<1>3. Store(new) /\ Settle(Ended(new), new)
  BY DEF CancelAll, new
<1> QED BY <1>1, <1>2, <1>3, StoreType, SettleType

\* A sweep that settles the waiters of what it ended keeps waiters and answers typed.
LEMMA ReconcileType ==
  ASSUME TypeOK, NEW new, new = Sweep, Settle(Ended(new), new)
  PROVE  waiting' \subseteq Actions /\ answer' \in [Actions -> Answers \cup {NoAnswer}]
<1>1. new \in [Actions -> Rows]
  BY RowUpdateType DEF Sweep, SweptRow, TypeOK
<1>2. \A a \in Ended(new) : new[a].state \in Terminal
  BY DEF Ended, Sweep, SweptRow, Cancelled, BackToPending, Updated, Terminal, Live
<1> HIDE DEF Settle
<1> QED BY <1>1, <1>2, SettleType

-----------------------------------------------------------------------------
(* Type correctness.                                                         *)

\* The initial shapes.
LEMMA InitType == Init => TypeOK
<1> SUFFICES ASSUME Init PROVE TypeOK
  OBVIOUS
<1>1. AbsentRow \in Rows
  BY SomeSession DEF AbsentRow, Rows, States
<1>2. session \in [Sessions -> SessionViews]
  BY DEF Init
<1> QED BY <1>1, <1>2 DEF Init, TypeOK

\* Every step keeps the shapes.
LEMMA TypeStep == TypeOK /\ [Next]_vars => TypeOK'
<1> SUFFICES ASSUME TypeOK, [Next]_vars PROVE TypeOK'
  OBVIOUS
<1>1. ASSUME NEW a \in Actions, NEW s \in Sessions, NEW policy \in Policies, Request(a, s, policy)
      PROVE  TypeOK'
  <2> DEFINE new == [row EXCEPT ![a] =
               [ state |-> "pending", version |-> 1, session |-> s,
                 controller |-> session[s].controller, policy |-> policy,
                 deadline |-> now + Deadline, token |-> 0, claimExpires |-> 0,
                 response |-> NoResponse ]]
  <2>1. new \in [Actions -> Rows]
    BY DurationsAreNat, PoliciesAreKnown DEF TypeOK, Rows, States, SessionViews
  <2> HIDE DEF new
  <2>2. row' \in [Actions -> Rows] /\ changes' \in Seq(Changes)
    BY <1>1, <2>1, StoreType DEF Request, new
  <2> QED BY <1>1, <2>2 DEF Request, TypeOK
<1>2. ASSUME NEW a \in Actions, WaiterTimeout(a) \/ AbortCall(a) PROVE TypeOK'
  BY <1>2, CancelAllType DEF WaiterTimeout, AbortCall, TypeOK
<1>3. ASSUME NEW c \in Clients, NEW a \in Actions, NEW v, Claim(c, a, v)
      PROVE  TypeOK'
  <2> DEFINE new == [Sweep EXCEPT ![a] = Claimed(@)]
  <2>1. Sweep \in [Actions -> Rows]
    BY RowUpdateType DEF Sweep, SweptRow, TypeOK
  <2>2. Claimed(Sweep[a]) \in Rows
    BY <2>1, DurationsAreNat DEF Claimed, Updated, Rows, States, TypeOK
  <2>3. new \in [Actions -> Rows]
    BY <2>1, <2>2
  <2>4. Log(row, Sweep) \in Seq(Changes) /\ Log(Sweep, new) \in Seq(Changes)
    BY <2>1, <2>3, LogType
  <2>5. new[a].token \in Nat
    BY <2>3 DEF Rows
  <2> HIDE DEF new
  <2>6. /\ row' = new
        /\ changes' = changes \o Log(row, Sweep) \o Log(Sweep, new)
        /\ grants' = grants \cup {[action |-> a, token |-> new[a].token, client |-> c]}
    BY <1>3 DEF Claim, new
  <2>7. changes' \in Seq(Changes)
    BY <2>4, <2>6 DEF TypeOK
  <2>8. grants' \subseteq Grants
    BY <2>5, <2>6 DEF TypeOK, Grants
  <2>9. waiting' \subseteq Actions /\ answer' \in [Actions -> Answers \cup {NoAnswer}]
    BY <1>3, ReconcileType DEF Claim
  <2> QED BY <1>3, <2>3, <2>6, <2>7, <2>8, <2>9 DEF Claim, TypeOK
<1>4. ASSUME NEW g \in grants, RenewClaim(g) PROVE TypeOK'
  <2> DEFINE new == [row EXCEPT ![g.action] = Renewed(@)]
  <2>0. g.action \in Actions /\ row[g.action] \in Rows
    BY DEF TypeOK, Grants
  <2>1. Renewed(row[g.action]) \in Rows
    BY <2>0, DurationsAreNat DEF Renewed, Updated, Rows, States, TypeOK
  <2>2. new \in [Actions -> Rows]
    BY <2>0, <2>1 DEF TypeOK
  <2> HIDE DEF new
  <2>3. row' \in [Actions -> Rows] /\ changes' \in Seq(Changes)
    BY <1>4, <2>2, StoreType DEF RenewClaim, new
  <2> QED BY <1>4, <2>3 DEF RenewClaim, TypeOK
<1>5. ASSUME NEW g \in grants, NEW response \in Responses, Respond(g, response) PROVE TypeOK'
  <2> DEFINE new == [row EXCEPT ![g.action] = Finished(@, response)]
  <2>0. g.action \in Actions /\ row[g.action] \in Rows
    BY DEF TypeOK, Grants
  <2>1. Finished(row[g.action], response) \in Rows /\ Finished(row[g.action], response).state \in Terminal
    BY <2>0 DEF Finished, Updated, Rows, States, Terminal, Responses
  <2>2. new \in [Actions -> Rows] /\ new[g.action].state \in Terminal
    BY <2>0, <2>1 DEF TypeOK
  <2> HIDE DEF new
  <2>3. Store(new) /\ Settle({g.action}, new)
    BY <1>5 DEF Respond, new
  <2>4. row' \in [Actions -> Rows] /\ changes' \in Seq(Changes)
    BY <2>2, <2>3, StoreType
  <2>5. waiting' \subseteq Actions /\ answer' \in [Actions -> Answers \cup {NoAnswer}]
    BY <2>2, <2>3, SettleType
  <2> QED BY <1>5, <2>4, <2>5 DEF Respond, TypeOK
<1>6. ASSUME NEW g \in grants, NEW response \in Responses, RespondAgain(g, response) PROVE TypeOK'
  <2>1. row[g.action].state \in Terminal
    BY <1>6 DEF RespondAgain, IsReceipt, Terminal
  <2>2. waiting' \subseteq Actions /\ answer' \in [Actions -> Answers \cup {NoAnswer}]
    BY <1>6, <2>1, SettleType DEF RespondAgain, TypeOK
  <2> QED BY <1>6, <2>2 DEF RespondAgain, TypeOK
<1>7. ASSUME NEW s \in Sessions, StartTurn(s) PROVE TypeOK'
  BY <1>7 DEF StartTurn, TypeOK, SessionViews
<1>8. ASSUME NEW s \in Sessions, EndTurn(s) \/ Interrupt(s) PROVE TypeOK'
  <2>1. session' \in [Sessions -> SessionViews]
    BY <1>8 DEF EndTurn, Interrupt, TypeOK, SessionViews
  <2> QED BY <1>8, <2>1, CancelAllType DEF EndTurn, Interrupt, TypeOK
<1>9. ASSUME NEW s \in Sessions, Close(s) PROVE TypeOK'
  <2>1. session' \in [Sessions -> SessionViews]
    BY <1>9 DEF Close, TypeOK, SessionViews
  <2> QED BY <1>9, <2>1, CancelAllType DEF Close, TypeOK
<1>10. ASSUME NEW s \in Sessions, NEW c \in Clients, Rebind(s, c) PROVE TypeOK'
  <2> DEFINE new == Rebound(s, c)
  <2>1. new \in [Actions -> Rows]
    BY RowUpdateType DEF Rebound, ReboundRow, TypeOK
  <2>2. \A a \in Ended(new) : new[a].state \in Terminal
    BY DEF Ended, Rebound, ReboundRow, Cancelled, BackToPending, Updated, Terminal, Live
  <2> HIDE DEF new
  <2>3. Store(new) /\ Settle(Ended(new), new)
    BY <1>10 DEF Rebind, new
  <2>4. row' \in [Actions -> Rows] /\ changes' \in Seq(Changes)
    BY <2>1, <2>3, StoreType
  <2>5. waiting' \subseteq Actions /\ answer' \in [Actions -> Answers \cup {NoAnswer}]
    BY <2>1, <2>2, <2>3, SettleType
  <2>6. session' \in [Sessions -> SessionViews]
    BY <1>10 DEF Rebind, TypeOK, SessionViews
  <2> QED BY <1>10, <2>4, <2>5, <2>6 DEF Rebind, TypeOK
<1>11. CASE Reconcile
  <2>1. Sweep \in [Actions -> Rows]
    BY RowUpdateType DEF Sweep, SweptRow, TypeOK
  <2> QED BY <1>11, <2>1, ReconcileType, StoreType DEF Reconcile, TypeOK
<1>12. CASE CancelWaiting
  BY <1>12, CancelAllType DEF CancelWaiting, TypeOK
<1>13. CASE Shutdown
  <2>1. CancelRows(waiting) \in [Actions -> Rows]
    BY RowUpdateType DEF CancelRows, TypeOK
  <2>2. row' \in [Actions -> Rows] /\ changes' \in Seq(Changes)
    BY <1>13, <2>1, StoreType DEF Shutdown, rowVars, TypeOK
  <2>3. \A a \in Actions : AnswerOf(Cancelled(row[a])) \in Answers
    BY DEF AnswerOf, Cancelled, Updated, Answers, Terminal, TypeOK, Rows
  <2> QED BY <1>13, <2>2, <2>3 DEF Shutdown, TypeOK
<1>14. CASE Restart
  <2>1. CancelRows(Actions) \in [Actions -> Rows]
    BY RowUpdateType DEF CancelRows, TypeOK
  <2>2. row' \in [Actions -> Rows] /\ changes' \in Seq(Changes)
    BY <1>14, <2>1, StoreType DEF Restart
  <2>3. session' \in [Sessions -> SessionViews]
    BY <1>14 DEF Restart, TypeOK, SessionViews
  <2> QED BY <1>14, <2>2, <2>3 DEF Restart, TypeOK
<1>15. CASE Tick
  BY <1>15 DEF Tick, TypeOK
<1>16. CASE UNCHANGED vars
  BY <1>16 DEF vars, TypeOK
<1> QED
  BY <1>1, <1>2, <1>3, <1>4, <1>5, <1>6, <1>7, <1>8, <1>9, <1>10, <1>11, <1>12, <1>13,
     <1>14, <1>15, <1>16
  DEF Next, CallStep, ControllerStep, SessionStep, HostStep

\* The variables keep the shapes of their tables and maps.
THEOREM TypeCorrect == Spec => []TypeOK
BY InitType, TypeStep, PTL DEF Spec

-----------------------------------------------------------------------------
(* What any step may do to one action: the moves every later proof is about. *)

GrantsOf(a) == {g \in grants : g.action = a}

Kept(a) == row'[a] = row[a] /\ GrantsOf(a)' = GrantsOf(a)

Opened(a) ==
  /\ row[a].state = "absent" /\ row'[a].state = "pending"
  /\ row'[a].response = NoResponse
  /\ GrantsOf(a)' = GrantsOf(a)

\* What an UPDATE of a live row leaves alone.
Written(a) ==
  /\ Live(row[a])
  /\ row'[a].policy = row[a].policy /\ row'[a].session = row[a].session
  /\ row'[a].version \in {row[a].version + 1, row[a].version + 2}

WasCancelled(a) ==
  /\ Written(a)
  /\ row'[a].state = "cancelled" /\ row'[a].response = row[a].response
  /\ GrantsOf(a)' = GrantsOf(a)

WasRequeued(a) ==
  /\ Written(a)
  /\ row'[a].state = "pending" /\ row'[a].response = row[a].response
  /\ row[a].state = "claimed" => row[a].policy = "safe"
  /\ GrantsOf(a)' = GrantsOf(a)

WasRenewed(a) ==
  /\ Written(a)
  /\ row[a].state = "claimed" /\ row'[a].state = "claimed"
  /\ row'[a].token = row[a].token /\ row'[a].controller = row[a].controller
  /\ row'[a].response = row[a].response
  /\ GrantsOf(a)' = GrantsOf(a)

\* The claim may follow, in the same step, the sweep that requeued the action.
WasHandedOut(a) ==
  /\ Written(a)
  /\ row[a].state = "claimed" => row[a].policy = "safe"
  /\ row'[a].state = "claimed" /\ row'[a].token = row'[a].version
  /\ row'[a].response = row[a].response
  /\ GrantsOf(a)' = GrantsOf(a) \cup
       {[action |-> a, token |-> row'[a].token, client |-> row'[a].controller]}

WasFinished(a) ==
  /\ Written(a)
  /\ row[a].state = "claimed" /\ row'[a].state \in Outcomes
  /\ row'[a].response \in Responses /\ row'[a].response.outcome = row'[a].state
  /\ GrantsOf(a)' = GrantsOf(a)

RowMove(a) ==
  \/ Kept(a) \/ Opened(a) \/ WasCancelled(a) \/ WasRequeued(a)
  \/ WasRenewed(a) \/ WasHandedOut(a) \/ WasFinished(a)

\* A step that cancels some rows and hands out nothing.
LEMMA CancelRowsMove ==
  ASSUME TypeOK, NEW S, row' = CancelRows(S), grants' = grants, NEW a \in Actions
  PROVE  Kept(a) \/ WasCancelled(a)
BY DEF TypeOK, Rows, CancelRows, Cancelled, Updated, Kept, WasCancelled, Written, GrantsOf, Live

\* The sweep keeps, cancels or requeues a row.
LEMMA SweepMove ==
  ASSUME TypeOK, row' = Sweep, grants' = grants, NEW a \in Actions
  PROVE  Kept(a) \/ WasCancelled(a) \/ WasRequeued(a)
BY DEF TypeOK, Rows, Sweep, SweptRow, Cancelled, BackToPending, Updated, Kept,
       WasCancelled, WasRequeued, Written, GrantsOf, Live, Expired

\* Every step moves every action by one of the moves.
LEMMA StepsAreMoves ==
  ASSUME TypeOK, [Next]_vars, NEW a \in Actions
  PROVE  RowMove(a)
<1>1. ASSUME NEW b \in Actions, NEW s \in Sessions, NEW policy \in Policies, Request(b, s, policy)
      PROVE  RowMove(a)
  <2>1. row[b].state = "absent" /\ GrantsOf(a)' = GrantsOf(a)
    BY <1>1 DEF Request, GrantsOf
  <2>2. CASE a = b
    <3>1. row'[a].state = "pending" /\ row'[a].response = NoResponse
      BY <1>1, <2>2 DEF Request, Store, TypeOK
    <3> QED BY <2>1, <2>2, <3>1 DEF RowMove, Opened
  <2>3. CASE a # b
    <3>1. row'[a] = row[a]
      BY <1>1, <2>3 DEF Request, Store, TypeOK
    <3> QED BY <2>1, <3>1 DEF RowMove, Kept
  <2> QED BY <2>2, <2>3
<1>2. ASSUME NEW S, CancelAll(S), UNCHANGED grants PROVE RowMove(a)
  BY <1>2, CancelRowsMove DEF CancelAll, Store, RowMove
<1>3. ASSUME NEW c \in Clients, NEW b \in Actions, NEW v, Claim(c, b, v)
      PROVE  RowMove(a)
  <2> DEFINE g == [action |-> b, token |-> row'[b].token, client |-> c]
  <2>0. row[a] \in Rows /\ row[b] \in Rows
    BY DEF TypeOK
  <2>1. row' = [Sweep EXCEPT ![b] = Claimed(@)] /\ grants' = grants \cup {g}
    BY <1>3 DEF Claim
  <2>2. CASE a # b
    <3>1. row'[a] = SweptRow(row[a]) /\ GrantsOf(a)' = GrantsOf(a)
      BY <2>1, <2>2 DEF Sweep, GrantsOf
    <3> QED
      BY <2>0, <3>1 DEF Rows, SweptRow, Cancelled, BackToPending, Updated, Kept, RowMove,
         WasCancelled, WasRequeued, Written, Live, Expired
  <2>3. CASE a = b
    <3>1. row'[a] = Claimed(SweptRow(row[a])) /\ GrantsOf(a)' = GrantsOf(a) \cup {g}
      BY <2>1, <2>3 DEF Sweep, GrantsOf
    <3>2. SweptRow(row[a]).state = "pending" /\ SweptRow(row[a]).controller = c
      BY <1>3, <2>3 DEF Claim, MayClaim, Sweep
    <3>3. \/ SweptRow(row[a]) = row[a]
          \/ /\ row[a].state = "claimed" /\ row[a].policy = "safe"
             /\ SweptRow(row[a]) = BackToPending(row[a], row[a].controller)
      <4>1. row[a].policy # "safe" => row[a].policy = "unsafe"
        BY <2>0 DEF Rows
      <4>2. Cancelled(row[a]).state = "cancelled"
        BY DEF Cancelled, Updated
      <4> QED BY <3>2, <4>1, <4>2 DEF SweptRow, Live, Expired
    <3>4. row'[a].controller = c /\ row'[a].state = "claimed" /\ row'[a].token = row'[a].version
      BY <3>1, <3>2 DEF Claimed, Updated
    <3>5. Written(a) /\ row'[a].response = row[a].response
      BY <2>0, <3>1, <3>2, <3>3 DEF Rows, Written, Claimed, BackToPending, Updated, Live
    <3>6. row[a].state = "claimed" => row[a].policy = "safe"
      BY <3>2, <3>3
    <3> QED BY <2>3, <3>1, <3>4, <3>5, <3>6 DEF RowMove, WasHandedOut
  <2> QED BY <2>2, <2>3
<1>4. ASSUME NEW g \in grants, RenewClaim(g) PROVE RowMove(a)
  BY <1>4 DEF RenewClaim, MayRenew, Store, Renewed, Updated, TypeOK, Grants, Rows,
     RowMove, Kept, WasRenewed, Written, GrantsOf, Live
<1>5. ASSUME NEW g \in grants, NEW response \in Responses, Respond(g, response) PROVE RowMove(a)
  BY <1>5 DEF Respond, MayRespond, Store, Finished, Updated, TypeOK, Grants, Rows, Responses,
     RowMove, Kept, WasFinished, Written, GrantsOf, Live
<1>6. ASSUME NEW s \in Sessions, NEW c \in Clients, Rebind(s, c) PROVE RowMove(a)
  BY <1>6 DEF Rebind, Store, Rebound, ReboundRow, Cancelled, BackToPending, Updated, TypeOK, Rows,
     RowMove, Kept, WasCancelled, WasRequeued, Written, GrantsOf, Live
<1>7. CASE Reconcile
  BY <1>7, SweepMove DEF Reconcile, Store, RowMove
<1>8. CASE Shutdown
  BY <1>8, CancelRowsMove DEF Shutdown, Store, rowVars, RowMove, Kept, GrantsOf
<1>9. CASE Restart
  BY <1>9, CancelRowsMove DEF Restart, Store, RowMove
<1>10. ASSUME UNCHANGED <<row, grants>> PROVE RowMove(a)
  BY <1>10 DEF RowMove, Kept, GrantsOf
<1> QED
  BY <1>1, <1>2, <1>3, <1>4, <1>5, <1>6, <1>7, <1>8, <1>9, <1>10
  DEF Next, CallStep, ControllerStep, SessionStep, HostStep, WaiterTimeout, AbortCall,
      RespondAgain, StartTurn, EndTurn, Interrupt, Close, CancelWaiting, Tick, vars

-----------------------------------------------------------------------------
(* Claims.  UnsafeGrantedOnce and ClaimIsFenced are not inductive: one needs *)
(* that an unsafe action still pending was never granted, the other that no  *)
(* grant is newer than the row.                                              *)

ClaimInv(a) ==
  /\ row[a].state = "absent" => GrantsOf(a) = {}
  /\ row[a].state \notin Outcomes => row[a].response = NoResponse
  /\ \A g \in GrantsOf(a) : g.token <= row[a].version
  /\ row[a].state = "claimed" =>
       /\ [action |-> a, token |-> row[a].token, client |-> row[a].controller] \in GrantsOf(a)
       /\ \A g \in GrantsOf(a) : g.token <= row[a].token
  /\ row[a].policy = "unsafe" =>
       /\ row[a].state = "pending" => GrantsOf(a) = {}
       /\ \A g, h \in GrantsOf(a) : g = h

\* The claim invariant survives every move.
LEMMA ClaimInvStep ==
  ASSUME TypeOK, TypeOK', NEW a \in Actions, ClaimInv(a), RowMove(a)
  PROVE  ClaimInv(a)'
<1>0. /\ row[a] \in Rows /\ row'[a] \in Rows
      /\ \A g \in GrantsOf(a) : g.token \in Nat
  BY DEF TypeOK, GrantsOf, Grants
<1>1. CASE Kept(a)
  BY <1>1 DEF Kept, ClaimInv
<1>2. CASE Opened(a)
  BY <1>2 DEF Opened, ClaimInv
<1>3. CASE WasCancelled(a)
  BY <1>0, <1>3 DEF WasCancelled, Written, ClaimInv, Rows, Live, Outcomes
<1>4. CASE WasRequeued(a)
  BY <1>0, <1>4 DEF WasRequeued, Written, ClaimInv, Rows, Live, Outcomes
<1>5. CASE WasRenewed(a)
  BY <1>0, <1>5 DEF WasRenewed, Written, ClaimInv, Rows, Outcomes
<1>6. CASE WasHandedOut(a)
  BY <1>0, <1>6 DEF WasHandedOut, Written, ClaimInv, Rows, Live, Outcomes
<1>7. CASE WasFinished(a)
  BY <1>0, <1>7 DEF WasFinished, Written, ClaimInv, Rows, Outcomes
<1> QED BY <1>1, <1>2, <1>3, <1>4, <1>5, <1>6, <1>7 DEF RowMove

\* The claim invariant of every action at first ...
LEMMA ClaimInit == Init => \A a \in Actions : ClaimInv(a)
BY DEF Init, ClaimInv, AbsentRow, GrantsOf, Outcomes

\* ... and after every step.
LEMMA ClaimStep ==
  TypeOK /\ TypeOK' /\ (\A a \in Actions : ClaimInv(a)) /\ [Next]_vars
    => (\A a \in Actions : ClaimInv(a))'
BY StepsAreMoves, ClaimInvStep

\* ... and throughout.
LEMMA ClaimInvariant == Spec => [](\A a \in Actions : ClaimInv(a))
BY ClaimInit, ClaimStep, TypeCorrect, PTL DEF Spec

\* The claim invariant says all that the two properties say.
LEMMA ClaimsAreFenced ==
  TypeOK /\ (\A a \in Actions : ClaimInv(a)) => UnsafeGrantedOnce /\ ClaimIsFenced
<1> SUFFICES ASSUME TypeOK, \A a \in Actions : ClaimInv(a) PROVE UnsafeGrantedOnce /\ ClaimIsFenced
  OBVIOUS
<1>1. ASSUME NEW g \in grants, NEW h \in grants, g.action = h.action, row[g.action].policy = "unsafe"
      PROVE  g = h
  <2>1. g.action \in Actions /\ g \in GrantsOf(g.action) /\ h \in GrantsOf(g.action)
    BY <1>1 DEF TypeOK, Grants, GrantsOf
  <2> QED BY <1>1, <2>1 DEF ClaimInv
<1>2. ClaimIsFenced
  BY DEF ClaimInv, GrantsOf, ClaimIsFenced, TypeOK, Grants
<1> QED BY <1>1, <1>2 DEF UnsafeGrantedOnce

\* host-action-store.ts:9-11, for any number of actions, clients and steps:
\* an action that is not replayable is handed out at most once.
THEOREM UnsafeOnce == Spec => []UnsafeGrantedOnce
BY ClaimsAreFenced, TypeCorrect, ClaimInvariant, PTL

\* A live claim is the newest grant, and its client the action's controller.
THEOREM ClaimsFenced == Spec => []ClaimIsFenced
BY ClaimsAreFenced, TypeCorrect, ClaimInvariant, PTL

-----------------------------------------------------------------------------
(* The channel implements the tool call the agent sees (HostToolCall): each  *)
(* move of a row is a step of its call, and the claim invariant gives the    *)
(* two guards the rows alone do not show - a call is finished only by a      *)
(* desktop it was handed to, and one that must not be replayed is handed out *)
(* only if it never was.                                                     *)

\* A move of a row is a move of its call.
LEMMA MoveIsCallMove ==
  ASSUME TypeOK, TypeOK', NEW a \in Actions, ClaimInv(a), RowMove(a)
  PROVE  ToolCall!Move(a)
<1>0. row[a] \in Rows /\ row'[a] \in Rows
  BY DEF TypeOK
<1>1. CASE Kept(a)
  BY <1>1 DEF Kept, GrantsOf, ToolCall!Move, ToolCall!Same
<1>2. CASE Opened(a)
  BY <1>2 DEF Opened, GrantsOf, PhaseOf, Live, ClaimInv, Outcomes, ToolCall!Move, ToolCall!Open
<1>3. CASE WasCancelled(a)
  BY <1>3 DEF WasCancelled, Written, GrantsOf, PhaseOf, Live, ToolCall!Move, ToolCall!Cancel
<1>4. CASE WasRequeued(a)
  BY <1>4 DEF WasRequeued, Written, GrantsOf, PhaseOf, Live, ToolCall!Move, ToolCall!Same
<1>5. CASE WasRenewed(a)
  BY <1>5 DEF WasRenewed, Written, GrantsOf, PhaseOf, Live, ToolCall!Move, ToolCall!Same
<1>6. CASE WasHandedOut(a)
  <2> DEFINE h == [action |-> a, token |-> row'[a].token, client |-> row'[a].controller]
  <2>1. h \notin GrantsOf(a)
    BY <1>0, <1>6 DEF WasHandedOut, Written, ClaimInv, Rows
  <2>2. row[a].policy = "safe" \/ GrantsOf(a) = {}
    BY <1>0, <1>6 DEF WasHandedOut, Written, ClaimInv, Rows, Live
  <2> QED
    BY <1>6, <2>1, <2>2 DEF WasHandedOut, Written, GrantsOf, PhaseOf, Live, ToolCall!Move,
       ToolCall!HandOut
<1>7. CASE WasFinished(a)
  <2>1. GrantsOf(a) # {}
    BY <1>7 DEF WasFinished, ClaimInv
  <2> QED
    BY <1>7, <2>1 DEF WasFinished, Written, Outcomes, GrantsOf, PhaseOf, Live, ToolCall!Move,
       ToolCall!Finish
<1> QED BY <1>1, <1>2, <1>3, <1>4, <1>5, <1>6, <1>7 DEF RowMove

\* Rows, claims, sweeps, rebinds and restarts implement the tool call: it is
\* handed out once at most if it must not be replayed, and ends once, with a
\* reply from a desktop it was handed to or cancelled.
THEOREM ChannelImplementsToolCall == Spec => ToolCallSpec
<1>1. Init => ToolCall!Init
  BY DEF Init, AbsentRow, PhaseOf, ToolCall!Init
<1>2. TypeOK /\ TypeOK' /\ (\A a \in Actions : ClaimInv(a)) /\ [Next]_vars
        => [ToolCall!Next]_ToolCall!vars
  BY StepsAreMoves, MoveIsCallMove DEF ToolCall!Next
<1> QED
  BY <1>1, <1>2, TypeCorrect, ClaimInvariant, PTL DEF Spec, ToolCallSpec, ToolCall!Spec

-----------------------------------------------------------------------------
(* Waiters and answers.  That the waiters are the live rows while the host   *)
(* serves, and that an answer agrees with its row, lean on each other: a row *)
(* whose call has its answer is not live, so no later step may touch it; and *)
(* without a serving host there is no waiter left to time out.               *)

WaiterInv(a) ==
  /\ serving => (a \in waiting <=> Live(row[a]))
  /\ ~serving => a \notin waiting
  /\ answer[a] # NoAnswer =>
       \/ ~Live(row[a]) /\ row[a].state # "absent" /\ answer[a] = AnswerOf(row[a])
       \/ /\ ~serving /\ Live(row[a])
          /\ answer[a] = [state |-> "cancelled", response |-> NoResponse]

\* The row goes on or stays ended, and so does its waiter.
Undisturbed(a) ==
  /\ serving' = serving \/ (~serving' /\ ~Live(row[a]) /\ a \notin waiting)
  /\ a \in waiting' <=> a \in waiting
  /\ answer'[a] = answer[a]
  /\ Live(row'[a]) <=> Live(row[a])
  /\ ~serving \/ ~Live(row[a]) => row'[a] = row[a]

WasAsked(a) ==
  /\ row[a].state = "absent" /\ Live(row'[a])
  /\ serving' /\ a \in waiting' /\ answer'[a] = answer[a]

WasAnswered(a) ==
  /\ Live(row[a]) /\ ~Live(row'[a]) /\ row'[a].state # "absent"
  /\ a \notin waiting' /\ answer'[a] = AnswerOf(row'[a])

\* A shutdown that could not write the row.
WasDropped(a) ==
  /\ Live(row[a]) /\ row'[a] = row[a] /\ ~serving'
  /\ a \notin waiting' /\ answer'[a] = AnswerOf(Cancelled(row[a]))

\* A restart: the promise is gone, the row is cancelled if it was live.
WasLost(a) ==
  /\ serving' /\ a \notin waiting' /\ answer'[a] = answer[a]
  /\ row'[a] = IF Live(row[a]) THEN Cancelled(row[a]) ELSE row[a]

WaiterMove(a) ==
  Undisturbed(a) \/ WasAsked(a) \/ WasAnswered(a) \/ WasDropped(a) \/ WasLost(a)

\* A transaction that settles exactly the rows it ended.
LEMMA SettledRows ==
  ASSUME TypeOK, serving, serving' = serving, NEW a \in Actions, WaiterInv(a),
         NEW new, row' = new, Settle(Ended(new), new),
         ~Live(row[a]) => new[a] = row[a],
         Live(row[a]) => new[a].state # "absent"
  PROVE  WaiterMove(a)
<1>1. CASE Live(row[a]) /\ ~Live(new[a])
  <2>1. a \in Ended(new) /\ a \in waiting
    BY <1>1 DEF Ended, WaiterInv
  <2> QED BY <1>1, <2>1 DEF Settle, WaiterMove, WasAnswered
<1>2. CASE ~(Live(row[a]) /\ ~Live(new[a]))
  <2>1. a \notin Ended(new)
    BY <1>2 DEF Ended
  <2> QED BY <1>2, <2>1 DEF Settle, WaiterMove, Undisturbed
<1> QED BY <1>1, <1>2

\* A cancellation in a serving host.
LEMMA CancelledRows ==
  ASSUME TypeOK, serving, serving' = serving, NEW a \in Actions, WaiterInv(a),
         NEW S, CancelAll(S)
  PROVE  WaiterMove(a)
<1> DEFINE new == CancelRows(S)
<1>1. ~Live(row[a]) => new[a] = row[a]
  BY DEF CancelRows
<1>2. Live(row[a]) => new[a].state # "absent"
  BY DEF CancelRows, Cancelled, Updated, Live
<1>3. row' = new /\ Settle(Ended(new), new)
  BY DEF CancelAll, Store
<1> HIDE DEF new
<1> QED BY <1>1, <1>2, <1>3, SettledRows

\* Every step moves every waiter by one of the moves.
LEMMA StepsAreWaiterMoves ==
  ASSUME TypeOK, [Next]_vars, \A b \in Actions : WaiterInv(b), NEW a \in Actions
  PROVE  WaiterMove(a)
<1>0. WaiterInv(a) /\ row[a] \in Rows
  BY DEF TypeOK
<1>1. ASSUME NEW b \in Actions, NEW s \in Sessions, NEW policy \in Policies, Request(b, s, policy)
      PROVE  WaiterMove(a)
  <2>1. CASE a = b
    <3>1. row'[a].state = "pending"
      BY <1>1, <2>1 DEF Request, Store, TypeOK
    <3> QED BY <1>1, <2>1, <3>1 DEF Request, WaiterMove, WasAsked, Live
  <2>2. CASE a # b
    <3>1. row'[a] = row[a]
      BY <1>1, <2>2 DEF Request, Store, TypeOK
    <3> QED BY <1>1, <2>2, <3>1 DEF Request, WaiterMove, Undisturbed
  <2> QED BY <2>1, <2>2
<1>2. ASSUME NEW b \in Actions, WaiterTimeout(b) \/ AbortCall(b) PROVE WaiterMove(a)
  <2>1. serving
    BY <1>2 DEF WaiterTimeout, AbortCall, WaiterInv
  <2> QED BY <1>0, <1>2, <2>1, CancelledRows DEF WaiterTimeout, AbortCall
<1>3. ASSUME NEW c \in Clients, NEW b \in Actions, NEW v, Claim(c, b, v)
      PROVE  WaiterMove(a)
  <2>1. row' = [Sweep EXCEPT ![b] = Claimed(@)] /\ Settle(Ended(Sweep), Sweep) /\ serving /\ serving'
    BY <1>3 DEF Claim
  <2>2. Sweep[a] = SweptRow(row[a]) /\ Sweep[b].state = "pending"
    BY <1>3 DEF Sweep, Claim, MayClaim
  <2>3. ~Live(row[a]) => Sweep[a] = row[a]
    BY <2>2 DEF SweptRow
  <2>4. Live(row[a]) => Sweep[a].state # "absent"
    BY <2>2 DEF SweptRow, Live, Cancelled, BackToPending, Updated
  <2>5. CASE a # b
    <3>1. row'[a] = Sweep[a]
      BY <2>1, <2>5 DEF Sweep
    <3>2. CASE Live(row[a]) /\ ~Live(Sweep[a])
      <4>1. a \in Ended(Sweep) /\ a \in waiting
        BY <1>0, <2>1, <3>2 DEF Ended, WaiterInv
      <4> QED BY <2>1, <2>4, <3>1, <3>2, <4>1 DEF Settle, WaiterMove, WasAnswered
    <3>3. CASE ~(Live(row[a]) /\ ~Live(Sweep[a]))
      <4>1. a \notin Ended(Sweep)
        BY <3>3 DEF Ended
      <4> QED BY <2>1, <2>3, <3>1, <3>3, <4>1 DEF Settle, WaiterMove, Undisturbed
    <3> QED BY <3>2, <3>3
  <2>6. CASE a = b
    <3>1. row'[a].state = "claimed"
      BY <2>1, <2>6 DEF Sweep, Claimed, Updated
    <3>2. Live(row[a])
      BY <1>3, <2>2, <2>3, <2>6 DEF Live
    <3>3. a \notin Ended(Sweep)
      BY <2>2, <2>6 DEF Ended, Live
    <3> QED BY <2>1, <3>1, <3>2, <3>3 DEF Settle, WaiterMove, Undisturbed, Live
  <2> QED BY <2>5, <2>6
<1>4. ASSUME NEW g \in grants, RenewClaim(g) PROVE WaiterMove(a)
  BY <1>4 DEF RenewClaim, MayRenew, Store, Renewed, Updated, TypeOK, WaiterMove, Undisturbed, Live
<1>5. ASSUME NEW g \in grants, NEW response \in Responses, Respond(g, response) PROVE WaiterMove(a)
  <2> DEFINE new == [row EXCEPT ![g.action] = Finished(@, response)]
  <2>1. g.action \in Actions /\ row[g.action].state = "claimed"
    BY <1>5 DEF TypeOK, Grants, Respond, MayRespond
  <2>2. row' = new /\ Settle({g.action}, new) /\ serving /\ serving'
    BY <1>5 DEF Respond, Store
  <2>3. CASE a = g.action
    <3>1. row'[a].state \in Outcomes
      BY <2>1, <2>2, <2>3 DEF TypeOK, Finished, Updated, Responses
    <3>2. a \in waiting
      BY <1>0, <2>1, <2>2, <2>3 DEF WaiterInv, Live
    <3> QED BY <2>1, <2>2, <2>3, <3>1, <3>2 DEF Settle, WaiterMove, WasAnswered, Live, Outcomes
  <2>4. CASE a # g.action
    <3>1. row'[a] = row[a]
      BY <2>1, <2>2, <2>4 DEF TypeOK
    <3> QED BY <2>2, <2>4, <3>1 DEF Settle, WaiterMove, Undisturbed
  <2> QED BY <2>3, <2>4
<1>6. ASSUME NEW g \in grants, NEW response \in Responses, RespondAgain(g, response)
      PROVE  WaiterMove(a)
  <2>1. /\ row[g.action].state \in Outcomes /\ Settle({g.action}, row)
        /\ serving /\ serving' /\ row' = row
    BY <1>6 DEF RespondAgain, IsReceipt
  <2>2. g.action \notin waiting
    <3>1. g.action \in Actions
      BY DEF TypeOK, Grants
    <3> QED BY <2>1, <3>1 DEF WaiterInv, Live, Outcomes
  <2> QED BY <2>1, <2>2 DEF Settle, WaiterMove, Undisturbed
<1>7. ASSUME NEW s \in Sessions, EndTurn(s) \/ Interrupt(s) \/ Close(s) PROVE WaiterMove(a)
  BY <1>0, <1>7, CancelledRows DEF EndTurn, Interrupt, Close
<1>8. ASSUME NEW s \in Sessions, NEW c \in Clients, Rebind(s, c) PROVE WaiterMove(a)
  <2> DEFINE new == Rebound(s, c)
  <2>1. ~Live(row[a]) => new[a] = row[a]
    BY DEF Rebound, ReboundRow
  <2>2. Live(row[a]) => new[a].state # "absent"
    BY DEF Rebound, ReboundRow, Cancelled, BackToPending, Updated, Live
  <2>3. row' = new /\ Settle(Ended(new), new) /\ serving /\ serving' = serving
    BY <1>8 DEF Rebind, Store
  <2> HIDE DEF new
  <2> QED BY <1>0, <2>1, <2>2, <2>3, SettledRows
<1>9. CASE Reconcile
  <2> DEFINE new == Sweep
  <2>1. ~Live(row[a]) => new[a] = row[a]
    BY DEF Sweep, SweptRow
  <2>2. Live(row[a]) => new[a].state # "absent"
    BY DEF Sweep, SweptRow, Cancelled, BackToPending, Updated, Live
  <2>3. row' = new /\ Settle(Ended(new), new) /\ serving /\ serving' = serving
    BY <1>9 DEF Reconcile, Store
  <2> HIDE DEF new
  <2> QED BY <1>0, <2>1, <2>2, <2>3, SettledRows
<1>10. CASE CancelWaiting
  BY <1>0, <1>10, CancelledRows DEF CancelWaiting
<1>11. CASE Shutdown
  <2>1. /\ serving /\ ~serving' /\ waiting' = {}
        /\ answer'[a] = IF a \in waiting THEN AnswerOf(Cancelled(row[a])) ELSE answer[a]
        /\ row' = CancelRows(waiting) \/ row' = row
    BY <1>11 DEF Shutdown, Store, rowVars
  <2>2. row'[a] = row[a] \/ (a \in waiting /\ row'[a] = Cancelled(row[a]))
    BY <2>1 DEF CancelRows
  <2>3. ~Live(Cancelled(row[a])) /\ Cancelled(row[a]).state # "absent"
    BY DEF Live, Cancelled, Updated
  <2>4. a \in waiting <=> Live(row[a])
    BY <1>0, <2>1 DEF WaiterInv
  <2>5. CASE Live(row[a]) /\ row'[a] = Cancelled(row[a])
    BY <2>1, <2>3, <2>4, <2>5 DEF WaiterMove, WasAnswered
  <2>6. CASE Live(row[a]) /\ row'[a] = row[a]
    BY <2>1, <2>4, <2>6 DEF WaiterMove, WasDropped
  <2>7. CASE ~Live(row[a])
    BY <2>1, <2>2, <2>4, <2>7 DEF WaiterMove, Undisturbed
  <2> QED BY <2>2, <2>4, <2>5, <2>6, <2>7
<1>12. CASE Restart
  BY <1>12 DEF Restart, Store, CancelRows, WaiterMove, WasLost
<1>13. ASSUME UNCHANGED <<row, waiting, answer, serving>> PROVE WaiterMove(a)
  BY <1>13 DEF WaiterMove, Undisturbed
<1> QED
  BY <1>1, <1>2, <1>3, <1>4, <1>5, <1>6, <1>7, <1>8, <1>9, <1>10, <1>11, <1>12, <1>13
  DEF Next, CallStep, ControllerStep, SessionStep, HostStep, StartTurn, Tick, vars

\* The waiter invariant survives every move.
LEMMA WaiterInvStep ==
  ASSUME TypeOK, TypeOK', NEW a \in Actions, ClaimInv(a), WaiterInv(a), WaiterMove(a)
  PROVE  WaiterInv(a)'
<1>1. CASE Undisturbed(a)
  BY <1>1 DEF Undisturbed, WaiterInv
<1>2. CASE WasAsked(a)
  BY <1>2 DEF WasAsked, WaiterInv, Live
<1>3. CASE WasAnswered(a)
  BY <1>3 DEF WasAnswered, WaiterInv
<1>4. CASE WasDropped(a)
  <2>1. AnswerOf(Cancelled(row[a])) = [state |-> "cancelled", response |-> NoResponse]
    BY <1>4 DEF WasDropped, ClaimInv, Live, Outcomes, AnswerOf, Cancelled, Updated
  <2> QED BY <1>4, <2>1 DEF WasDropped, WaiterInv
<1>5. CASE WasLost(a)
  <2>1. Live(row[a]) => AnswerOf(Cancelled(row[a])) = [state |-> "cancelled", response |-> NoResponse]
    BY DEF ClaimInv, Live, Outcomes, AnswerOf, Cancelled, Updated
  <2>2. ~Live(Cancelled(row[a])) /\ Cancelled(row[a]).state # "absent"
    BY DEF Live, Cancelled, Updated
  <2> QED BY <1>5, <2>1, <2>2 DEF WasLost, WaiterInv
<1> QED BY <1>1, <1>2, <1>3, <1>4, <1>5 DEF WaiterMove

\* The waiter invariant holds of every action.
LEMMA WaiterInvariant == Spec => [](\A a \in Actions : WaiterInv(a))
<1>1. Init => \A a \in Actions : WaiterInv(a)
  BY DEF Init, WaiterInv, AbsentRow, Live
<1>2. /\ TypeOK /\ TypeOK' /\ (\A a \in Actions : ClaimInv(a))
      /\ (\A a \in Actions : WaiterInv(a)) /\ [Next]_vars
      => (\A a \in Actions : WaiterInv(a))'
  BY StepsAreWaiterMoves, WaiterInvStep
<1> QED BY <1>1, <1>2, TypeCorrect, ClaimInvariant, PTL DEF Spec

\* No tool call hangs and none is abandoned: while the host serves, the live
\* rows are exactly those a waiter of request() is blocked on.
THEOREM WaitersAreLiveRows == Spec => []WaitersMatchLiveRows
<1>1. TypeOK /\ (\A a \in Actions : WaiterInv(a)) => WaitersMatchLiveRows
  BY DEF WaiterInv, WaitersMatchLiveRows, TypeOK
<1> QED BY <1>1, TypeCorrect, WaiterInvariant, PTL

\* What the agent was told is what the durable row holds, but for a shutdown
\* that could no longer write it.
THEOREM AnswersAgree == Spec => []AnswerAgreesWithRow
<1>1. (\A a \in Actions : WaiterInv(a)) => AnswerAgreesWithRow
  BY DEF WaiterInv, AnswerAgreesWithRow
<1> QED BY <1>1, WaiterInvariant, PTL

-----------------------------------------------------------------------------
(* Rows and their session.  Rows move and sessions change in the same step:  *)
(* every path that changes a session's controller, closes it or ends its     *)
(* turn rewrites the session's live rows as well.                            *)

FollowsSession(a) ==
  Live(row[a]) =>
    /\ row[a].controller = session[row[a].session].controller
    /\ ~session[row[a].session].closed
    /\ row[a].state = "claimed" => session[row[a].session].streaming

\* The row is not live, stays addressed as it was, or was requeued as it was addressed.
StaysAddressed(a) ==
  Live(row'[a]) =>
    /\ Live(row[a])
    /\ row'[a].session = row[a].session /\ row'[a].controller = row[a].controller
    /\ row'[a].state = "claimed" => row[a].state = "claimed"

\* Cancelling rows addresses none anew.
LEMMA CancelledStaysAddressed ==
  ASSUME NEW S, row' = CancelRows(S), NEW a \in Actions
  PROVE  StaysAddressed(a) /\ (a \in S => ~Live(row'[a]))
BY DEF CancelRows, Cancelled, Updated, Live, StaysAddressed

\* A sweep addresses none anew.
LEMMA SweptStaysAddressed ==
  ASSUME NEW a \in Actions
  PROVE  LET r == SweptRow(row[a]) IN
         Live(r) => /\ Live(row[a]) /\ r.session = row[a].session
                    /\ r.controller = row[a].controller
                    /\ r.state = "claimed" => row[a].state = "claimed"
BY DEF SweptRow, Cancelled, BackToPending, Updated, Live

\* Every step keeps the live rows with their session.
LEMMA FollowsSessionStep ==
  ASSUME TypeOK, [Next]_vars, NEW a \in Actions, FollowsSession(a)
  PROVE  FollowsSession(a)'
<1>0. row[a] \in Rows /\ row[a].session \in Sessions
  BY DEF TypeOK, Rows
<1>1. ASSUME NEW b \in Actions, NEW s \in Sessions, NEW policy \in Policies, Request(b, s, policy)
      PROVE  FollowsSession(a)'
  <2>1. CASE a = b
    <3>1. /\ row'[a].state = "pending" /\ row'[a].session = s
          /\ row'[a].controller = session[s].controller
      BY <1>1, <2>1 DEF Request, Store, TypeOK
    <3> QED BY <1>1, <3>1 DEF Request, FollowsSession
  <2>2. CASE a # b
    <3>1. row'[a] = row[a]
      BY <1>1, <2>2 DEF Request, Store, TypeOK
    <3> QED BY <1>1, <3>1 DEF Request, FollowsSession
  <2> QED BY <2>1, <2>2
<1>2. ASSUME StaysAddressed(a), session' = session PROVE FollowsSession(a)'
  BY <1>2 DEF StaysAddressed, FollowsSession
<1>3. ASSUME NEW S, CancelAll(S), session' = session PROVE FollowsSession(a)'
  BY <1>2, <1>3, CancelledStaysAddressed DEF CancelAll, Store
<1>4. ASSUME NEW c \in Clients, NEW b \in Actions, NEW v, Claim(c, b, v)
      PROVE  FollowsSession(a)'
  <2>1. /\ row' = [Sweep EXCEPT ![b] = Claimed(@)] /\ session' = session
        /\ Sweep[a] = SweptRow(row[a])
    BY <1>4 DEF Claim, Sweep
  <2>2. CASE a # b
    <3>1. row'[a] = SweptRow(row[a])
      BY <2>1, <2>2 DEF Sweep
    <3>2. StaysAddressed(a)
      BY <3>1, SweptStaysAddressed DEF StaysAddressed
    <3> QED BY <1>2, <2>1, <3>2
  <2>3. CASE a = b
    <3>1. row'[a] = Claimed(SweptRow(row[a]))
      BY <2>1, <2>3 DEF Sweep
    <3>2. SweptRow(row[a]).state = "pending" /\ session[SweptRow(row[a]).session].streaming
      BY <1>4, <2>1, <2>3 DEF Claim, MayClaim
    <3>3. /\ Live(row[a]) /\ SweptRow(row[a]).session = row[a].session
          /\ SweptRow(row[a]).controller = row[a].controller
      BY <3>2, SweptStaysAddressed DEF Live
    <3>4. row'[a].session = row[a].session /\ row'[a].controller = row[a].controller
      BY <3>1, <3>3 DEF Claimed, Updated
    <3> QED BY <2>1, <3>2, <3>3, <3>4 DEF FollowsSession
  <2> QED BY <2>2, <2>3
<1>5. ASSUME NEW g \in grants, RenewClaim(g) PROVE FollowsSession(a)'
  <2>1. StaysAddressed(a)
    BY <1>5 DEF RenewClaim, MayRenew, Store, Renewed, Updated, TypeOK, StaysAddressed, Live
  <2> QED BY <1>2, <1>5, <2>1 DEF RenewClaim
<1>6. ASSUME NEW g \in grants, NEW response \in Responses, Respond(g, response)
      PROVE  FollowsSession(a)'
  <2>1. StaysAddressed(a)
    <3> DEFINE new == [row EXCEPT ![g.action] = Finished(@, response)]
    <3>1. row' = new
      BY <1>6 DEF Respond, Store
    <3>2. Finished(row[g.action], response).state \in Outcomes
      BY DEF Finished, Updated, Responses
    <3> QED BY <3>1, <3>2 DEF TypeOK, StaysAddressed, Live, Outcomes
  <2> QED BY <1>2, <1>6, <2>1 DEF Respond
<1>7. ASSUME NEW s \in Sessions, StartTurn(s) PROVE FollowsSession(a)'
  BY <1>0, <1>7 DEF StartTurn, FollowsSession, TypeOK, SessionViews
<1>8. ASSUME NEW s \in Sessions, EndTurn(s) \/ Close(s) PROVE FollowsSession(a)'
  <2>1. row' = CancelRows(SessionActions(s))
    BY <1>8 DEF EndTurn, Close, CancelAll, Store
  <2>2. CASE row[a].session = s
    <3>1. ~Live(row'[a])
      BY <2>1, <2>2, CancelledStaysAddressed DEF SessionActions
    <3> QED BY <3>1 DEF FollowsSession
  <2>3. CASE row[a].session # s
    <3>1. session'[row[a].session] = session[row[a].session]
      BY <1>0, <1>8, <2>3 DEF EndTurn, Close, TypeOK
    <3>2. StaysAddressed(a)
      BY <2>1, CancelledStaysAddressed
    <3> QED BY <3>1, <3>2 DEF StaysAddressed, FollowsSession
  <2> QED BY <2>2, <2>3
<1>9. ASSUME NEW s \in Sessions, NEW c \in Clients, Rebind(s, c) PROVE FollowsSession(a)'
  <2>1. /\ row'[a] = ReboundRow(row[a], s, c) /\ ~session[s].closed /\ session[s].controller # c
        /\ session' = [session EXCEPT ![s].controller = c,
                                      ![s].grant = IF @ = "none" THEN "full" ELSE @]
    BY <1>9 DEF Rebind, Store, Rebound
  <2>2. CASE row[a].session = s
    <3>1. session'[s].controller = c /\ session'[s].closed = session[s].closed
      BY <2>1 DEF TypeOK, SessionViews
    <3>2. \/ ~Live(row'[a])
          \/ row'[a].controller = c /\ row'[a].session = s /\ row'[a].state = "pending"
      BY <2>1, <2>2 DEF FollowsSession, ReboundRow, Live, BackToPending, Cancelled, Updated
    <3> QED BY <2>1, <3>1, <3>2 DEF FollowsSession
  <2>3. CASE row[a].session # s
    <3>1. session'[row[a].session] = session[row[a].session] /\ row'[a] = row[a]
      BY <1>0, <2>1, <2>3 DEF ReboundRow, TypeOK
    <3> QED BY <3>1 DEF FollowsSession
  <2> QED BY <2>2, <2>3
<1>10. CASE Reconcile
  <2>1. row'[a] = SweptRow(row[a]) /\ session' = session
    BY <1>10 DEF Reconcile, Store, Sweep
  <2>2. StaysAddressed(a)
    BY <2>1, SweptStaysAddressed DEF StaysAddressed
  <2> QED BY <1>2, <2>1, <2>2
<1>11. CASE Shutdown
  <2>1. StaysAddressed(a)
    BY <1>11, CancelledStaysAddressed DEF Shutdown, Store, rowVars, StaysAddressed
  <2> QED BY <1>2, <1>11, <2>1 DEF Shutdown
<1>12. CASE Restart
  BY <1>12, CancelledStaysAddressed DEF Restart, Store, FollowsSession
<1>13. ASSUME UNCHANGED <<row, session>> PROVE FollowsSession(a)'
  BY <1>13 DEF FollowsSession
<1> QED
  BY <1>1, <1>3, <1>4, <1>5, <1>6, <1>7, <1>8, <1>9, <1>10, <1>11, <1>12, <1>13
  DEF Next, CallStep, ControllerStep, SessionStep, HostStep, WaiterTimeout, AbortCall, Interrupt,
      RespondAgain, CancelWaiting, Tick, vars

\* A live action is addressed to its session's present controller, never left
\* behind by a close, and claimed only while a turn runs.
THEOREM RowsFollowSession == Spec => []LiveRowsFollowSession
<1>1. Init => \A a \in Actions : FollowsSession(a)
  BY DEF Init, AbsentRow, FollowsSession, Live
<1>2. TypeOK /\ (\A a \in Actions : FollowsSession(a)) /\ [Next]_vars
        => (\A a \in Actions : FollowsSession(a))'
  BY FollowsSessionStep
<1>3. (\A a \in Actions : FollowsSession(a)) => LiveRowsFollowSession
  BY DEF FollowsSession, LiveRowsFollowSession
<1> QED BY <1>1, <1>2, <1>3, TypeCorrect, PTL DEF Spec

-----------------------------------------------------------------------------
(* The change log.  One transaction logs each row it touched once, one       *)
(* version on, so what it appends continues each row's own history.          *)

\* SetToSeq lists every element of a finite set exactly once.
LEMMA SetToSeqOnce ==
  ASSUME NEW S, IsFiniteSet(S)
  PROVE  /\ SetToSeq(S) \in Seq(S)
         /\ \A x \in S : \E i \in 1..Len(SetToSeq(S)) : SetToSeq(S)[i] = x
         /\ \A i, j \in 1..Len(SetToSeq(S)) : SetToSeq(S)[i] = SetToSeq(S)[j] => i = j
<1> DEFINE n == Cardinality(S)
           f == SetToSeq(S)
<1>1. n \in Nat /\ ExistsBijection(1..n, S)
  BY FS_CardinalityType
<1>2. PICK g \in [1..n -> S] : IsInjective(g)
  BY <1>1 DEF ExistsBijection, Bijection, Injection, IsInjective
<1>3. f \in [1..n -> S] /\ IsInjective(f)
  BY <1>2 DEF SetToSeq
<1>4. f \in Injection(1..n, S)
  BY <1>3 DEF Injection, IsInjective
<1>5. Cardinality(1..n) = n
  <2>1. n >= 1 \/ n = 0
    BY <1>1
  <2> QED BY <1>1, <2>1, FS_Interval
<1> HIDE DEF f, n
<1>6. f \in Surjection(1..n, S)
  <2>1. Cardinality(1..n) = Cardinality(S)
    BY <1>5 DEF n
  <2> QED BY <1>4, <2>1, FS_Injection
<1>7. f \in Seq(S) /\ Len(f) = n
  BY <1>1, <1>3
<1>8. \A x \in S : \E i \in 1..n : f[i] = x
  BY <1>6 DEF Surjection
<1>9. \A i, j \in 1..n : f[i] = f[j] => i = j
  BY <1>3 DEF IsInjective
<1> QED BY <1>7, <1>8, <1>9 DEF f

Gapless(a, r, log) ==
  /\ {log[p].version : p \in Told(a, log)} = 1..r.version
  /\ \A p, q \in Told(a, log) : p < q => log[p].version < log[q].version
  /\ \A p \in Told(a, log) : log[p].version = r.version => log[p] = Entry(a, r)

\* Each row is kept or moves one version on.
OneVersionOn(old, new) ==
  \A a \in Actions : new[a] # old[a] => new[a].version = old[a].version + 1

\* What a transaction appends tells once of a row it touched, and of no other.
LEMMA LogTellsOnce ==
  ASSUME NEW old, NEW new, NEW a \in Actions
  PROVE  /\ new[a] = old[a] => Told(a, Log(old, new)) = {}
         /\ new[a] # old[a] =>
              \E i \in 1..Len(Log(old, new)) :
                Told(a, Log(old, new)) = {i} /\ Log(old, new)[i] = Entry(a, new[a])
         /\ Len(Log(old, new)) \in Nat /\ DOMAIN Log(old, new) = 1..Len(Log(old, new))
<1> DEFINE T == {b \in Actions : new[b] # old[b]}
           ids == SetToSeq(T)
           L == [i \in 1..Len(ids) |-> Entry(ids[i], new[ids[i]])]
<1>1. IsFiniteSet(T)
  BY FiniteActions, FS_Subset
<1>2. /\ ids \in Seq(T)
      /\ \A x \in T : \E i \in 1..Len(ids) : ids[i] = x
      /\ \A i, j \in 1..Len(ids) : ids[i] = ids[j] => i = j
  <2> HIDE DEF T
  <2> QED BY <1>1, SetToSeqOnce
<1> HIDE DEF ids
<1>3. Log(old, new) = L
  BY DEF Log, ids
<1>4. Len(ids) \in Nat /\ \A i \in 1..Len(ids) : ids[i] \in T
  BY <1>2
<1>5. Len(L) = Len(ids) /\ DOMAIN L = 1..Len(ids)
  BY <1>4
<1>6. \A i \in 1..Len(ids) : L[i] = Entry(ids[i], new[ids[i]]) /\ L[i].action = ids[i]
  BY DEF Entry
<1>7. new[a] = old[a] => Told(a, L) = {}
  BY <1>4, <1>5, <1>6 DEF Told
<1>8. ASSUME new[a] # old[a]
      PROVE  \E i \in 1..Len(L) : Told(a, L) = {i} /\ L[i] = Entry(a, new[a])
  <2>1. PICK i \in 1..Len(ids) : ids[i] = a
    BY <1>2, <1>8
  <2>2. Told(a, L) = {i}
    BY <1>2, <1>5, <1>6, <2>1 DEF Told
  <2>3. L[i] = Entry(a, new[a])
    BY <1>6, <2>1
  <2> QED BY <1>5, <2>1, <2>2, <2>3
<1> QED BY <1>3, <1>4, <1>5, <1>7, <1>8

\* A transaction's log continues the history of every row.
LEMMA LogContinues ==
  ASSUME NEW log \in Seq(Changes), NEW old \in [Actions -> Rows], NEW new \in [Actions -> Rows],
         OneVersionOn(old, new), NEW a \in Actions, Gapless(a, old[a], log)
  PROVE  Gapless(a, new[a], log \o Log(old, new))
<1> DEFINE L == Log(old, new)
           n == Len(log)
           all == log \o L
<1>1. /\ new[a] = old[a] => Told(a, L) = {}
      /\ new[a] # old[a] =>
           \E i \in 1..Len(L) : Told(a, L) = {i} /\ L[i] = Entry(a, new[a])
      /\ Len(L) \in Nat /\ DOMAIN L = 1..Len(L)
  BY LogTellsOnce
<1>2. L \in Seq(Changes)
  BY LogType
<1> HIDE DEF L
<1>3. /\ n \in Nat /\ all \in Seq(Changes) /\ DOMAIN all = 1..(n + Len(L)) /\ DOMAIN log = 1..n
      /\ \A p \in 1..n : all[p] = log[p]
      /\ \A p \in 1..Len(L) : all[n + p] = L[p]
  BY <1>2
<1> HIDE DEF all, n
<1>4. Told(a, all) = Told(a, log) \cup {n + i : i \in Told(a, L)}
  <2>1. \A p \in DOMAIN all : p \in 1..n \/ \E i \in 1..Len(L) : p = n + i
    <3> SUFFICES ASSUME NEW p \in DOMAIN all, p \notin 1..n
                 PROVE  \E i \in 1..Len(L) : p = n + i
      OBVIOUS
    <3>1. p - n \in 1..Len(L) /\ p = n + (p - n)
      BY <1>1, <1>3
    <3> QED BY <3>1
  <2>2. \A i \in 1..Len(L) : n + i \in DOMAIN all
    BY <1>1, <1>3
  <2>3. \A p \in 1..n : p \in DOMAIN all
    BY <1>1, <1>3
  <2>4. ASSUME NEW p \in Told(a, all) PROVE p \in Told(a, log) \cup {n + i : i \in Told(a, L)}
    <3>1. p \in DOMAIN all /\ all[p].action = a
      BY DEF Told
    <3>2. CASE p \in 1..n
      BY <1>3, <3>1, <3>2 DEF Told
    <3>3. CASE \E i \in 1..Len(L) : p = n + i
      <4>1. PICK i \in 1..Len(L) : p = n + i
        BY <3>3
      <4>2. all[p] = L[i]
        BY <1>3, <4>1
      <4>3. i \in Told(a, L)
        BY <1>1, <3>1, <4>1, <4>2 DEF Told
      <4> QED BY <4>1, <4>3
    <3> QED BY <2>1, <3>1, <3>2, <3>3
  <2>5. \A p \in Told(a, log) : p \in Told(a, all)
    BY <1>3, <2>3 DEF Told
  <2>6. \A i \in Told(a, L) : n + i \in Told(a, all)
    BY <1>1, <1>3, <2>2 DEF Told
  <2> QED BY <2>4, <2>5, <2>6
<1>5. /\ old[a].version \in Nat
      /\ \A p \in Told(a, log) : p \in 1..n /\ all[p] = log[p] /\ log[p].version \in Nat
  <2>1. \A p \in Told(a, log) : p \in 1..n
    BY <1>3 DEF Told
  <2>2. \A p \in 1..n : log[p] \in Changes
    BY <1>3 DEF n
  <2> QED BY <1>3, <2>1, <2>2 DEF Rows, Changes
<1>6. CASE new[a] = old[a]
  <2>1. Told(a, all) = Told(a, log)
    BY <1>1, <1>4, <1>6
  <2> QED BY <1>5, <1>6, <2>1 DEF Gapless, all, L
<1>7. CASE new[a] # old[a]
  <2> DEFINE v == old[a].version
  <2>1. PICK i \in 1..Len(L) : Told(a, L) = {i} /\ L[i] = Entry(a, new[a])
    BY <1>1, <1>7
  <2>2. new[a].version = v + 1
    BY <1>7 DEF OneVersionOn
  <2>3. Told(a, all) = Told(a, log) \cup {n + i}
    BY <1>4, <2>1
  <2>4. all[n + i] = Entry(a, new[a]) /\ all[n + i].version = v + 1
    BY <1>3, <2>1, <2>2 DEF Entry
  <2>5. {all[p].version : p \in Told(a, all)} = {log[p].version : p \in Told(a, log)} \cup {v + 1}
    BY <1>5, <2>3, <2>4
  <2>6. {all[p].version : p \in Told(a, all)} = 1..new[a].version
    <3>1. {log[p].version : p \in Told(a, log)} = 1..v
      BY DEF Gapless
    <3>2. (1..v) \cup {v + 1} = 1..(v + 1)
      BY <1>5
    <3> QED BY <2>2, <2>5, <3>1, <3>2
  <2>7. \A p \in Told(a, log) : log[p].version \in 1..v
    BY DEF Gapless
  <2>8. n + i \in Nat /\ \A p \in Told(a, log) : p < n + i
    BY <1>1, <1>3, <1>5, <2>1
  <2>9. ASSUME NEW p \in Told(a, all), NEW q \in Told(a, all), p < q
        PROVE  all[p].version < all[q].version
    <3>1. CASE q \in Told(a, log)
      <4>1. p \in Told(a, log)
        BY <1>3, <1>5, <2>3, <2>8, <2>9, <3>1
      <4> QED BY <1>5, <2>9, <3>1, <4>1 DEF Gapless
    <3>2. CASE q = n + i
      <4>1. p \in Told(a, log)
        BY <2>3, <2>8, <2>9, <3>2
      <4> QED BY <1>5, <2>4, <2>7, <3>2, <4>1
    <3> QED BY <2>3, <3>1, <3>2
  <2>10. ASSUME NEW p \in Told(a, all), all[p].version = new[a].version
         PROVE  all[p] = Entry(a, new[a])
    <3>1. p \notin Told(a, log)
      BY <1>5, <2>2, <2>7, <2>10
    <3> QED BY <2>3, <2>4, <3>1
  <2> QED BY <2>6, <2>9, <2>10 DEF Gapless, all, L
<1> QED BY <1>6, <1>7

\* The updates move a row one version on.
LEMMA UpdatesMoveOne ==
  ASSUME TypeOK
  PROVE  /\ \A S : CancelRows(S) \in [Actions -> Rows] /\ OneVersionOn(row, CancelRows(S))
         /\ Sweep \in [Actions -> Rows] /\ OneVersionOn(row, Sweep)
         /\ \A s \in Sessions, c \in Clients :
              Rebound(s, c) \in [Actions -> Rows] /\ OneVersionOn(row, Rebound(s, c))
<1>1. ASSUME NEW S PROVE CancelRows(S) \in [Actions -> Rows] /\ OneVersionOn(row, CancelRows(S))
  <2>1. CancelRows(S) \in [Actions -> Rows]
    BY RowUpdateType DEF CancelRows, TypeOK
  <2> QED BY <2>1 DEF CancelRows, OneVersionOn, Cancelled, Updated
<1>2. Sweep \in [Actions -> Rows] /\ OneVersionOn(row, Sweep)
  <2>1. Sweep \in [Actions -> Rows]
    BY RowUpdateType DEF Sweep, SweptRow, TypeOK
  <2> QED BY <2>1 DEF Sweep, SweptRow, OneVersionOn, Cancelled, BackToPending, Updated
<1>3. ASSUME NEW s \in Sessions, NEW c \in Clients
      PROVE  Rebound(s, c) \in [Actions -> Rows] /\ OneVersionOn(row, Rebound(s, c))
  <2>1. Rebound(s, c) \in [Actions -> Rows]
    BY RowUpdateType DEF Rebound, ReboundRow, TypeOK
  <2> QED BY <2>1 DEF Rebound, ReboundRow, OneVersionOn, Cancelled, BackToPending, Updated
<1> QED BY <1>1, <1>2, <1>3

AllGapless == \A a \in Actions : Gapless(a, row[a], changes)

\* A transaction keeps the log gapless.
LEMMA StoreKeepsGapless ==
  ASSUME TypeOK, AllGapless, NEW new \in [Actions -> Rows], OneVersionOn(row, new), Store(new)
  PROVE  AllGapless'
BY LogContinues DEF TypeOK, AllGapless, Store

\* An absent row has never been written.
AbsentIsNew == \A a \in Actions : row[a].state = "absent" => row[a].version = 0

\* Every step keeps the log gapless.
LEMMA GaplessStep ==
  ASSUME TypeOK, [Next]_vars, AllGapless, AbsentIsNew
  PROVE  AllGapless'
<1>1. ASSUME NEW a \in Actions, NEW s \in Sessions, NEW policy \in Policies, Request(a, s, policy)
      PROVE  AllGapless'
  <2> DEFINE new == [row EXCEPT ![a] =
               [ state |-> "pending", version |-> 1, session |-> s,
                 controller |-> session[s].controller, policy |-> policy,
                 deadline |-> now + Deadline, token |-> 0, claimExpires |-> 0,
                 response |-> NoResponse ]]
  <2>1. new \in [Actions -> Rows]
    BY DurationsAreNat, PoliciesAreKnown DEF TypeOK, Rows, States, SessionViews
  <2>2. row[a].version = 0
    BY <1>1 DEF Request, AbsentIsNew
  <2>3. OneVersionOn(row, new)
    BY <2>2 DEF OneVersionOn, TypeOK
  <2>4. Store(new)
    BY <1>1 DEF Request
  <2> HIDE DEF new
  <2> QED BY <2>1, <2>3, <2>4, StoreKeepsGapless
<1>2. ASSUME NEW S, CancelAll(S) PROVE AllGapless'
  <2>1. CancelRows(S) \in [Actions -> Rows] /\ OneVersionOn(row, CancelRows(S)) /\ Store(CancelRows(S))
    BY <1>2, UpdatesMoveOne DEF CancelAll
  <2> QED BY <2>1, StoreKeepsGapless
<1>3. ASSUME NEW c \in Clients, NEW a \in Actions, NEW v, Claim(c, a, v)
      PROVE  AllGapless'
  <2> DEFINE swept == Sweep
             new == [swept EXCEPT ![a] = Claimed(@)]
  <2>1. swept \in [Actions -> Rows] /\ OneVersionOn(row, swept)
    BY UpdatesMoveOne
  <2>2. row' = new /\ changes' = changes \o Log(row, swept) \o Log(swept, new)
    BY <1>3 DEF Claim
  <2> HIDE DEF swept
  <2>3. Claimed(swept[a]) \in Rows /\ Claimed(swept[a]).version = swept[a].version + 1
    BY <2>1, DurationsAreNat DEF Claimed, Updated, Rows, States, TypeOK
  <2>4. new \in [Actions -> Rows] /\ OneVersionOn(swept, new)
    BY <2>1, <2>3 DEF OneVersionOn
  <2> HIDE DEF new
  <2> DEFINE log == changes \o Log(row, swept)
  <2>5. log \in Seq(Changes)
    BY <2>1, LogType DEF TypeOK
  <2>6. \A b \in Actions : Gapless(b, swept[b], log)
    BY <2>1, LogContinues DEF TypeOK, AllGapless
  <2> HIDE DEF log
  <2>7. \A b \in Actions : Gapless(b, new[b], log \o Log(swept, new))
    BY <2>1, <2>4, <2>5, <2>6, LogContinues
  <2> QED BY <2>2, <2>7 DEF AllGapless, log
<1>4. ASSUME NEW g \in grants, RenewClaim(g) PROVE AllGapless'
  <2> DEFINE new == [row EXCEPT ![g.action] = Renewed(@)]
  <2>0. g.action \in Actions /\ row[g.action] \in Rows
    BY DEF TypeOK, Grants
  <2>1. Renewed(row[g.action]) \in Rows /\ Renewed(row[g.action]).version = row[g.action].version + 1
    BY <2>0, DurationsAreNat DEF Renewed, Updated, Rows, States, TypeOK
  <2>2. new \in [Actions -> Rows] /\ OneVersionOn(row, new)
    BY <2>0, <2>1 DEF TypeOK, OneVersionOn
  <2>3. Store(new)
    BY <1>4 DEF RenewClaim
  <2> HIDE DEF new
  <2> QED BY <2>2, <2>3, StoreKeepsGapless
<1>5. ASSUME NEW g \in grants, NEW response \in Responses, Respond(g, response) PROVE AllGapless'
  <2> DEFINE new == [row EXCEPT ![g.action] = Finished(@, response)]
  <2>0. g.action \in Actions /\ row[g.action] \in Rows
    BY DEF TypeOK, Grants
  <2>1. /\ Finished(row[g.action], response) \in Rows
        /\ Finished(row[g.action], response).version = row[g.action].version + 1
    BY <2>0 DEF Finished, Updated, Rows, States, Terminal, Responses
  <2>2. new \in [Actions -> Rows] /\ OneVersionOn(row, new)
    BY <2>0, <2>1 DEF TypeOK, OneVersionOn
  <2>3. Store(new)
    BY <1>5 DEF Respond
  <2> HIDE DEF new
  <2> QED BY <2>2, <2>3, StoreKeepsGapless
<1>6. ASSUME NEW s \in Sessions, NEW c \in Clients, Rebind(s, c) PROVE AllGapless'
  <2>1. /\ Rebound(s, c) \in [Actions -> Rows] /\ OneVersionOn(row, Rebound(s, c))
        /\ Store(Rebound(s, c))
    BY <1>6, UpdatesMoveOne DEF Rebind
  <2> QED BY <2>1, StoreKeepsGapless
<1>7. CASE Reconcile
  <2>1. Sweep \in [Actions -> Rows] /\ OneVersionOn(row, Sweep) /\ Store(Sweep)
    BY <1>7, UpdatesMoveOne DEF Reconcile
  <2> QED BY <2>1, StoreKeepsGapless
<1>8. ASSUME NEW S, Store(CancelRows(S)) PROVE AllGapless'
  <2>1. CancelRows(S) \in [Actions -> Rows] /\ OneVersionOn(row, CancelRows(S))
    BY UpdatesMoveOne
  <2> QED BY <1>8, <2>1, StoreKeepsGapless
<1>9. ASSUME UNCHANGED <<row, changes>> PROVE AllGapless'
  BY <1>9 DEF AllGapless
<1> QED
  BY <1>1, <1>2, <1>3, <1>4, <1>5, <1>6, <1>7, <1>8, <1>9
  DEF Next, CallStep, ControllerStep, SessionStep, HostStep, WaiterTimeout, AbortCall, RespondAgain,
      StartTurn, EndTurn, Interrupt, Close, CancelWaiting, Shutdown, Restart, Tick, vars, rowVars

\* No step makes a row absent, and one that writes an absent row opens it.
LEMMA AbsentStep ==
  ASSUME TypeOK, [Next]_vars, AbsentIsNew
  PROVE  AbsentIsNew'
BY StepsAreMoves
DEF AbsentIsNew, RowMove, Kept, Opened, WasCancelled, WasRequeued, WasRenewed, WasHandedOut,
    WasFinished, Outcomes

\* A poller that reads an action's changes misses no transition: the versions
\* run from 1 to the row's in order, and the last entry describes the row.
THEOREM LogGapless == Spec => []LogIsGapless
<1>1. Init => AllGapless /\ AbsentIsNew
  BY DEF Init, AbsentRow, AllGapless, AbsentIsNew, Gapless, Told
<1>2. TypeOK /\ AllGapless /\ AbsentIsNew /\ [Next]_vars => AllGapless' /\ AbsentIsNew'
  BY GaplessStep, AbsentStep
<1>3. AllGapless => LogIsGapless
  BY DEF AllGapless, Gapless, LogIsGapless
<1> QED BY <1>1, <1>2, <1>3, TypeCorrect, PTL DEF Spec

=============================================================================
