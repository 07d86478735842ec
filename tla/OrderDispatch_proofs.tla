------------------------ MODULE OrderDispatch_proofs ------------------------
(***************************************************************************)
(* Proofs about the order journal, the execution authority and the         *)
(* dispatch of orders, for any number of orders, accounts, provider        *)
(* references, executions, processes and concurrent calls, any limits and  *)
(* any number of lookups.                                                  *)
(*                                                                         *)
(* The journal comes first (JournalSpec), then the authority               *)
(* (AuthoritySpec), then what OrderDispatch composes of them.              *)
(***************************************************************************)
EXTENDS OrderDispatch, TLAPS, FiniteSetTheorems

-----------------------------------------------------------------------------
(* The events of the journal.                                                *)

\* The events the journal's writers make carry a provider reference exactly
\* where the order state takes one over, and whole quantities.
WellFormed(e) ==
    /\ e.order \in Order
    /\ e.type \in EventType
    /\ e.ref \in (IF e.type \in {"SUBMIT_ACKNOWLEDGED", "FILL_RECORDED"}
                  THEN ProviderRef ELSE {NoRef})
    /\ e.qty \in (IF e.type = "FILL_RECORDED" THEN Nat ELSE {0})

\* Any event a caller of appendOrderEvent makes up is well formed.
LEMMA CallerEventWellFormed == \A e \in CallerEvent : WellFormed(e)
<1> SUFFICES ASSUME NEW e \in CallerEvent PROVE WellFormed(e)
  OBVIOUS
<1>1. CASE \E o \in Order, id \in EventId :
             \E t \in {"RISK_REJECTED", "SUBMIT_REJECTED", "CANCEL_DISPATCHED",
                      "CANCEL_ACKNOWLEDGED", "CANCEL_REJECTED"} : e = PlainEvent(o, id, t)
  BY <1>1 DEF WellFormed, PlainEvent, EventType
<1>2. CASE \E o \in Order, id \in EventId, r \in ProviderRef : e = AckEvent(o, id, r)
  BY <1>2 DEF WellFormed, AckEvent, PlainEvent, EventType
<1>3. CASE \E o \in Order, id \in EventId, r \in ProviderRef, x \in ExecRef :
             \E n \in {i.qty : i \in Intent} \cup {1} : e = FillEvent(o, id, r, x, n)
  <2>1. PICK o \in Order, id \in EventId, r \in ProviderRef, x \in ExecRef,
             n \in {i.qty : i \in Intent} \cup {1} : e = FillEvent(o, id, r, x, n)
    BY <1>3
  <2>2. n \in Nat
    BY IntentAssumption
  <2>3. QED
    BY <2>1, <2>2 DEF WellFormed, FillEvent, PlainEvent, EventType
<1>4. QED
  BY <1>1, <1>2, <1>3 DEF CallerEvent

-----------------------------------------------------------------------------
(* One order: what a replayed state looks like, and what an event does.     *)

\* A submit without an outcome is what SUBMIT_UNKNOWN means, a cancel without
\* one can only be on an order that was working, FILLED means that nothing is
\* left, and nothing is filled beyond the quantity.
Coherent(q, s) ==
    /\ s \in State
    /\ s.pending = "SUBMIT" <=> s.status = "SUBMIT_UNKNOWN"
    /\ s.status = "CANCEL_UNKNOWN" => s.pending = "CANCEL"
    /\ s.pending = "CANCEL" => s.status \in {"CANCEL_UNKNOWN", "FILLED"}
    /\ s.filled <= q
    /\ s.status = "FILLED" <=> s.filled = q

\* A dispatched order that does not count against the account limit.
Settled(s) == s.status \in PostDispatch /\ ~IsActive(s)

\* What event e keeps when it takes an order from state s to state t.
Keeps(s, e, t) ==
    /\ s.status \in PostDispatch => t.status \in PostDispatch
    /\ Settled(s) => Settled(t)
    /\ s.ref # NoRef => t.ref = s.ref
    /\ e.ref # NoRef => t.ref = e.ref
    /\ t.filled = s.filled + e.qty
    /\ t.pending = "SUBMIT" => s.pending = "SUBMIT" \/ e.type = "SUBMIT_DISPATCHED"

\* A legal event takes a coherent state to a coherent one.
LEMMA TransitionCoherent ==
  ASSUME NEW q \in Nat \ {0}, NEW s, Coherent(q, s),
         NEW e, WellFormed(e), Accepts(q, s, e)
  PROVE  /\ Coherent(q, Transition(q, s, e))
         /\ Keeps(s, e, Transition(q, s, e))
<1> SUFFICES ASSUME NEW t, t = Transition(q, s, e)
             PROVE  Coherent(q, t) /\ Keeps(s, e, t)
  OBVIOUS
<1> USE DEF Coherent, Keeps, Settled, PostDispatch, IsActive, State, Status, Pending
<1>1. CASE e.type = "INTENT_RECORDED"
  <2>1. s.status = "NEW"
    BY <1>1 DEF Accepts
  <2>2. t = [s EXCEPT !.status = "RECORDED"]
    BY <1>1 DEF Transition
  <2>3. /\ t.status = "RECORDED"
        /\ t.pending = s.pending
        /\ t.filled = s.filled /\ t.ref = s.ref
    BY <2>2
  <2>4. t \in State
    BY <2>1, <2>2
  <2>5. QED
    BY <2>1, <2>3, <2>4, <1>1 DEF WellFormed
<1>2. CASE e.type = "RISK_APPROVED"
  <2>1. s.status = "RECORDED"
    BY <1>2 DEF Accepts
  <2>2. t = [s EXCEPT !.status = "READY"]
    BY <1>2 DEF Transition
  <2>3. /\ t.status = "READY"
        /\ t.pending = s.pending
        /\ t.filled = s.filled /\ t.ref = s.ref
    BY <2>2
  <2>4. t \in State
    BY <2>1, <2>2
  <2>5. QED
    BY <2>1, <2>3, <2>4, <1>2 DEF WellFormed
<1>3. CASE e.type = "RISK_REJECTED"
  <2>1. s.status = "RECORDED"
    BY <1>3 DEF Accepts
  <2>2. t = [s EXCEPT !.status = "RISK_REJECTED"]
    BY <1>3 DEF Transition
  <2>3. /\ t.status = "RISK_REJECTED"
        /\ t.pending = s.pending
        /\ t.filled = s.filled /\ t.ref = s.ref
    BY <2>2
  <2>4. t \in State
    BY <2>1, <2>2
  <2>5. QED
    BY <2>1, <2>3, <2>4, <1>3 DEF WellFormed
<1>4. CASE e.type = "SUBMIT_DISPATCHED"
  <2>1. s.status = "READY" /\ s.pending = "NONE"
    BY <1>4 DEF Accepts
  <2>2. t = [s EXCEPT !.status = "SUBMIT_UNKNOWN", !.pending = "SUBMIT"]
    BY <1>4 DEF Transition
  <2>3. /\ t.status = "SUBMIT_UNKNOWN"
        /\ t.pending = "SUBMIT"
        /\ t.filled = s.filled /\ t.ref = s.ref
    BY <2>2
  <2>4. t \in State
    BY <2>1, <2>2
  <2>5. QED
    BY <2>1, <2>3, <2>4, <1>4 DEF WellFormed
<1>5. CASE e.type = "SUBMIT_ACKNOWLEDGED"
  <2>1. s.status = "SUBMIT_UNKNOWN" /\ s.pending = "SUBMIT" /\ s.ref \in {NoRef, e.ref}
    BY <1>5 DEF Accepts, Binds
  <2>2. t = [s EXCEPT !.status = "OPEN", !.pending = "NONE", !.ref = e.ref]
    BY <1>5 DEF Transition
  <2>3. /\ t.status = "OPEN"
        /\ t.pending = "NONE"
        /\ t.filled = s.filled /\ t.ref = e.ref
    BY <2>2
  <2>4. t \in State
    BY <2>1, <2>2, <1>5 DEF WellFormed
  <2>5. QED
    BY <2>1, <2>3, <2>4, <1>5 DEF WellFormed
<1>6. CASE e.type = "SUBMIT_REJECTED"
  <2>1. s.status = "SUBMIT_UNKNOWN" /\ s.pending = "SUBMIT"
    BY <1>6 DEF Accepts
  <2>2. t = [s EXCEPT !.status = "REJECTED", !.pending = "NONE"]
    BY <1>6 DEF Transition
  <2>3. /\ t.status = "REJECTED"
        /\ t.pending = "NONE"
        /\ t.filled = s.filled /\ t.ref = s.ref
    BY <2>2
  <2>4. t \in State
    BY <2>1, <2>2
  <2>5. QED
    BY <2>1, <2>3, <2>4, <1>6 DEF WellFormed
<1>7. CASE e.type = "FILL_RECORDED"
  <2>1. s.status \in Fillable /\ e.qty > 0 /\ s.ref \in {NoRef, e.ref}
        /\ s.filled + e.qty <= q
    BY <1>7 DEF Accepts, Binds
  <2>2. t = [status  |-> StatusAfterFill(q, s.status, s.filled + e.qty),
             filled  |-> s.filled + e.qty,
             ref     |-> e.ref,
             pending |-> IF s.pending = "SUBMIT" THEN "NONE" ELSE s.pending]
    BY <1>7 DEF Transition
  <2>3. /\ t.status = StatusAfterFill(q, s.status, s.filled + e.qty)
        /\ t.pending = (IF s.pending = "SUBMIT" THEN "NONE" ELSE s.pending)
        /\ t.filled = s.filled + e.qty /\ t.ref = e.ref
    BY <2>2
  <2>4. t \in State
    BY <2>1, <2>2, <1>7 DEF StatusAfterFill, Fillable, WellFormed
  <2>5. QED
    BY <2>1, <2>3, <2>4, <1>7 DEF StatusAfterFill, Fillable, WellFormed
<1>8. CASE e.type = "CANCEL_DISPATCHED"
  <2>1. s.status \in {"OPEN", "PARTIALLY_FILLED"} /\ s.pending = "NONE"
    BY <1>8 DEF Accepts
  <2>2. t = [s EXCEPT !.status = "CANCEL_UNKNOWN", !.pending = "CANCEL"]
    BY <1>8 DEF Transition
  <2>3. /\ t.status = "CANCEL_UNKNOWN"
        /\ t.pending = "CANCEL"
        /\ t.filled = s.filled /\ t.ref = s.ref
    BY <2>2
  <2>4. t \in State
    BY <2>1, <2>2
  <2>5. QED
    BY <2>1, <2>3, <2>4, <1>8 DEF WellFormed
<1>9. CASE e.type = "CANCEL_ACKNOWLEDGED"
  <2>1. s.pending = "CANCEL" /\ s.status \in {"CANCEL_UNKNOWN", "FILLED"}
    BY <1>9 DEF Accepts
  <2>2. t = [s EXCEPT !.pending = "NONE",
                      !.status = IF s.filled = q THEN "FILLED" ELSE "CANCELED"]
    BY <1>9 DEF Transition
  <2>3. /\ t.status = (IF s.filled = q THEN "FILLED" ELSE "CANCELED")
        /\ t.pending = "NONE"
        /\ t.filled = s.filled /\ t.ref = s.ref
    BY <2>2
  <2>4. t \in State
    BY <2>1, <2>2
  <2>5. QED
    BY <2>1, <2>3, <2>4, <1>9 DEF WellFormed
<1>10. CASE e.type = "CANCEL_REJECTED"
  <2>1. s.pending = "CANCEL" /\ s.status \in {"CANCEL_UNKNOWN", "FILLED"}
    BY <1>10 DEF Accepts
  <2>2. t = [s EXCEPT !.pending = "NONE",
                      !.status = StatusAfterRefusedCancel(q, s.filled)]
    BY <1>10 DEF Transition
  <2>3. /\ t.status = StatusAfterRefusedCancel(q, s.filled)
        /\ t.pending = "NONE"
        /\ t.filled = s.filled /\ t.ref = s.ref
    BY <2>2
  <2>4. t \in State
    BY <2>1, <2>2, <1>10 DEF StatusAfterRefusedCancel
  <2>5. QED
    BY <2>1, <2>3, <2>4, <1>10 DEF StatusAfterRefusedCancel, WellFormed
<1>11. QED
  BY <1>1, <1>2, <1>3, <1>4, <1>5, <1>6, <1>7, <1>8, <1>9, <1>10 DEF WellFormed, EventType

-----------------------------------------------------------------------------
(* The orders of the journal                                                *)

\* Inductive: every registered order is in a coherent state, an unregistered
\* one has none, and the submits in flight exclude each other.
OrdersInv ==
    /\ JournalTypeOK
    /\ \A o \in Order : IF IsRecorded(o) THEN Coherent(intent[o].qty, order[o])
                        ELSE order[o] = NewState
    /\ OneSubmitInFlight

\* The quantity of a registered order is positive.
LEMMA PositiveQuantity ==
  ASSUME JournalTypeOK, NEW o \in Order, IsRecorded(o)
  PROVE  intent[o] \in Intent /\ intent[o].qty \in Nat \ {0}
  BY IntentAssumption DEF JournalTypeOK, IsRecorded

LEMMA InitOrders == JournalInit => OrdersInv
<1> SUFFICES ASSUME JournalInit PROVE OrdersInv
  OBVIOUS
<1>1. NewState \in State
  BY DEF NewState, State, Status, Pending
<1>2. JournalTypeOK
  BY <1>1 DEF JournalInit, JournalTypeOK
<1>3. OneSubmitInFlight
  BY DEF JournalInit, OneSubmitInFlight, NewState
<1>4. QED
  BY <1>2, <1>3 DEF OrdersInv, JournalInit, IsRecorded

\* What every change of the journal does to the orders: all but one stay as
\* they are, and that one keeps what an accepted event keeps.
OrdersKeep ==
    \A d \in Order :
        \/ UNCHANGED <<intent[d], order[d]>>
        \/ /\ ~IsRecorded(d) /\ order'[d].pending = "NONE"
        \/ /\ UNCHANGED intent[d]
           /\ order[d].status \in PostDispatch => order'[d].status \in PostDispatch
           /\ Settled(order[d]) => Settled(order'[d])
           /\ order[d].filled <= order'[d].filled

LEMMA RecordIntentStep ==
  ASSUME OrdersInv, NEW o \in Order, NEW i \in Intent, RecordIntent(o, i)
  PROVE  OrdersInv' /\ OrdersKeep
<1> DEFINE e == PlainEvent(o, <<o, "INTENT_RECORDED">>, "INTENT_RECORDED")
<1>1. order[o] = NewState
  BY DEF OrdersInv, RecordIntent
<1>2. Transition(i.qty, NewState, e) = [NewState EXCEPT !.status = "RECORDED"]
  BY DEF Transition, PlainEvent
<1>3. /\ intent' = [intent EXCEPT ![o] = i]
      /\ order' = [order EXCEPT ![o] = [NewState EXCEPT !.status = "RECORDED"]]
      /\ DOMAIN log' = Order
  BY <1>1, <1>2 DEF RecordIntent, OrdersInv, JournalTypeOK
<1>4. /\ [NewState EXCEPT !.status = "RECORDED"] \in State
      /\ Coherent(i.qty, [NewState EXCEPT !.status = "RECORDED"])
  BY IntentAssumption DEF Coherent, NewState, State, Status, Pending
<1>5. JournalTypeOK'
  BY <1>3, <1>4 DEF OrdersInv, JournalTypeOK
<1>6. \A d \in Order : d # o => intent'[d] = intent[d] /\ order'[d] = order[d]
  BY <1>3 DEF OrdersInv, JournalTypeOK
<1>7. intent'[o] = i /\ order'[o] = [NewState EXCEPT !.status = "RECORDED"]
  BY <1>3 DEF OrdersInv, JournalTypeOK
<1>8. order'[o].pending = "NONE"
  BY <1>7 DEF NewState
<1>9. OneSubmitInFlight'
  BY <1>6, <1>8 DEF OrdersInv, OneSubmitInFlight
<1>10. \A d \in Order : (IF IsRecorded(d) THEN Coherent(intent[d].qty, order[d])
                         ELSE order[d] = NewState)'
  BY <1>4, <1>6, <1>7, IntentAssumption DEF OrdersInv, IsRecorded
<1>11. OrdersKeep
  BY <1>6, <1>8 DEF OrdersKeep, RecordIntent
<1>12. QED
  BY <1>5, <1>9, <1>10, <1>11 DEF OrdersInv

LEMMA InsertDispatchStep ==
  ASSUME OrdersInv, NEW o \in Order, InsertDispatch(o)
  PROVE  OrdersInv' /\ OrdersKeep
<1> DEFINE risk == PlainEvent(o, <<o, "RISK_APPROVED">>, "RISK_APPROVED")
           submit == PlainEvent(o, <<o, "SUBMIT_DISPATCHED">>, "SUBMIT_DISPATCHED")
           q == intent[o].qty
           s == order[o]
           t == [s EXCEPT !.status = "SUBMIT_UNKNOWN", !.pending = "SUBMIT"]
<1>1. /\ IsRecorded(o) /\ s.status = "RECORDED" /\ s.pending = "NONE"
      /\ ~HasUnresolvedOrder(AccountOf[o])
      /\ intent' = intent
  BY DEF InsertDispatch
<1>2. s \in State /\ q \in Nat \ {0} /\ Coherent(q, s)
  BY <1>1, PositiveQuantity DEF OrdersInv, JournalTypeOK
<1>3. Transition(q, s, risk) = [s EXCEPT !.status = "READY"]
  BY DEF Transition, PlainEvent
<1>4. Transition(q, [s EXCEPT !.status = "READY"], submit) = t
  <2>1. submit.type = "SUBMIT_DISPATCHED"
    BY DEF PlainEvent
  <2>2. Transition(q, [s EXCEPT !.status = "READY"], submit) =
            [[s EXCEPT !.status = "READY"] EXCEPT !.status = "SUBMIT_UNKNOWN",
                                                  !.pending = "SUBMIT"]
    BY <2>1 DEF Transition
  <2>3. QED
    BY <2>2, <1>2 DEF State
<1>5. order' = [order EXCEPT ![o] = t]
  BY <1>3, <1>4 DEF InsertDispatch
<1>6. /\ t \in State /\ t.status = "SUBMIT_UNKNOWN" /\ t.pending = "SUBMIT"
      /\ t.filled = s.filled
  BY <1>2 DEF State, Status, Pending
<1> HIDE DEF t
<1>7. Coherent(q, t)
  BY <1>1, <1>2, <1>6 DEF Coherent
<1>8. order'[o] = t /\ \A d \in Order : d # o => order'[d] = order[d]
  BY <1>5 DEF OrdersInv, JournalTypeOK
<1>9. JournalTypeOK'
  BY <1>1, <1>5, <1>6 DEF OrdersInv, JournalTypeOK, InsertDispatch
<1>10. \A d \in Order : AccountOf[d] = AccountOf[o] => order[d].pending # "SUBMIT"
  <2> SUFFICES ASSUME NEW d \in Order, AccountOf[d] = AccountOf[o]
               PROVE  order[d].pending # "SUBMIT"
    OBVIOUS
  <2>1. CASE IsRecorded(d)
    BY <2>1, <1>1 DEF HasUnresolvedOrder
  <2>2. CASE ~IsRecorded(d)
    BY <2>2 DEF OrdersInv, NewState
  <2>3. QED
    BY <2>1, <2>2
<1>11. OneSubmitInFlight'
  BY <1>8, <1>10 DEF OrdersInv, OneSubmitInFlight
<1>12. \A d \in Order : (IF IsRecorded(d) THEN Coherent(intent[d].qty, order[d])
                         ELSE order[d] = NewState)'
  BY <1>1, <1>7, <1>8 DEF OrdersInv, IsRecorded
<1>13. OrdersKeep
  BY <1>1, <1>2, <1>6, <1>8 DEF OrdersKeep, PostDispatch, Settled, State
<1>14. QED
  BY <1>9, <1>11, <1>12, <1>13 DEF OrdersInv

LEMMA AppendEventStep ==
  ASSUME OrdersInv, NEW e, WellFormed(e), AppendEvent(e)
  PROVE  /\ OrdersInv' /\ OrdersKeep
         /\ Keeps(order[e.order], e, order'[e.order])
<1> DEFINE o == e.order
           q == intent[o].qty
           s == order[o]
           t == Transition(q, s, e)
<1>1. /\ o \in Order /\ IsRecorded(o) /\ Accepts(q, s, e)
      /\ e.type # "SUBMIT_DISPATCHED"
      /\ order' = [order EXCEPT ![o] = t] /\ intent' = intent
      /\ log' = [log EXCEPT ![o] = Append(@, e)]
  BY DEF AppendEvent, IsInsertable, Insert, WellFormed
<1>2. q \in Nat \ {0} /\ Coherent(q, s)
  BY <1>1, PositiveQuantity DEF OrdersInv
<1>3. Coherent(q, t) /\ Keeps(s, e, t)
  BY <1>1, <1>2, TransitionCoherent
<1> HIDE DEF t
<1>4. order'[o] = t /\ \A d \in Order : d # o => order'[d] = order[d]
  BY <1>1 DEF OrdersInv, JournalTypeOK
<1>5. JournalTypeOK'
  BY <1>1, <1>3 DEF OrdersInv, JournalTypeOK, Coherent
<1>6. OneSubmitInFlight'
  BY <1>1, <1>3, <1>4 DEF OrdersInv, OneSubmitInFlight, Keeps
<1>7. \A d \in Order : (IF IsRecorded(d) THEN Coherent(intent[d].qty, order[d])
                        ELSE order[d] = NewState)'
  BY <1>1, <1>3, <1>4 DEF OrdersInv, IsRecorded
<1>8. s.filled <= t.filled
  <2>1. e.qty \in Nat /\ s.filled \in Nat
    BY <1>2 DEF WellFormed, Coherent, State
  <2>2. QED
    BY <1>3, <2>1 DEF Keeps
<1>9. OrdersKeep
  BY <1>1, <1>3, <1>4, <1>8 DEF OrdersKeep, Keeps
<1>10. QED
  BY <1>3, <1>4, <1>5, <1>6, <1>7, <1>9 DEF OrdersInv

LEMMA NextOrders == OrdersInv /\ [JournalNext]_journalVars => OrdersInv' /\ OrdersKeep
<1> SUFFICES ASSUME OrdersInv, [JournalNext]_journalVars PROVE OrdersInv' /\ OrdersKeep
  OBVIOUS
<1>1. ASSUME NEW o \in Order, NEW i \in Intent, RecordIntent(o, i)
      PROVE  OrdersInv' /\ OrdersKeep
  BY <1>1, RecordIntentStep
<1>2. ASSUME NEW o \in Order, InsertDispatch(o)
      PROVE  OrdersInv' /\ OrdersKeep
  BY <1>2, InsertDispatchStep
<1>3. ASSUME NEW e \in CallerEvent, AppendEvent(e)
      PROVE  OrdersInv' /\ OrdersKeep
  BY <1>3, CallerEventWellFormed, AppendEventStep
<1>4. CASE UNCHANGED journalVars
  BY <1>4 DEF journalVars, OrdersInv, JournalTypeOK, IsRecorded, OneSubmitInFlight, OrdersKeep
<1>5. QED
  BY <1>1, <1>2, <1>3, <1>4 DEF JournalNext

\* In every reachable journal each registered order is in a coherent state:
\* never filled beyond its quantity, FILLED exactly when nothing is left, and
\* pending a submit exactly in SUBMIT_UNKNOWN.
THEOREM OrdersCoherent == JournalSpec => []OrdersInv
  BY InitOrders, NextOrders, PTL DEF JournalSpec

THEOREM JournalTyped == JournalSpec => []JournalTypeOK
<1>1. OrdersInv => JournalTypeOK
  BY DEF OrdersInv
<1>2. QED
  BY <1>1, OrdersCoherent, PTL

\* accountHasUnresolvedOrder keeps the submits of an account apart, for any
\* number of orders, accounts and provider references.
THEOREM SubmitsExclusive == JournalSpec => []OneSubmitInFlight
<1>1. OrdersInv => OneSubmitInFlight
  BY DEF OrdersInv
<1>2. QED
  BY <1>1, OrdersCoherent, PTL

\* A settled order stays settled, so the sum reserved for an account can only
\* grow by a dispatch.
THEOREM SettledForGood == JournalSpec => SettledStaysSettled
<1>1. OrdersInv /\ [JournalNext]_journalVars
      => [\A o \in Order :
             order[o].status \in PostDispatch /\ ~IsActive(order[o])
             => order'[o].status \in PostDispatch /\ ~IsActive(order'[o])]_journalVars
  <2> SUFFICES ASSUME OrdersInv, [JournalNext]_journalVars,
                      NEW o \in Order,
                      order[o].status \in PostDispatch, ~IsActive(order[o])
               PROVE  order'[o].status \in PostDispatch /\ ~IsActive(order'[o])
    OBVIOUS
  <2>1. OrdersKeep
    BY NextOrders
  <2>2. IsRecorded(o)
    BY DEF OrdersInv, NewState, PostDispatch
  <2>3. QED
    BY <2>1, <2>2 DEF OrdersKeep, Settled
<1>2. QED
  BY <1>1, OrdersCoherent, PTL DEF JournalSpec, SettledStaysSettled

-----------------------------------------------------------------------------
(* The rows of the journal                                                  *)

\* Inductive with OrdersInv: a row is stored under its own order, its provider
\* order is the one the replayed state is bound to, no provider order is in
\* rows of two orders, and no execution is in two rows.
RowsInv ==
    /\ \A o \in Order : \E S : log[o] \in Seq(S)
    /\ \A o \in Order : \A i \in DOMAIN log[o] :
          /\ log[o][i].order = o
          /\ log[o][i].ref # NoRef => order[o].ref = log[o][i].ref
    /\ \A o, d \in Order : \A i \in DOMAIN log[o], j \in DOMAIN log[d] :
          log[o][i].ref # NoRef /\ log[o][i].ref = log[d][j].ref => o = d
    /\ ExecutionRecordedOnce

\* Row i of the longer journal l of order o may be added to the rows there are.
NewRow(o, l, i) ==
    /\ l[i].order = o
    /\ l[i].ref # NoRef =>
          /\ order'[o].ref = l[i].ref
          /\ \A d \in Order : \A j \in DOMAIN log[d] : log[d][j].ref = l[i].ref => d = o
    /\ l[i].exec # NoExec =>
          /\ i = Len(l)
          /\ \A d \in Order : \A j \in DOMAIN log[d] : log[d][j].exec # l[i].exec

LEMMA RowsGrow ==
  ASSUME RowsInv, DOMAIN log = Order, NEW o \in Order,
         NEW S, NEW l \in Seq(S), log' = [log EXCEPT ![o] = l],
         \A d \in Order : order[d].ref # NoRef => order'[d].ref = order[d].ref,
         \A i \in DOMAIN l : \/ i \in DOMAIN log[o] /\ l[i] = log[o][i]
                             \/ NewRow(o, l, i)
  PROVE  RowsInv'
<1>1. log'[o] = l /\ \A d \in Order : d # o => log'[d] = log[d]
  OBVIOUS
<1>2. \A d \in Order : \E T : log'[d] \in Seq(T)
  BY <1>1 DEF RowsInv
<1>3. \A d \in Order : \A i \in DOMAIN log'[d] :
          /\ log'[d][i].order = d
          /\ log'[d][i].ref # NoRef => order'[d].ref = log'[d][i].ref
  BY <1>1 DEF RowsInv, NewRow
<1>4. \A c, d \in Order : \A i \in DOMAIN log'[c], j \in DOMAIN log'[d] :
          log'[c][i].ref # NoRef /\ log'[c][i].ref = log'[d][j].ref => c = d
  <2> SUFFICES ASSUME NEW c \in Order, NEW d \in Order,
                      NEW i \in DOMAIN log'[c], NEW j \in DOMAIN log'[d],
                      log'[c][i].ref # NoRef, log'[c][i].ref = log'[d][j].ref, c # d
               PROVE  FALSE
    OBVIOUS
  <2>1. CASE c = o
    <3>1. j \in DOMAIN log[d] /\ log'[d][j] = log[d][j] /\ d # o
      BY <1>1, <2>1
    <3>2. CASE NewRow(o, l, i)
      BY <1>1, <2>1, <3>1, <3>2 DEF NewRow
    <3>3. CASE i \in DOMAIN log[o] /\ l[i] = log[o][i]
      BY <1>1, <2>1, <3>1, <3>3 DEF RowsInv
    <3>4. QED
      BY <1>1, <2>1, <3>2, <3>3
  <2>2. CASE d = o
    <3>1. i \in DOMAIN log[c] /\ log'[c][i] = log[c][i] /\ c # o
      BY <1>1, <2>2
    <3>2. CASE NewRow(o, l, j)
      BY <1>1, <2>2, <3>1, <3>2 DEF NewRow
    <3>3. CASE j \in DOMAIN log[o] /\ l[j] = log[o][j]
      BY <1>1, <2>2, <3>1, <3>3 DEF RowsInv
    <3>4. QED
      BY <1>1, <2>2, <3>2, <3>3
  <2>3. CASE c # o /\ d # o
    BY <1>1, <2>3 DEF RowsInv
  <2>4. QED
    BY <2>1, <2>2, <2>3
<1>5. ExecutionRecordedOnce'
  <2> SUFFICES ASSUME NEW c \in Order, NEW d \in Order,
                      NEW i \in DOMAIN log'[c], NEW j \in DOMAIN log'[d],
                      log'[c][i].exec # NoExec, log'[c][i].exec = log'[d][j].exec
               PROVE  c = d /\ i = j
    BY DEF ExecutionRecordedOnce
  <2>1. CASE c = o /\ NewRow(o, l, i)
    BY <1>1, <2>1 DEF NewRow
  <2>2. CASE d = o /\ NewRow(o, l, j)
    BY <1>1, <2>2 DEF NewRow
  <2>3. CASE ~(c = o /\ NewRow(o, l, i)) /\ ~(d = o /\ NewRow(o, l, j))
    <3>1. i \in DOMAIN log[c] /\ log'[c][i] = log[c][i]
      BY <1>1, <2>3
    <3>2. j \in DOMAIN log[d] /\ log'[d][j] = log[d][j]
      BY <1>1, <2>3
    <3>3. QED
      BY <3>1, <3>2 DEF RowsInv, ExecutionRecordedOnce
  <2>4. QED
    BY <2>1, <2>2, <2>3
<1>6. QED
  BY <1>2, <1>3, <1>4, <1>5 DEF RowsInv

\* The rows an action adds to the journal keep the invariant of the rows.
LEMMA RecordIntentRows ==
  ASSUME OrdersInv, RowsInv, NEW o \in Order, NEW i \in Intent, RecordIntent(o, i)
  PROVE  RowsInv'
<1> DEFINE e == PlainEvent(o, <<o, "INTENT_RECORDED">>, "INTENT_RECORDED")
<1>1. PICK S : log[o] \in Seq(S)
  BY DEF RowsInv
<1>2. e.order = o /\ e.ref = NoRef /\ e.exec = NoExec
  BY DEF PlainEvent
<1>3. log' = [log EXCEPT ![o] = Append(log[o], e)]
  BY DEF RecordIntent
<1> HIDE DEF e
<1>4. Append(log[o], e) \in Seq(S \cup {e})
  BY <1>1
<1>5. \A k \in DOMAIN Append(log[o], e) :
         \/ k \in DOMAIN log[o] /\ Append(log[o], e)[k] = log[o][k]
         \/ NewRow(o, Append(log[o], e), k)
  BY <1>1, <1>2 DEF NewRow
<1>6. \A d \in Order : order[d].ref # NoRef => order'[d].ref = order[d].ref
  <2>1. order[o].ref = NoRef
    BY DEF RecordIntent, OrdersInv, NewState
  <2>2. \A d \in Order : d # o => order'[d] = order[d]
    BY DEF RecordIntent, OrdersInv, JournalTypeOK
  <2>3. QED
    BY <2>1, <2>2
<1>7. QED
  BY <1>3, <1>4, <1>5, <1>6, RowsGrow DEF OrdersInv, JournalTypeOK

LEMMA InsertDispatchRows ==
  ASSUME OrdersInv, RowsInv, NEW o \in Order, InsertDispatch(o)
  PROVE  RowsInv'
<1> DEFINE e == PlainEvent(o, <<o, "RISK_APPROVED">>, "RISK_APPROVED")
           f == PlainEvent(o, <<o, "SUBMIT_DISPATCHED">>, "SUBMIT_DISPATCHED")
           l == log[o] \o <<e, f>>
<1>1. PICK S : log[o] \in Seq(S)
  BY DEF RowsInv
<1>2. /\ e.order = o /\ e.ref = NoRef /\ e.exec = NoExec /\ e.type = "RISK_APPROVED"
      /\ f.order = o /\ f.ref = NoRef /\ f.exec = NoExec /\ f.type = "SUBMIT_DISPATCHED"
  BY DEF PlainEvent
<1>3. log' = [log EXCEPT ![o] = l]
  BY DEF InsertDispatch
<1>4. order' = [order EXCEPT ![o] = Transition(intent[o].qty,
                                        Transition(intent[o].qty, @, e), f)]
  BY DEF InsertDispatch
<1> HIDE DEF e, f
<1>5. l \in Seq(S \cup {e, f})
  BY <1>1
<1>6. \A k \in DOMAIN l : \/ k \in DOMAIN log[o] /\ l[k] = log[o][k]
                          \/ l[k] \in {e, f}
  BY <1>1
<1>7. \A k \in DOMAIN l : \/ k \in DOMAIN log[o] /\ l[k] = log[o][k]
                          \/ NewRow(o, l, k)
  BY <1>2, <1>6 DEF NewRow
<1>8. \A d \in Order : order[d].ref # NoRef => order'[d].ref = order[d].ref
  <2>1. order[o] \in State
    BY DEF OrdersInv, JournalTypeOK
  <2>2. Transition(intent[o].qty, order[o], e) = [order[o] EXCEPT !.status = "READY"]
    BY <1>2 DEF Transition
  <2>3. Transition(intent[o].qty, [order[o] EXCEPT !.status = "READY"], f) =
           [[order[o] EXCEPT !.status = "READY"] EXCEPT !.status = "SUBMIT_UNKNOWN",
                                                        !.pending = "SUBMIT"]
    BY <1>2 DEF Transition
  <2>4. order'[o].ref = order[o].ref
    BY <1>4, <2>1, <2>2, <2>3 DEF OrdersInv, JournalTypeOK, State
  <2>5. \A d \in Order : d # o => order'[d] = order[d]
    BY <1>4 DEF OrdersInv, JournalTypeOK
  <2>6. QED
    BY <2>4, <2>5
<1>9. QED
  BY <1>3, <1>5, <1>7, <1>8, RowsGrow DEF OrdersInv, JournalTypeOK

LEMMA AppendEventRows ==
  ASSUME OrdersInv, RowsInv, NEW e, WellFormed(e), AppendEvent(e)
  PROVE  RowsInv'
<1> DEFINE o == e.order
           l == Append(log[o], e)
<1>1. o \in Order /\ log' = [log EXCEPT ![o] = l]
  BY DEF AppendEvent, Insert, WellFormed
<1>2. PICK S : log[o] \in Seq(S)
  BY <1>1 DEF RowsInv
<1>3. Keeps(order[o], e, order'[o])
  BY AppendEventStep
<1>4. \A d \in Order : d # o => order'[d] = order[d]
  BY DEF AppendEvent, Insert, OrdersInv, JournalTypeOK
<1>5. \A d \in Order : order[d].ref # NoRef => order'[d].ref = order[d].ref
  BY <1>3, <1>4 DEF Keeps
<1>6. \A r \in AllRows : /\ e.exec # NoExec => r.exec # e.exec
                         /\ e.ref # NoRef /\ r.ref = e.ref => r.order = o
  BY DEF AppendEvent, IsInsertable
<1>7. \A d \in Order : \A j \in DOMAIN log[d] :
         log[d][j] \in AllRows /\ log[d][j].order = d
  BY DEF AllRows, Rows, RowsInv
<1>8. NewRow(o, l, Len(l))
  <2>1. l[Len(l)] = e
    BY <1>2
  <2>2. e.ref # NoRef =>
          /\ order'[o].ref = e.ref
          /\ \A d \in Order : \A j \in DOMAIN log[d] : log[d][j].ref = e.ref => d = o
    BY <1>3, <1>6, <1>7 DEF Keeps
  <2>3. e.exec # NoExec =>
           \A d \in Order : \A j \in DOMAIN log[d] : log[d][j].exec # e.exec
    BY <1>6, <1>7
  <2>4. QED
    BY <2>1, <2>2, <2>3 DEF NewRow
<1>9. /\ l \in Seq(S \cup {e})
      /\ \A i \in DOMAIN l : \/ i \in DOMAIN log[o] /\ l[i] = log[o][i]
                             \/ i = Len(l)
  BY <1>2
<1>10. QED
  BY <1>1, <1>5, <1>8, <1>9, RowsGrow DEF OrdersInv, JournalTypeOK

LEMMA InitRows == JournalInit => RowsInv
<1> SUFFICES ASSUME JournalInit PROVE RowsInv
  OBVIOUS
<1>1. \A o \in Order : log[o] = <<>>
  BY DEF JournalInit
<1>2. \A o \in Order : \E S : log[o] \in Seq(S)
  <2>1. \A S : <<>> \in Seq(S)
    OBVIOUS
  <2>2. QED
    BY <1>1, <2>1, Zenon
<1>3. DOMAIN <<>> = {}
  OBVIOUS
<1>4. \A o \in Order : DOMAIN log[o] = {}
  BY <1>1, <1>3, Zenon
<1>5. QED
  BY <1>2, <1>4 DEF RowsInv, ExecutionRecordedOnce

LEMMA NextRows == OrdersInv /\ RowsInv /\ [JournalNext]_journalVars => RowsInv'
<1> SUFFICES ASSUME OrdersInv, RowsInv, [JournalNext]_journalVars PROVE RowsInv'
  OBVIOUS
<1>1. ASSUME NEW o \in Order, NEW i \in Intent, RecordIntent(o, i) PROVE RowsInv'
  BY <1>1, RecordIntentRows
<1>2. ASSUME NEW o \in Order, InsertDispatch(o) PROVE RowsInv'
  BY <1>2, InsertDispatchRows
<1>3. ASSUME NEW e \in CallerEvent, AppendEvent(e) PROVE RowsInv'
  BY <1>3, CallerEventWellFormed, AppendEventRows
<1>4. CASE UNCHANGED journalVars
  BY <1>4 DEF journalVars, RowsInv, ExecutionRecordedOnce
<1>5. QED
  BY <1>1, <1>2, <1>3, <1>4 DEF JournalNext

LEMMA RowsSound == JournalSpec => [](OrdersInv /\ RowsInv)
  BY InitOrders, NextOrders, InitRows, NextRows, PTL DEF JournalSpec

\* However events are redelivered and under whatever event_id: no execution of
\* the provider is in two rows.
THEOREM ExecutionsDistinct == JournalSpec => []ExecutionRecordedOnce
<1>1. RowsInv => ExecutionRecordedOnce
  BY DEF RowsInv
<1>2. QED
  BY <1>1, RowsSound, PTL

\* A provider order belongs to one local order, and every row of it names the
\* provider order its replayed state is bound to.
THEOREM ProviderOrdersDistinct == JournalSpec => []ProviderOrderBoundOnce
<1>1. RowsInv => ProviderOrderBoundOnce
  <2> SUFFICES ASSUME RowsInv, NEW e \in AllRows, NEW d \in AllRows, e.ref # NoRef
               PROVE  order[e.order].ref = e.ref /\ (e.ref = d.ref => e.order = d.order)
    BY DEF ProviderOrderBoundOnce
  <2>1. PICK o \in Order : \E i \in DOMAIN log[o] : e = log[o][i]
    BY DEF AllRows, Rows
  <2>2. PICK c \in Order : \E j \in DOMAIN log[c] : d = log[c][j]
    BY DEF AllRows, Rows
  <2>3. QED
    BY <2>1, <2>2 DEF RowsInv
<1>2. QED
  BY <1>1, RowsSound, PTL

-----------------------------------------------------------------------------
(* The replay of the rows.  A replay is a recursion over the rows; that its  *)
(* function exists and is unique needs no induction over sequences, because  *)
(* the states an order went through are such a function: the invariant keeps *)
(* them, and two functions with one recursion agree.                         *)

\* A set of numbers that is not empty has a least one.
LEMMA LeastNumber ==
  ASSUME NEW M, M \subseteq Nat, M # {}
  PROVE  \E i \in M : \A j \in M : i <= j
<1> DEFINE Less == {pair \in Nat \X Nat : pair[1] < pair[2]}
<1>1. IsWellFoundedOn(Less, Nat)
  BY NatLessThanWellFounded, Zenon DEF OpToRel
<1>2. \A i, j \in Nat : j < i => <<j, i>> \in Less
  OBVIOUS
<1> HIDE DEF Less
<1>3. PICK i \in M : \A j \in M : <<j, i>> \notin Less
  BY <1>1, WFMin
<1>4. ASSUME NEW j \in M PROVE i <= j
  <2>1. i \in Nat /\ j \in Nat /\ <<j, i>> \notin Less
    BY <1>3
  <2>2. ~(j < i)
    BY <1>2, <2>1
  <2>3. QED
    BY <2>1, <2>2
<1>5. QED
  BY <1>4

\* What holds of the empty set and survives one more element holds of a
\* finite set; C is the collection of subsets it holds of.
LEMMA FiniteInduction ==
  ASSUME NEW S, IsFiniteSet(S), NEW C, {} \in C,
         \A T \in C : \A x \in S \ T : T \subseteq S => T \cup {x} \in C
  PROVE  S \in C
<1> DEFINE D == {T \in C : T \subseteq S}
           M == {Cardinality(S \ T) : T \in D}
<1>1. \A T : IsFiniteSet(S \ T) /\ Cardinality(S \ T) \in Nat
  BY FS_Subset, FS_CardinalityType
<1>2. M \subseteq Nat /\ M # {}
  <2>1. {} \in D
    OBVIOUS
  <2>2. QED
    BY <1>1, <2>1
<1>3. PICK n \in M : \A m \in M : n <= m
  <2> HIDE DEF M
  <2>1. QED
    BY <1>2, LeastNumber
<1>4. PICK T \in D : n = Cardinality(S \ T)
  BY <1>3
<1>5. T \in C /\ T \subseteq S
  BY <1>4
<1>6. SUFFICES ASSUME S \ T # {} PROVE FALSE
  <2>1. S \ T = {} => S = T
    BY <1>5
  <2>2. QED
    BY <1>5, <2>1
<1>7. PICK x : x \in S \ T
  BY <1>6
<1> DEFINE Rest == S \ T
           Less == S \ (T \cup {x})
<1>8. Cardinality(Less) \in M
  BY <1>5, <1>7
<1>9. Less = Rest \ {x} /\ x \in Rest
  BY <1>7
<1>10. /\ IsFiniteSet(Rest) /\ Cardinality(Rest) \in Nat
       /\ n = Cardinality(Rest)
  BY <1>1, <1>4
<1> HIDE DEF Rest, Less, M, D
<1>11. Cardinality(Less) = Cardinality(Rest) - 1
  BY <1>9, <1>10, FS_RemoveElement
<1>12. n <= Cardinality(Less)
  BY <1>3, <1>8
<1>13. QED
  BY <1>10, <1>11, <1>12

\* g adds up f over the subsets of S, in any order of the elements.
Adds(g, S, f) ==
    /\ g \in [SUBSET S -> Nat]
    /\ g[{}] = 0
    /\ \A T \in SUBSET S : \A x \in T : g[T] = f[x] + g[T \ {x}]

LEMMA AddsExists ==
  ASSUME NEW S, IsFiniteSet(S), NEW f, \A x \in S : f[x] \in Nat
  PROVE  \E g : Adds(g, S, f)
<1> DEFINE C == {T \in SUBSET S : \E g : Adds(g, T, f)}
<1>1. {} \in C
  <2> DEFINE g == [T \in SUBSET {} |-> 0]
  <2>1. Adds(g, {}, f)
    BY DEF Adds
  <2>2. QED
    BY <2>1, Zenon
<1>2. ASSUME NEW T \in C, NEW y \in S \ T, T \subseteq S
      PROVE  T \cup {y} \in C
  <2>1. PICK g : Adds(g, T, f)
    BY <1>2
  <2> DEFINE h == [U \in SUBSET (T \cup {y}) |->
                     IF y \in U THEN f[y] + g[U \ {y}] ELSE g[U]]
  <2>2. \A U \in SUBSET (T \cup {y}) : U \ {y} \in SUBSET T
    OBVIOUS
  <2>3. \A U \in SUBSET (T \cup {y}) : y \notin U => U \in SUBSET T
    OBVIOUS
  <2>4. h \in [SUBSET (T \cup {y}) -> Nat]
    BY <1>2, <2>1, <2>2, <2>3 DEF Adds
  <2>5. h[{}] = 0
    BY <2>1 DEF Adds
  <2>6. ASSUME NEW U \in SUBSET (T \cup {y}), NEW x \in U
        PROVE  h[U] = f[x] + h[U \ {x}]
    <3>1. CASE y \notin U
      <4>1. U \in SUBSET T /\ U \ {x} \in SUBSET (T \cup {y}) /\ y \notin U \ {x}
        BY <2>3, <3>1
      <4>2. h[U] = g[U] /\ h[U \ {x}] = g[U \ {x}]
        BY <3>1, <4>1
      <4>3. QED
        BY <2>1, <4>1, <4>2 DEF Adds
    <3>2. CASE x = y
      <4>1. h[U] = f[y] + g[U \ {y}]
        BY <3>2
      <4>2. h[U \ {x}] = g[U \ {y}]
        BY <3>2
      <4>3. QED
        BY <3>2, <4>1, <4>2
    <3>3. CASE y \in U /\ x # y
      <4>1. h[U] = f[y] + g[U \ {y}]
        BY <3>3
      <4>2. y \in U \ {x} /\ U \ {x} \in SUBSET (T \cup {y})
        BY <3>3
      <4>3. h[U \ {x}] = f[y] + g[(U \ {x}) \ {y}]
        BY <4>2
      <4>4. U \ {y} \in SUBSET T /\ x \in U \ {y} /\ (U \ {y}) \ {x} \in SUBSET T
        BY <3>3
      <4>5. g[U \ {y}] = f[x] + g[(U \ {y}) \ {x}]
        BY <2>1, <4>4 DEF Adds
      <4>6. (U \ {y}) \ {x} = (U \ {x}) \ {y}
        OBVIOUS
      <4>7. f[x] \in Nat /\ f[y] \in Nat /\ g[(U \ {y}) \ {x}] \in Nat
        BY <1>2, <2>1, <4>4 DEF Adds
      <4> HIDE DEF h
      <4>8. QED
        BY <4>1, <4>3, <4>5, <4>6, <4>7
    <3>4. QED
      BY <3>1, <3>2, <3>3
  <2> HIDE DEF h
  <2>7. Adds(h, T \cup {y}, f)
    BY <2>4, <2>5, <2>6 DEF Adds
  <2>8. QED
    BY <2>7
<1> HIDE DEF C
<1>3. S \in C
  BY <1>1, <1>2, FiniteInduction
<1>4. QED
  BY <1>3 DEF C

\* SumOver is such a sum.
LEMMA SumOverAdds ==
  ASSUME NEW S, IsFiniteSet(S), NEW f, \A x \in S : f[x] \in Nat,
         NEW g, Adds(g, S, f)
  PROVE  SumOver(S, f) = g[S]
<1> DEFINE Pick(T) == CHOOSE x \in T : TRUE
           it == CHOOSE it : it = [T \in SUBSET S |->
                    IF T = {} THEN 0 ELSE f[Pick(T)] + it[T \ {Pick(T)}]]
<1>1. SumOver(S, f) = it[S]
  BY DEF SumOver, MapThenSumSet, MapThenFoldSet
<1>2. \A T : T # {} => Pick(T) \in T
  OBVIOUS
<1> HIDE DEF Pick
<1>3. g = [T \in SUBSET S |-> IF T = {} THEN 0 ELSE f[Pick(T)] + g[T \ {Pick(T)}]]
  <2>1. \A T \in SUBSET S : g[T] = IF T = {} THEN 0 ELSE f[Pick(T)] + g[T \ {Pick(T)}]
    BY <1>2 DEF Adds
  <2>2. g = [T \in SUBSET S |-> g[T]]
    BY DEF Adds
  <2>3. QED
    BY <2>1, <2>2
<1>4. it = [T \in SUBSET S |-> IF T = {} THEN 0 ELSE f[Pick(T)] + it[T \ {Pick(T)}]]
  BY <1>3
<1> HIDE DEF it
<1> DEFINE M == {Cardinality(T) : T \in {U \in SUBSET S : it[U] # g[U]}}
<1>5. \A T \in SUBSET S : IsFiniteSet(T) /\ Cardinality(T) \in Nat
  BY FS_Subset, FS_CardinalityType
<1>6. SUFFICES ASSUME it[S] # g[S] PROVE FALSE
  BY <1>1
<1>7. M \subseteq Nat /\ M # {}
  BY <1>5, <1>6
<1>8. PICK n \in M : \A m \in M : n <= m
  <2> HIDE DEF M
  <2>1. QED
    BY <1>7, LeastNumber
<1>9. PICK T \in SUBSET S : it[T] # g[T] /\ n = Cardinality(T)
  BY <1>8
<1>10. T # {}
  BY <1>4, <1>9 DEF Adds
<1> DEFINE x == Pick(T)
<1>11. x \in T /\ T \ {x} \in SUBSET S
  BY <1>2, <1>10
<1>12. Cardinality(T \ {x}) = Cardinality(T) - 1
  BY <1>5, <1>11, FS_RemoveElement
<1>13. it[T \ {x}] = g[T \ {x}]
  <2>1. SUFFICES ASSUME it[T \ {x}] # g[T \ {x}] PROVE FALSE
    OBVIOUS
  <2>2. Cardinality(T \ {x}) \in M
    BY <1>11, <2>1
  <2> HIDE DEF M, x
  <2>3. QED
    BY <1>5, <1>8, <1>9, <1>12, <2>2
<1>14. it[T] = f[x] + it[T \ {x}]
  BY <1>4, <1>10
<1>15. g[T] = f[x] + g[T \ {x}]
  BY <1>11 DEF Adds
<1>16. QED
  BY <1>9, <1>13, <1>14, <1>15

\* What a sum is: nothing for no index, and each index adds its amount.
LEMMA SumLaws ==
  ASSUME NEW S, IsFiniteSet(S), NEW f, \A x \in S : f[x] \in Nat
  PROVE  /\ SumOver({}, f) = 0
         /\ SumOver(S, f) \in Nat
         /\ \A x \in S : SumOver(S, f) = f[x] + SumOver(S \ {x}, f)
<1>1. PICK g : Adds(g, S, f)
  BY AddsExists
<1>2. ASSUME NEW T \in SUBSET S PROVE SumOver(T, f) = g[T]
  <2>1. IsFiniteSet(T)
    BY FS_Subset
  <2> DEFINE h == [U \in SUBSET T |-> g[U]]
  <2>2. Adds(h, T, f)
    BY <1>1 DEF Adds
  <2>3. h[T] = g[T]
    OBVIOUS
  <2> HIDE DEF h
  <2>4. QED
    BY <2>1, <2>2, <2>3, SumOverAdds
<1>3. QED
  BY <1>1, <1>2 DEF Adds

\* A sum over less, of no greater amounts, is no greater.
LEMMA SumMonotone ==
  ASSUME NEW S, IsFiniteSet(S), NEW R \in SUBSET S, NEW f, NEW g,
         \A x \in S : g[x] \in Nat,
         \A x \in R : f[x] \in Nat /\ f[x] <= g[x]
  PROVE  SumOver(R, f) <= SumOver(S, g)
<1> DEFINE C == {T \in SUBSET S : SumOver(R \cap T, f) <= SumOver(T, g)}
<1>1. {} \in C
  <2>1. R \cap {} = {}
    OBVIOUS
  <2>2. SumOver({}, f) = 0 /\ SumOver({}, g) = 0
    BY SumLaws, FS_EmptySet
  <2>3. QED
    BY <2>1, <2>2
<1>2. ASSUME NEW T \in C, NEW x \in S \ T, T \subseteq S
      PROVE  T \cup {x} \in C
  <2> DEFINE U == T \cup {x}
  <2>1. U \in SUBSET S /\ x \in U /\ U \ {x} = T
    BY <1>2
  <2>2. IsFiniteSet(U) /\ IsFiniteSet(T) /\ IsFiniteSet(R \cap U) /\ IsFiniteSet(R \cap T)
    BY <1>2, <2>1, FS_Subset
  <2>3. SumOver(R \cap T, f) <= SumOver(T, g)
    BY <1>2
  <2>4. SumOver(R \cap T, f) \in Nat /\ SumOver(T, g) \in Nat
    BY <1>2, <2>2, SumLaws
  <2> HIDE DEF U
  <2>5. SumOver(U, g) = g[x] + SumOver(T, g) /\ g[x] \in Nat
    BY <2>1, <2>2, SumLaws
  <2>6. SumOver(R \cap U, f) <= SumOver(U, g)
    <3>1. CASE x \in R
      <4>1. x \in R \cap U /\ (R \cap U) \ {x} = R \cap T
        BY <2>1, <3>1
      <4>2. \A y \in R \cap U : f[y] \in Nat
        <5>1. \A y \in R : f[y] \in Nat
          OBVIOUS
        <5>2. QED
          BY <5>1, Zenon
      <4> DEFINE V == R \cap U
      <4>3. SumOver(V, f) = f[x] + SumOver(V \ {x}, f)
        <5>1. IsFiniteSet(V) /\ x \in V /\ \A y \in V : f[y] \in Nat
          BY <2>2, <4>1, <4>2
        <5> HIDE DEF V
        <5>2. QED
          BY <5>1, SumLaws
      <4>4. f[x] \in Nat /\ f[x] <= g[x]
        BY <3>1
      <4>5. SumOver(R \cap U, f) = f[x] + SumOver(R \cap T, f)
        BY <4>1, <4>3, Zenon
      <4> HIDE DEF V
      <4>6. QED
        BY <2>3, <2>4, <2>5, <4>4, <4>5
    <3>2. CASE x \notin R
      <4>1. R \cap U = R \cap T
        BY <2>1, <3>2
      <4>2. SumOver(R \cap U, f) = SumOver(R \cap T, f)
        BY <4>1, Zenon
      <4>3. QED
        BY <2>3, <2>4, <2>5, <4>2
    <3>3. QED
      BY <3>1, <3>2
  <2>7. QED
    BY <2>1, <2>6 DEF U
<1>3. S \in C
  <2> HIDE DEF C
  <2>1. QED
    BY <1>1, <1>2, FiniteInduction
<1>4. R \cap S = R
  OBVIOUS
<1>5. QED
  BY <1>3, <1>4

\* Two functions on 0..n that begin alike and go on alike are alike.
LEMMA SameRecursion ==
  ASSUME NEW n \in Nat, NEW f, NEW g, f[0] = g[0],
         \A k \in 1..n : f[k - 1] = g[k - 1] => f[k] = g[k]
  PROVE  \A k \in 0..n : f[k] = g[k]
<1> DEFINE Differ == {k \in 0..n : f[k] # g[k]}
<1>1. SUFFICES ASSUME Differ # {} PROVE FALSE
  OBVIOUS
<1>2. Differ \subseteq Nat
  OBVIOUS
<1>3. PICK k \in Differ : \A j \in Differ : k <= j
  <2> HIDE DEF Differ
  <2>1. QED
    BY <1>1, <1>2, LeastNumber
<1>4. k \in 1..n /\ f[k] # g[k]
  OBVIOUS
<1>5. k - 1 \in 0..n /\ k - 1 \notin Differ
  BY <1>3, <1>4
<1>6. QED
  BY <1>4, <1>5

\* A list of rows: a sequence over some set.
IsRows(rows) == \E S : rows \in Seq(S)

\* `run' is the way a replay takes through rows, without an illegal step.
IsRun(q, rows, run) ==
    /\ run \in [0..Len(rows) -> State]
    /\ run[0] = NewState
    /\ \A n \in 1..Len(rows) : /\ Accepts(q, run[n - 1], rows[n])
                               /\ run[n] = Transition(q, run[n - 1], rows[n])
                               /\ run[n].filled = run[n - 1].filled + rows[n].qty

\* The replay finds the way there is.
LEMMA RunIsReplay ==
  ASSUME NEW q, NEW rows, IsRows(rows), NEW run, IsRun(q, rows, run)
  PROVE  /\ \A n \in 0..Len(rows) : StatesOf(q, rows)[n] = run[n]
         /\ FilledBy(rows) = run[Len(rows)].filled
<1>1. Len(rows) \in Nat
  BY DEF IsRows
<1>2. \A n \in 0..Len(rows) : StatesOf(q, rows)[n] = run[n]
  <2> DEFINE f == StatesOf(q, rows)
  <2>1. run = [n \in 0..Len(rows) |->
                 IF n = 0 THEN NewState ELSE Transition(q, run[n - 1], rows[n])]
    BY <1>1 DEF IsRun
  <2>2. f = [n \in 0..Len(rows) |->
               IF n = 0 THEN NewState ELSE Transition(q, f[n - 1], rows[n])]
    BY <2>1 DEF StatesOf
  <2> HIDE DEF f
  <2>3. f[0] = run[0]
    BY <1>1, <2>2 DEF IsRun
  <2>4. \A k \in 1..Len(rows) : f[k] = Transition(q, f[k - 1], rows[k])
    BY <1>1, <2>2
  <2>5. \A k \in 1..Len(rows) : f[k - 1] = run[k - 1] => f[k] = run[k]
    BY <2>4 DEF IsRun
  <2>6. \A k \in 0..Len(rows) : f[k] = run[k]
    BY <1>1, <2>3, <2>5, SameRecursion
  <2>7. QED
    BY <2>6 DEF f
<1>3. FilledBy(rows) = run[Len(rows)].filled
  <2> DEFINE Sum == CHOOSE sum : sum = [n \in 0..Len(rows) |->
                       IF n = 0 THEN 0 ELSE sum[n - 1] + rows[n].qty]
             g == [n \in 0..Len(rows) |-> run[n].filled]
  <2>1. FilledBy(rows) = Sum[Len(rows)]
    BY DEF FilledBy
  <2>2. g = [n \in 0..Len(rows) |-> IF n = 0 THEN 0 ELSE g[n - 1] + rows[n].qty]
    <3>1. \A n \in 0..Len(rows) : g[n] = IF n = 0 THEN 0 ELSE g[n - 1] + rows[n].qty
      BY <1>1 DEF IsRun, NewState
    <3>2. QED
      BY <3>1
  <2> HIDE DEF g
  <2>3. Sum = [n \in 0..Len(rows) |-> IF n = 0 THEN 0 ELSE Sum[n - 1] + rows[n].qty]
    BY <2>2
  <2> HIDE DEF Sum
  <2>4. \A k \in 0..Len(rows) : Sum[k] = g[k]
    <3>1. Sum[0] = g[0]
      BY <1>1, <2>2, <2>3
    <3>2. \A k \in 1..Len(rows) : Sum[k] = Sum[k - 1] + rows[k].qty
      BY <1>1, <2>3
    <3>3. \A k \in 1..Len(rows) : g[k] = g[k - 1] + rows[k].qty
      BY <1>1, <2>2
    <3>4. \A k \in 1..Len(rows) : Sum[k - 1] = g[k - 1] => Sum[k] = g[k]
      BY <3>2, <3>3
    <3>5. QED
      BY <1>1, <3>1, <3>4, SameRecursion
  <2>5. QED
    BY <1>1, <2>1, <2>4 DEF g
<1>4. QED
  BY <1>2, <1>3

\* One more legal row is one more step of the run.
LEMMA RunGoesOn ==
  ASSUME NEW q, NEW rows, IsRows(rows), NEW run, IsRun(q, rows, run),
         NEW e, Accepts(q, run[Len(rows)], e),
         NEW t \in State, t = Transition(q, run[Len(rows)], e),
         t.filled = run[Len(rows)].filled + e.qty
  PROVE  \E longer : /\ IsRun(q, Append(rows, e), longer)
                     /\ longer[Len(rows) + 1] = t
<1> DEFINE n == Len(rows)
           longer == [k \in 0..(n + 1) |-> IF k <= n THEN run[k] ELSE t]
<1>1. n \in Nat /\ Len(Append(rows, e)) = n + 1
  BY DEF IsRows
<1>2. /\ longer \in [0..(n + 1) -> State] /\ longer[0] = NewState
      /\ longer[n + 1] = t
      /\ \A k \in 0..n : longer[k] = run[k]
  BY <1>1 DEF IsRun
<1>3. /\ \A k \in 1..n : Append(rows, e)[k] = rows[k]
      /\ Append(rows, e)[n + 1] = e
  BY <1>1 DEF IsRows
<1> HIDE DEF longer
<1>4. ASSUME NEW k \in 1..(n + 1)
      PROVE  /\ Accepts(q, longer[k - 1], Append(rows, e)[k])
             /\ longer[k] = Transition(q, longer[k - 1], Append(rows, e)[k])
             /\ longer[k].filled = longer[k - 1].filled + Append(rows, e)[k].qty
  <2>1. CASE k = n + 1
    BY <1>1, <1>2, <1>3, <2>1
  <2>2. CASE k \in 1..n
    BY <1>1, <1>2, <1>3, <2>2 DEF IsRun
  <2>3. QED
    BY <1>1, <1>4, <2>1, <2>2
<1>5. QED
  BY <1>1, <1>2, <1>4 DEF IsRun

\* Inductive with OrdersInv and RowsInv: the state of a registered order is the
\* end of the run of its rows, and an order not registered has no row.
RunsInv ==
    \A o \in Order :
        IF IsRecorded(o)
        THEN \E run : /\ IsRun(intent[o].qty, log[o], run)
                      /\ run[Len(log[o])] = order[o]
        ELSE log[o] = <<>>

LEMMA RecordIntentRuns ==
  ASSUME OrdersInv, RowsInv, RunsInv, NEW o \in Order, NEW i \in Intent,
         RecordIntent(o, i)
  PROVE  RunsInv'
<1> DEFINE e == PlainEvent(o, <<o, "INTENT_RECORDED">>, "INTENT_RECORDED")
           q == i.qty
           run == [k \in 0..0 |-> NewState]
           t == Transition(q, NewState, e)
<1>1. /\ log[o] = <<>> /\ order[o] = NewState
      /\ intent' = [intent EXCEPT ![o] = i]
      /\ log' = [log EXCEPT ![o] = Append(<<>>, e)]
      /\ order' = [order EXCEPT ![o] = t]
  BY DEF RecordIntent, RunsInv, OrdersInv
<1>2. t = [NewState EXCEPT !.status = "RECORDED"]
  BY DEF Transition, PlainEvent
<1>3. /\ NewState \in State /\ t \in State
      /\ t.filled = NewState.filled + e.qty
      /\ Accepts(q, NewState, e)
  BY <1>2 DEF NewState, State, Status, Pending, PlainEvent, Accepts
<1> HIDE DEF t, e
<1>4. <<>> \in Seq({e}) /\ IsRows(<<>>) /\ Len(<<>>) = 0
  <2>1. <<>> \in Seq({e}) /\ Len(<<>>) = 0
    OBVIOUS
  <2>2. QED
    BY <2>1, Zenon DEF IsRows
<1>5. IsRun(q, <<>>, run) /\ run[Len(<<>>)] = NewState
  BY <1>3, <1>4 DEF IsRun
<1>6. \E longer : IsRun(q, Append(<<>>, e), longer) /\ longer[Len(<<>>) + 1] = t
  <2> HIDE DEF run
  <2>1. t = Transition(q, run[Len(<<>>)], e)
    BY <1>5 DEF t
  <2>2. /\ Accepts(q, run[Len(<<>>)], e)
        /\ t.filled = run[Len(<<>>)].filled + e.qty
    BY <1>3, <1>5
  <2> DEFINE none == <<>>
  <2> HIDE DEF q, none
  <2>3. \E longer : IsRun(q, Append(none, e), longer) /\ longer[Len(none) + 1] = t
    <3>1. /\ IsRows(none) /\ IsRun(q, none, run)
          /\ t = Transition(q, run[Len(none)], e)
          /\ Accepts(q, run[Len(none)], e)
          /\ t.filled = run[Len(none)].filled + e.qty
      BY <1>4, <1>5, <2>1, <2>2 DEF none
    <3>2. QED
      BY <1>3, <3>1, RunGoesOn
  <2>4. QED
    BY <2>3 DEF none
<1>7. Len(Append(<<>>, e)) = Len(<<>>) + 1
  BY <1>4
<1>8. /\ intent'[o] = i /\ log'[o] = Append(<<>>, e) /\ order'[o] = t
      /\ \A d \in Order : d # o => UNCHANGED <<intent[d], log[d], order[d]>>
  BY <1>1 DEF OrdersInv, JournalTypeOK
<1>9. i # NoIntent
  BY IntentAssumption
<1>10. QED
  BY <1>6, <1>7, <1>8, <1>9 DEF RunsInv, IsRecorded

LEMMA AppendEventRuns ==
  ASSUME OrdersInv, RowsInv, RunsInv, NEW e, WellFormed(e), AppendEvent(e)
  PROVE  RunsInv'
<1> DEFINE o == e.order
           q == intent[o].qty
           t == Transition(q, order[o], e)
<1>1. /\ o \in Order /\ IsRecorded(o) /\ Accepts(q, order[o], e)
      /\ order' = [order EXCEPT ![o] = t] /\ intent' = intent
      /\ log' = [log EXCEPT ![o] = Append(@, e)]
  BY DEF AppendEvent, IsInsertable, Insert, WellFormed
<1>2. q \in Nat \ {0} /\ Coherent(q, order[o])
  BY <1>1, PositiveQuantity DEF OrdersInv
<1>3. t \in State /\ t.filled = order[o].filled + e.qty
  BY <1>1, <1>2, TransitionCoherent DEF Coherent, Keeps
<1>4. PICK run : IsRun(q, log[o], run) /\ run[Len(log[o])] = order[o]
  BY <1>1 DEF RunsInv
<1>5. IsRows(log[o])
  BY <1>1 DEF RowsInv, IsRows
<1>6. t = Transition(q, run[Len(log[o])], e)
  BY <1>4
<1> HIDE DEF t
<1>7. \E longer : IsRun(q, Append(log[o], e), longer) /\ longer[Len(log[o]) + 1] = t
  <2>1. /\ Accepts(q, run[Len(log[o])], e)
        /\ t.filled = run[Len(log[o])].filled + e.qty
    BY <1>1, <1>3, <1>4
  <2> HIDE DEF q, o
  <2>2. QED
    BY <1>3, <1>4, <1>5, <1>6, <2>1, RunGoesOn
<1>8. Len(Append(log[o], e)) = Len(log[o]) + 1
  BY <1>5 DEF IsRows
<1>9. /\ log'[o] = Append(log[o], e) /\ order'[o] = t
      /\ \A d \in Order : d # o => UNCHANGED <<log[d], order[d]>>
  BY <1>1 DEF OrdersInv, JournalTypeOK
<1>10. QED
  BY <1>1, <1>7, <1>8, <1>9 DEF RunsInv, IsRecorded

LEMMA InsertDispatchRuns ==
  ASSUME OrdersInv, RowsInv, RunsInv, NEW o \in Order, InsertDispatch(o)
  PROVE  RunsInv'
<1> DEFINE risk == PlainEvent(o, <<o, "RISK_APPROVED">>, "RISK_APPROVED")
           submit == PlainEvent(o, <<o, "SUBMIT_DISPATCHED">>, "SUBMIT_DISPATCHED")
           q == intent[o].qty
           s == order[o]
           r == Transition(q, s, risk)
           t == Transition(q, r, submit)
<1>1. /\ IsRecorded(o) /\ s.status = "RECORDED" /\ s.pending = "NONE"
      /\ order' = [order EXCEPT ![o] = t] /\ intent' = intent
      /\ log' = [log EXCEPT ![o] = @ \o <<risk, submit>>]
  BY DEF InsertDispatch
<1>2. q \in Nat \ {0} /\ Coherent(q, s)
  BY <1>1, PositiveQuantity DEF OrdersInv
<1>3. WellFormed(risk) /\ WellFormed(submit)
  BY DEF WellFormed, PlainEvent, EventType
<1>4. Accepts(q, s, risk)
  BY <1>1 DEF Accepts, PlainEvent
<1>5. Coherent(q, r) /\ r.filled = s.filled + risk.qty
  BY <1>2, <1>3, <1>4, TransitionCoherent DEF Keeps
<1>6. Accepts(q, r, submit)
  <2>1. r = [s EXCEPT !.status = "READY"]
    BY DEF Transition, PlainEvent
  <2>2. QED
    BY <1>1, <1>2, <2>1 DEF Accepts, PlainEvent, Coherent, State
<1>7. Coherent(q, t) /\ t.filled = r.filled + submit.qty
  BY <1>2, <1>3, <1>5, <1>6, TransitionCoherent DEF Keeps
<1>8. PICK run : IsRun(q, log[o], run) /\ run[Len(log[o])] = s
  BY <1>1 DEF RunsInv
<1>9. PICK S : log[o] \in Seq(S)
  BY <1>1 DEF RowsInv
<1> IsRows(log[o])
  BY <1>9 DEF IsRows
<1>10. r = Transition(q, run[Len(log[o])], risk) /\ t = Transition(q, r, submit)
  BY <1>8
<1> DEFINE once == Append(log[o], risk)
           twice == Append(once, submit)
<1> HIDE DEF t, r, risk, submit
<1>11. r \in State /\ t \in State
  BY <1>5, <1>7 DEF Coherent
<1>12. PICK longer : IsRun(q, once, longer) /\ longer[Len(log[o]) + 1] = r
  BY <1>4, <1>5, <1>8, <1>9, <1>10, <1>11, RunGoesOn
<1>13. IsRows(once) /\ Len(once) = Len(log[o]) + 1
  <2>1. once \in Seq(S \cup {risk}) /\ Len(once) = Len(log[o]) + 1
    BY <1>9
  <2>2. QED
    BY <2>1, Zenon DEF IsRows
<1>14. Len(twice) = Len(once) + 1
  <2> HIDE DEF once
  <2>1. QED
    BY <1>13 DEF IsRows
<1>15. longer[Len(once)] = r
  BY <1>12, <1>13
<1> HIDE DEF once
<1>16. \E longest : IsRun(q, twice, longest) /\ longest[Len(once) + 1] = t
  BY <1>6, <1>7, <1>10, <1>11, <1>12, <1>13, <1>15, RunGoesOn
<1>17. log[o] \o <<risk, submit>> = twice
  BY <1>9 DEF once
<1>18. /\ log'[o] = twice /\ order'[o] = t
       /\ \A d \in Order : d # o => UNCHANGED <<log[d], order[d]>>
  BY <1>1, <1>17 DEF OrdersInv, JournalTypeOK
<1> HIDE DEF twice
<1>19. \E path : IsRun(q, log'[o], path) /\ path[Len(log'[o])] = order'[o]
  BY <1>14, <1>16, <1>18
<1>20. QED
  BY <1>1, <1>18, <1>19 DEF RunsInv, IsRecorded

LEMMA InitRuns == JournalInit => RunsInv
  BY DEF JournalInit, RunsInv, IsRecorded

LEMMA NextRuns ==
  OrdersInv /\ RowsInv /\ RunsInv /\ [JournalNext]_journalVars => RunsInv'
<1> SUFFICES ASSUME OrdersInv, RowsInv, RunsInv, [JournalNext]_journalVars
             PROVE  RunsInv'
  OBVIOUS
<1>1. ASSUME NEW o \in Order, NEW i \in Intent, RecordIntent(o, i) PROVE RunsInv'
  BY <1>1, RecordIntentRuns
<1>2. ASSUME NEW o \in Order, InsertDispatch(o) PROVE RunsInv'
  BY <1>2, InsertDispatchRuns
<1>3. ASSUME NEW e \in CallerEvent, AppendEvent(e) PROVE RunsInv'
  BY <1>3, CallerEventWellFormed, AppendEventRuns
<1>4. CASE UNCHANGED journalVars
  BY <1>4 DEF journalVars, RunsInv, IsRecorded
<1>5. QED
  BY <1>1, <1>2, <1>3, <1>4 DEF JournalNext

\* What the invariants say of an order: its rows replay to its state.
LEMMA RunsReplay ==
  ASSUME OrdersInv, RowsInv, RunsInv, NEW o \in Order, IsRecorded(o)
  PROVE  Replays(o) /\ FilledBy(log[o]) = order[o].filled
<1> DEFINE q == intent[o].qty
           n == Len(log[o])
<1>1. PICK run : IsRun(q, log[o], run) /\ run[n] = order[o]
  BY DEF RunsInv
<1>2. IsRows(log[o])
  BY DEF RowsInv, IsRows
<1>3. /\ \A k \in 0..n : StatesOf(q, log[o])[k] = run[k]
      /\ FilledBy(log[o]) = run[n].filled
  <2> DEFINE rows == log[o]
  <2>1. IsRows(rows) /\ IsRun(q, rows, run)
    BY <1>1, <1>2
  <2> HIDE DEF q, rows
  <2>2. /\ \A k \in 0..Len(rows) : StatesOf(q, rows)[k] = run[k]
        /\ FilledBy(rows) = run[Len(rows)].filled
    BY <2>1, RunIsReplay
  <2>3. QED
    BY <2>2 DEF rows
<1>4. n \in Nat /\ DOMAIN log[o] = 1..n
  BY <1>2 DEF IsRows
<1>5. \A k \in DOMAIN log[o] : Accepts(q, StatesOf(q, log[o])[k - 1], log[o][k])
  <2> SUFFICES ASSUME NEW k \in DOMAIN log[o]
               PROVE  Accepts(q, StatesOf(q, log[o])[k - 1], log[o][k])
    OBVIOUS
  <2>1. k \in 1..n /\ k - 1 \in 0..n
    BY <1>4
  <2>2. Accepts(q, run[k - 1], log[o][k])
    BY <1>1, <2>1 DEF IsRun
  <2>3. StatesOf(q, log[o])[k - 1] = run[k - 1]
    BY <1>3, <2>1
  <2>4. QED
    BY <2>2, <2>3
<1>6. QED
  BY <1>1, <1>3, <1>4, <1>5 DEF Replays

LEMMA RunsSound == JournalSpec => [](OrdersInv /\ RowsInv /\ RunsInv)
  BY InitOrders, NextOrders, InitRows, NextRows, InitRuns, NextRuns, PTL
  DEF JournalSpec

\* Whatever events were accepted, however many orders there are and however
\* long their journals grow: reading an order back meets no illegal
\* transition and ends in the state its writers checked their guards against.
THEOREM OrdersReplay == JournalSpec => []EveryOrderReplays
<1>1. OrdersInv /\ RowsInv /\ RunsInv => EveryOrderReplays
  BY RunsReplay DEF EveryOrderReplays
<1>2. QED
  BY <1>1, RunsSound, PTL

\* The filled quantity of an order is the sum of the executions stored for it,
\* never more than was ordered, and FILLED exactly when it is all.
THEOREM FillsAdd == JournalSpec => []FillsAddUp
<1>1. OrdersInv /\ RowsInv /\ RunsInv => FillsAddUp
  <2> SUFFICES ASSUME OrdersInv, RowsInv, RunsInv, NEW o \in Order, IsRecorded(o)
               PROVE  /\ order[o].filled = FilledBy(log[o])
                      /\ order[o].filled <= intent[o].qty
                      /\ order[o].status = "FILLED" <=> order[o].filled = intent[o].qty
    BY DEF FillsAddUp
  <2>1. QED
    BY RunsReplay DEF OrdersInv, Coherent
<1>2. QED
  BY <1>1, RunsSound, PTL

-----------------------------------------------------------------------------
(* One history *)

\* The token of a record is its position, and a record names an owner exactly
\* when it is a lease of TTL.
Shaped(r, i) ==
    /\ r.token = i
    /\ r.owner # NoOwner => r.reason = "lease_acquired" /\ r.expires = r.at + TTL

GoodHistory(h) ==
    /\ h \in Seq(Record)
    /\ ValidHistory(h)
    /\ \A i \in 1..Len(h) : Shaped(h[i], i)

NewestOf(h) == IF h = <<>> THEN NoAuthority ELSE h[Len(h)]

\* What may be written after history h.
MayFollow(h, r) ==
    /\ r \in Record /\ ValidBasic(r) /\ Shaped(r, Len(h) + 1)
    /\ IF h = <<>> THEN ValidFirst(r) ELSE ValidNext(NewestOf(h), r)

LEMMA HistoryGrows ==
  ASSUME NEW h, GoodHistory(h), NEW r, MayFollow(h, r)
  PROVE  GoodHistory(Append(h, r))
<1> DEFINE g == Append(h, r)
<1>1. /\ h \in Seq(Record) /\ r \in Record /\ g \in Seq(Record)
      /\ Len(g) = Len(h) + 1 /\ Len(h) \in Nat
      /\ \A i \in 1..Len(h) : g[i] = h[i]
      /\ g[Len(h) + 1] = r
  BY DEF GoodHistory, MayFollow
<1> HIDE DEF g
<1>2. \A i \in 1..Len(g) : ValidBasic(g[i]) /\ Shaped(g[i], i)
  BY <1>1 DEF GoodHistory, ValidHistory, MayFollow
<1>3. ValidFirst(g[1])
  <2>1. CASE h = <<>>
    <3>1. Len(h) = 0
      BY <2>1
    <3>2. QED
      BY <1>1, <2>1, <3>1 DEF MayFollow
  <2>2. CASE h # <<>>
    <3>1. Len(h) > 0
      BY <1>1, <2>2
    <3>2. QED
      BY <1>1, <3>1 DEF GoodHistory, ValidHistory
  <2>3. QED
    BY <2>1, <2>2
<1>4. ASSUME NEW i \in 1..(Len(g) - 1) PROVE ValidNext(g[i], g[i + 1])
  <2>1. CASE i < Len(h)
    BY <1>1, <2>1 DEF GoodHistory, ValidHistory
  <2>2. CASE i = Len(h)
    <3>1. h # <<>>
      BY <1>1, <2>2
    <3>2. QED
      BY <1>1, <2>2, <3>1 DEF MayFollow, NewestOf
  <2>3. QED
    BY <1>1, <2>1, <2>2
<1>5. QED
  BY <1>1, <1>2, <1>3, <1>4 DEF GoodHistory, ValidHistory, g

LEMMA NewestShape ==
  ASSUME NEW h, GoodHistory(h)
  PROVE  /\ NewestOf(h).token = Len(h) /\ Len(h) \in Nat
         /\ NewestOf(h).expires \in Nat /\ NewestOf(h).at \in Nat
         /\ NewestOf(h).armed \in BOOLEAN
         /\ NewestOf(h).owner \in Process \cup {NoOwner}
         /\ h = <<>> => ~NewestOf(h).armed /\ NewestOf(h).owner = NoOwner
         /\ NewestOf(h).owner # NoOwner =>
               /\ NewestOf(h).armed
               /\ NewestOf(h).expires = NewestOf(h).at + TTL
<1>1. CASE h = <<>>
  BY <1>1 DEF NewestOf, NoAuthority
<1>2. CASE h # <<>>
  <2>1. /\ Len(h) \in Nat \ {0} /\ h[Len(h)] \in Record
        /\ ValidBasic(h[Len(h)]) /\ Shaped(h[Len(h)], Len(h))
    BY <1>2 DEF GoodHistory, ValidHistory
  <2>2. QED
    BY <1>2, <2>1 DEF NewestOf, Record, Shaped, ValidBasic
<1>3. QED
  BY <1>1, <1>2

-----------------------------------------------------------------------------
(* What the operations write                                                *)

LEMMA RecordsFollow ==
  ASSUME NEW h, GoodHistory(h), NEW t \in Nat, t = NewestOf(h).token, now \in Nat
  PROVE  /\ ~NewestOf(h).armed => MayFollow(h, ArmRecord(t + 1))
         /\ \A reason \in {"manual_halt", "automatic_performance_halt"} :
               NewestOf(h).armed => MayFollow(h, HaltRecord(t + 1, reason))
         /\ \A p \in Process :
               /\ NewestOf(h).armed
               /\ NewestOf(h).owner # NoOwner /\ now < NewestOf(h).expires =>
                     NewestOf(h).owner = p /\ now > NewestOf(h).at
               => MayFollow(h, LeaseRecord(p, t + 1))
<1>1. /\ t = Len(h) /\ TTL \in Nat \ {0} /\ NoOwner \notin Process
      /\ h = <<>> => t = 0 /\ ~NewestOf(h).armed
  BY NewestShape, LeaseAssumption
<1> USE DEF MayFollow, Record, Reason, ValidBasic, Shaped, ValidFirst, ValidNext
<1>2. ~NewestOf(h).armed => MayFollow(h, ArmRecord(t + 1))
  BY <1>1 DEF ArmRecord
<1>3. ASSUME NEW reason \in {"manual_halt", "automatic_performance_halt"}, NewestOf(h).armed
      PROVE  MayFollow(h, HaltRecord(t + 1, reason))
  BY <1>1, <1>3 DEF HaltRecord
<1>4. ASSUME NEW p \in Process, NewestOf(h).armed,
             NewestOf(h).owner # NoOwner /\ now < NewestOf(h).expires =>
                NewestOf(h).owner = p /\ now > NewestOf(h).at
      PROVE  MayFollow(h, LeaseRecord(p, t + 1))
  <2> DEFINE r == LeaseRecord(p, t + 1)
  <2>1. /\ r.armed = TRUE /\ r.owner = p /\ r.token = t + 1 /\ r.expires = now + TTL
        /\ r.at = now /\ r.reason = "lease_acquired" /\ r \in Record
    BY <1>1 DEF LeaseRecord
  <2> HIDE DEF r
  <2>2. ValidBasic(r) /\ Shaped(r, Len(h) + 1)
    BY <1>1, <2>1
  <2>3. h # <<>>
    BY <1>1, <1>4
  <2>4. ValidNext(NewestOf(h), r)
    BY <1>1, <1>4, <2>1, NewestShape
  <2>5. QED
    BY <2>1, <2>2, <2>3, <2>4 DEF r
<1>5. QED
  BY <1>2, <1>3, <1>4

-----------------------------------------------------------------------------
(* The authority of all accounts                                            *)

\* Inductive.  HistoryReplays alone is not: the renewal test needs to know that
\* every lease was written for exactly TTL, and the holder test that tokens are
\* positions.
AuthorityInv ==
    /\ AuthorityTypeOK
    /\ \A a \in Account : GoodHistory(history[a])
    /\ TokenHasOneHolder

\* A step lengthens histories; a token is given only to the owner of the
\* newest record and all others are kept.
Issued ==
    \A p \in Process, a \in Account :
        \/ held'[p][a] = 0
        \/ held'[p][a] = held[p][a]
        \/ held'[p][a] = Current(a)'.token /\ Current(a)'.owner = p

Lengthened ==
    \A a \in Account :
        /\ Len(history'[a]) >= Len(history[a])
        /\ \A i \in 1..Len(history[a]) : history'[a][i] = history[a][i]

LEMMA HoldersKept ==
  ASSUME AuthorityInv, Issued, Lengthened, \A a \in Account : GoodHistory(history'[a]),
         held' \in [Process -> [Account -> Nat]]
  PROVE  TokenHasOneHolder'
<1> SUFFICES ASSUME NEW p \in Process, NEW a \in Account, held'[p][a] # 0
             PROVE  held'[p][a] <= Len(history'[a]) /\ history'[a][held'[p][a]].owner = p
  BY DEF TokenHasOneHolder
<1>1. Len(history[a]) \in Nat /\ Len(history'[a]) \in Nat /\ held'[p][a] \in Nat
  BY DEF AuthorityInv, GoodHistory
<1>2. CASE held'[p][a] = held[p][a]
  <2>1. held[p][a] \in 1..Len(history[a]) /\ history[a][held[p][a]].owner = p
    BY <1>1, <1>2 DEF AuthorityInv, TokenHasOneHolder
  <2>2. QED
    BY <1>1, <1>2, <2>1 DEF Lengthened
<1>3. CASE held'[p][a] = Current(a)'.token /\ Current(a)'.owner = p
  <2>1. Current(a)' = NewestOf(history'[a])
    BY DEF Current, NewestOf
  <2>2. held'[p][a] = Len(history'[a])
    BY <1>3, <2>1, NewestShape
  <2>3. history'[a] # <<>>
    BY <1>1, <2>2
  <2>4. history'[a][Len(history'[a])].owner = p
    BY <1>3, <2>1, <2>3 DEF NewestOf
  <2>5. QED
    BY <1>1, <2>2, <2>4
<1>4. QED
  BY <1>2, <1>3 DEF Issued

\* A step that appends a record that may follow, and hands out tokens as
\* Issued says, keeps the invariant.
LEMMA WriteKeeps ==
  ASSUME AuthorityInv, NEW a \in Account, NEW r, MayFollow(history[a], r),
         history' = [history EXCEPT ![a] = Append(@, r)]
  PROVE  /\ history' \in [Account -> Seq(Record)]
         /\ \A b \in Account : GoodHistory(history'[b])
         /\ Lengthened
         /\ Current(a)' = r
         /\ \A b \in Account : b # a => Current(b)' = Current(b)
<1>1. GoodHistory(Append(history[a], r))
  BY HistoryGrows DEF AuthorityInv
<1>2. /\ history'[a] = Append(history[a], r)
      /\ \A b \in Account : b # a => history'[b] = history[b]
      /\ history[a] \in Seq(Record) /\ r \in Record
  BY DEF AuthorityInv, AuthorityTypeOK, MayFollow
<1>3. history' \in [Account -> Seq(Record)]
  BY <1>2 DEF AuthorityInv, AuthorityTypeOK
<1>4. \A b \in Account : GoodHistory(history'[b])
  BY <1>1, <1>2 DEF AuthorityInv
<1>5. Lengthened
  <2> SUFFICES ASSUME NEW b \in Account
               PROVE  /\ Len(history'[b]) >= Len(history[b])
                      /\ \A i \in 1..Len(history[b]) : history'[b][i] = history[b][i]
    BY DEF Lengthened
  <2>1. CASE b = a
    BY <1>2, <2>1
  <2>2. CASE b # a
    <3>1. Len(history[b]) \in Nat
      BY DEF AuthorityInv, AuthorityTypeOK
    <3>2. QED
      BY <1>2, <2>2, <3>1
  <2>3. QED
    BY <2>1, <2>2
<1>6. Current(a)' = r
  <2>1. /\ Append(history[a], r) # <<>>
        /\ Append(history[a], r)[Len(Append(history[a], r))] = r
    BY <1>2
  <2>2. QED
    BY <1>2, <2>1 DEF Current
<1>7. QED
  BY <1>2, <1>3, <1>4, <1>5, <1>6 DEF Current

LEMMA CurrentShape ==
  ASSUME AuthorityInv, NEW a \in Account
  PROVE  /\ Current(a) = NewestOf(history[a]) /\ GoodHistory(history[a])
         /\ Current(a).token = Len(history[a]) /\ Current(a).token \in Nat
         /\ Current(a).expires \in Nat /\ Current(a).at \in Nat
         /\ Current(a).owner \in Process \cup {NoOwner}
         /\ Current(a).owner # NoOwner =>
               Current(a).armed /\ Current(a).expires = Current(a).at + TTL
<1>1. Current(a) = NewestOf(history[a]) /\ GoodHistory(history[a])
  BY DEF AuthorityInv, Current, NewestOf
<1>2. QED
  BY <1>1, NewestShape

\* Hold gives one process one token.
LEMMA HoldTypes ==
  ASSUME AuthorityInv, NEW p \in Process, NEW a \in Account, NEW t \in Nat, Hold(p, a, t)
  PROVE  /\ held' \in [Process -> [Account -> Nat]]
         /\ held'[p][a] = t
         /\ \A q \in Process, b \in Account : q # p \/ b # a => held'[q][b] = held[q][b]
  BY DEF AuthorityInv, AuthorityTypeOK, Hold

LEMMA InitAuthority == AuthorityInit => AuthorityInv
<1> SUFFICES ASSUME AuthorityInit PROVE AuthorityInv
  OBVIOUS
<1>1. \A a \in Account : history[a] = <<>>
  BY DEF AuthorityInit
<1>2. GoodHistory(<<>>)
  BY DEF GoodHistory, ValidHistory
<1>3. AuthorityTypeOK
  BY DEF AuthorityInit, AuthorityTypeOK
<1>4. TokenHasOneHolder
  BY DEF AuthorityInit, TokenHasOneHolder
<1>5. QED
  BY <1>1, <1>2, <1>3, <1>4 DEF AuthorityInv

\* What each action leaves of the invariant, with the record it writes.
LEMMA SameLength ==
  ASSUME AuthorityInv, history' = history
  PROVE  Lengthened
<1>1. \A a \in Account : Len(history[a]) \in Nat
  BY DEF AuthorityInv, AuthorityTypeOK
<1>2. QED
  BY <1>1 DEF Lengthened

LEMMA ArmStep ==
  ASSUME AuthorityInv, NEW a \in Account, Arm(a)
  PROVE  AuthorityInv' /\ Lengthened
<1>1. MayFollow(history[a], ArmRecord(Current(a).token + 1))
  BY CurrentShape, RecordsFollow DEF Arm, AuthorityInv, AuthorityTypeOK
<1>2. history' = [history EXCEPT ![a] = Append(@, ArmRecord(Current(a).token + 1))]
  BY DEF Arm, Write
<1>3. UNCHANGED <<held, alive, now>>
  BY DEF Arm
<1>4. Issued
  BY <1>3 DEF Issued
<1>5. QED
  BY <1>1, <1>2, <1>3, <1>4, WriteKeeps, HoldersKept DEF AuthorityInv, AuthorityTypeOK

LEMMA HaltStep ==
  ASSUME AuthorityInv, NEW a \in Account, Halt(a)
  PROVE  AuthorityInv' /\ Lengthened
<1>1. MayFollow(history[a], HaltRecord(Current(a).token + 1, "manual_halt"))
  BY CurrentShape, RecordsFollow DEF Halt, AuthorityInv, AuthorityTypeOK
<1>2. history' = [history EXCEPT ![a] = Append(@, HaltRecord(Current(a).token + 1, "manual_halt"))]
  BY DEF Halt, Write
<1>3. UNCHANGED <<held, alive, now>>
  BY DEF Halt
<1>4. Issued
  BY <1>3 DEF Issued
<1>5. QED
  BY <1>1, <1>2, <1>3, <1>4, WriteKeeps, HoldersKept DEF AuthorityInv, AuthorityTypeOK

LEMMA AcquireLeaseStep ==
  ASSUME AuthorityInv, NEW p \in Process, NEW a \in Account, AcquireLease(p, a)
  PROVE  AuthorityInv' /\ Lengthened
<1> DEFINE c == Current(a)
<1>1. CASE Unexpired(c)
  <2>1. history' = history /\ Hold(p, a, c.token) /\ c.owner = p /\ UNCHANGED <<alive, now>>
    BY <1>1 DEF AcquireLease
  <2>2. /\ held' \in [Process -> [Account -> Nat]]
        /\ held'[p][a] = c.token
        /\ \A q \in Process, b \in Account : q # p \/ b # a => held'[q][b] = held[q][b]
    BY <2>1, CurrentShape, HoldTypes
  <2>3. Issued
    BY <2>1, <2>2 DEF Issued, Current
  <2>4. Lengthened
    BY <2>1, SameLength
  <2>5. \A b \in Account : GoodHistory(history'[b])
    BY <2>1 DEF AuthorityInv
  <2>6. TokenHasOneHolder'
    BY <2>2, <2>3, <2>4, <2>5, HoldersKept
  <2>7. QED
    BY <2>1, <2>2, <2>4, <2>5, <2>6 DEF AuthorityInv, AuthorityTypeOK
<1>2. CASE ~Unexpired(c)
  <2>1. /\ history' = [history EXCEPT ![a] = Append(@, LeaseRecord(p, c.token + 1))]
        /\ Hold(p, a, c.token + 1) /\ c.armed /\ UNCHANGED <<alive, now>>
    BY <1>2 DEF AcquireLease, Write
  <2>2. MayFollow(history[a], LeaseRecord(p, c.token + 1))
    BY <1>2, <2>1, CurrentShape, RecordsFollow DEF Unexpired, AuthorityInv, AuthorityTypeOK
  <2>3. /\ held' \in [Process -> [Account -> Nat]]
        /\ held'[p][a] = c.token + 1
        /\ \A q \in Process, b \in Account : q # p \/ b # a => held'[q][b] = held[q][b]
    BY <2>1, CurrentShape, HoldTypes
  <2>4. Current(a)' = LeaseRecord(p, c.token + 1)
    BY <2>1, <2>2, WriteKeeps
  <2>5. Issued
    BY <2>3, <2>4 DEF Issued, LeaseRecord
  <2>6. QED
    BY <2>1, <2>2, <2>3, <2>5, WriteKeeps, HoldersKept DEF AuthorityInv, AuthorityTypeOK
<1>3. QED
  BY <1>1, <1>2

LEMMA StartLocalStep ==
  ASSUME AuthorityInv, NEW p \in Process, NEW a \in Account, StartLocal(p, a)
  PROVE  AuthorityInv' /\ Lengthened
<1> DEFINE t == Current(a).token
           h == history[a]
           g == Append(h, ArmRecord(t + 1))
           r == LeaseRecord(p, t + 2)
<1>1. /\ GoodHistory(h) /\ t \in Nat /\ t = NewestOf(h).token /\ now \in Nat
      /\ ~NewestOf(h).armed /\ Hold(p, a, t + 2) /\ UNCHANGED <<alive, now>>
  BY CurrentShape DEF StartLocal, AuthorityInv, AuthorityTypeOK
<1>2. GoodHistory(g)
  BY <1>1, RecordsFollow, HistoryGrows
<1>3. /\ NewestOf(g) = ArmRecord(t + 1) /\ Len(g) = Len(h) + 1 /\ Len(h) \in Nat
      /\ \A i \in 1..Len(h) : g[i] = h[i]
  <2>1. /\ g # <<>> /\ g[Len(g)] = ArmRecord(t + 1) /\ Len(g) = Len(h) + 1 /\ Len(h) \in Nat
        /\ \A i \in 1..Len(h) : g[i] = h[i]
    <3>1. MayFollow(h, ArmRecord(t + 1))
      BY <1>1, RecordsFollow
    <3>2. h \in Seq(Record) /\ ArmRecord(t + 1) \in Record
      BY <1>1, <3>1 DEF GoodHistory, MayFollow
    <3>3. QED
      BY ONLY <3>2
  <2>2. QED
    BY <2>1 DEF NewestOf
<1>4. MayFollow(g, r)
  <2>1. /\ NewestOf(g).token = t + 1 /\ NewestOf(g).armed = TRUE
        /\ NewestOf(g).owner = NoOwner /\ t + 1 \in Nat
    BY <1>1, <1>3 DEF ArmRecord
  <2>2. MayFollow(g, LeaseRecord(p, (t + 1) + 1))
    BY <1>1, <1>2, <2>1, RecordsFollow
  <2>3. (t + 1) + 1 = t + 2
    BY <1>1
  <2>4. QED
    BY <2>2, <2>3
<1>5. history' = [history EXCEPT ![a] = Append(g, r)]
  <2>1. history' = [history EXCEPT ![a] = h \o <<ArmRecord(t + 1), r>>]
    BY DEF StartLocal
  <2>2. h \o <<ArmRecord(t + 1), r>> = Append(g, r)
    BY <1>1 DEF GoodHistory
  <2>3. QED
    BY <2>1, <2>2
<1>6. GoodHistory(Append(g, r))
  BY <1>2, <1>4, HistoryGrows
<1>7. /\ Append(g, r) \in Seq(Record) /\ Len(Append(g, r)) = Len(h) + 2
      /\ \A i \in 1..Len(h) : Append(g, r)[i] = h[i]
      /\ Append(g, r) # <<>> /\ Append(g, r)[Len(Append(g, r))] = r
  BY <1>2, <1>3, <1>4 DEF GoodHistory, MayFollow
<1> HIDE DEF g, r
<1>8. /\ history'[a] = Append(g, r)
      /\ \A b \in Account : b # a => history'[b] = history[b]
  BY <1>5 DEF AuthorityInv, AuthorityTypeOK
<1>9. /\ history' \in [Account -> Seq(Record)]
      /\ \A b \in Account : GoodHistory(history'[b])
  BY <1>5, <1>6, <1>7, <1>8 DEF AuthorityInv, AuthorityTypeOK
<1>10. Lengthened
  <2>1. \A b \in Account : Len(history[b]) \in Nat
    BY DEF AuthorityInv, AuthorityTypeOK
  <2>2. QED
    <3>1. Len(history'[a]) >= Len(h) /\ \A i \in 1..Len(h) : history'[a][i] = h[i]
      <4>1. Len(history'[a]) = Len(h) + 2
        BY <1>7, <1>8
      <4>2. Len(history'[a]) >= Len(h)
        BY <1>3, <4>1
      <4>3. QED
        BY <1>7, <1>8, <4>2
    <3>2. ASSUME NEW b \in Account, b # a PROVE history'[b] = history[b]
      BY <1>8, <3>2
    <3>3. QED
      BY <2>1, <3>1, <3>2 DEF Lengthened
<1>11. Current(a)' = r
  BY <1>7, <1>8 DEF Current
<1>12. /\ held' \in [Process -> [Account -> Nat]]
       /\ held'[p][a] = t + 2
       /\ \A q \in Process, b \in Account : q # p \/ b # a => held'[q][b] = held[q][b]
  BY <1>1, HoldTypes
<1>13. Issued
  BY <1>11, <1>12 DEF Issued, LeaseRecord, r
<1>14. QED
  BY <1>1, <1>9, <1>10, <1>12, <1>13, HoldersKept DEF AuthorityInv, AuthorityTypeOK

LEMMA RenewLeaseStep ==
  ASSUME AuthorityInv, NEW p \in Process, NEW a \in Account, RenewLease(p, a)
  PROVE  AuthorityInv' /\ Lengthened
<1> DEFINE c == Current(a)
<1>1. /\ history' = [history EXCEPT ![a] = Append(@, LeaseRecord(p, c.token + 1))]
      /\ Hold(p, a, c.token + 1) /\ UNCHANGED <<alive, now>>
      /\ c.armed /\ c.owner = p /\ now > c.at
  BY DEF RenewLease, OwnsLease, Write
<1>2. MayFollow(history[a], LeaseRecord(p, c.token + 1))
  BY <1>1, CurrentShape, RecordsFollow DEF AuthorityInv, AuthorityTypeOK
<1>3. /\ held' \in [Process -> [Account -> Nat]]
      /\ held'[p][a] = c.token + 1
      /\ \A q \in Process, b \in Account : q # p \/ b # a => held'[q][b] = held[q][b]
  BY <1>1, CurrentShape, HoldTypes
<1>4. Current(a)' = LeaseRecord(p, c.token + 1)
  BY <1>1, <1>2, WriteKeeps
<1>5. Issued
  BY <1>3, <1>4 DEF Issued, LeaseRecord
<1>6. QED
  BY <1>1, <1>2, <1>3, <1>5, WriteKeeps, HoldersKept DEF AuthorityInv, AuthorityTypeOK

LEMMA HaltOwnedStep ==
  ASSUME AuthorityInv, NEW p \in Process, NEW a \in Account, HaltOwned(p, a)
  PROVE  AuthorityInv' /\ Lengthened
<1> DEFINE r == HaltRecord(Current(a).token + 1, "manual_halt")
<1>1. /\ history' = [history EXCEPT ![a] = Append(@, r)]
      /\ Hold(p, a, 0) /\ UNCHANGED <<alive, now>> /\ Current(a).armed
  BY DEF HaltOwned, Write
<1>2. MayFollow(history[a], r)
  BY <1>1, CurrentShape, RecordsFollow DEF AuthorityInv, AuthorityTypeOK
<1>3. /\ held' \in [Process -> [Account -> Nat]]
      /\ held'[p][a] = 0
      /\ \A q \in Process, b \in Account : q # p \/ b # a => held'[q][b] = held[q][b]
  BY <1>1, HoldTypes
<1>4. Issued
  BY <1>3 DEF Issued
<1>5. QED
  BY <1>1, <1>2, <1>3, <1>4, WriteKeeps, HoldersKept DEF AuthorityInv, AuthorityTypeOK

LEMMA HaltAllStep ==
  ASSUME AuthorityInv, NEW reason \in {"manual_halt", "automatic_performance_halt"},
         HaltAll(reason)
  PROVE  AuthorityInv' /\ Lengthened
<1> DEFINE r(b) == HaltRecord(Current(b).token + 1, reason)
<1>1. /\ history' = [b \in Account |-> history'[b]]
      /\ \A b \in Account : history'[b] = IF Current(b).armed
                                          THEN Append(history[b], r(b)) ELSE history[b]
      /\ UNCHANGED <<held, alive, now>>
  BY DEF HaltAll
<1>2. ASSUME NEW b \in Account
      PROVE  /\ GoodHistory(history'[b])
             /\ Len(history'[b]) >= Len(history[b])
             /\ \A i \in 1..Len(history[b]) : history'[b][i] = history[b][i]
  <2>1. GoodHistory(history[b]) /\ Len(history[b]) \in Nat
    BY DEF AuthorityInv, AuthorityTypeOK
  <2>2. CASE Current(b).armed
    <3>1. MayFollow(history[b], r(b))
      BY <2>1, <2>2, CurrentShape, RecordsFollow DEF AuthorityInv, AuthorityTypeOK
    <3>2. GoodHistory(Append(history[b], r(b)))
      BY <2>1, <3>1, HistoryGrows
    <3>3. history[b] \in Seq(Record) /\ r(b) \in Record
      BY <2>1, <3>1 DEF GoodHistory, MayFollow
    <3>4. history'[b] = Append(history[b], r(b))
      BY <1>1, <2>2
    <3> HIDE DEF r
    <3>5. QED
      BY <2>1, <3>2, <3>3, <3>4
  <2>3. CASE ~Current(b).armed
    BY <1>1, <2>1, <2>3
  <2>4. QED
    BY <2>2, <2>3
<1>3. history' \in [Account -> Seq(Record)]
  BY <1>1, <1>2 DEF GoodHistory
<1>4. Issued /\ Lengthened
  BY <1>1, <1>2 DEF Issued, Lengthened
<1>5. QED
  BY <1>1, <1>2, <1>3, <1>4, HoldersKept DEF AuthorityInv, AuthorityTypeOK

LEMMA CrashStep ==
  ASSUME AuthorityInv, NEW p \in Process, CrashProcess(p), UNCHANGED <<history, now>>
  PROVE  AuthorityInv' /\ Lengthened
<1>1. /\ alive' \subseteq Process /\ held' \in [Process -> [Account -> Nat]]
      /\ \A q \in Process, a \in Account :
            held'[q][a] = IF q = p THEN 0 ELSE held[q][a]
  BY DEF CrashProcess, AuthorityInv, AuthorityTypeOK
<1>2. TokenHasOneHolder'
  BY <1>1 DEF AuthorityInv, TokenHasOneHolder
<1>3. QED
  BY <1>1, <1>2, SameLength DEF AuthorityInv, AuthorityTypeOK

LEMMA ClockStep ==
  ASSUME AuthorityInv, Tick \/ SetBack
  PROVE  AuthorityInv' /\ Lengthened
<1>1. UNCHANGED <<history, held, alive>> /\ now' \in Nat
  BY DEF Tick, SetBack, ClockAdvances, ClockSetBack, AuthorityInv, AuthorityTypeOK
<1>2. QED
  BY <1>1, SameLength DEF AuthorityInv, AuthorityTypeOK, TokenHasOneHolder

LEMMA NextAuthority == AuthorityInv /\ [AuthorityNext]_authorityVars => AuthorityInv' /\ Lengthened
<1> SUFFICES ASSUME AuthorityInv, [AuthorityNext]_authorityVars PROVE AuthorityInv' /\ Lengthened
  OBVIOUS
<1>1. ASSUME NEW a \in Account, Arm(a) \/ Halt(a) PROVE AuthorityInv' /\ Lengthened
  BY <1>1, ArmStep, HaltStep
<1>2. CASE HaltAll("manual_halt") \/ HaltAll("automatic_performance_halt")
  BY <1>2, HaltAllStep
<1>3. ASSUME NEW p \in Process, NEW a \in Account,
             AcquireLease(p, a) \/ StartLocal(p, a) \/ RenewLease(p, a) \/ HaltOwned(p, a)
      PROVE  AuthorityInv' /\ Lengthened /\ Lengthened
  BY <1>3, AcquireLeaseStep, StartLocalStep, RenewLeaseStep, HaltOwnedStep
<1>4. ASSUME NEW p \in Process, Crash(p) PROVE AuthorityInv' /\ Lengthened
  BY <1>4, CrashStep DEF Crash
<1>5. CASE Tick \/ SetBack
  BY <1>5, ClockStep
<1>6. CASE UNCHANGED authorityVars
  BY <1>6, SameLength DEF authorityVars, AuthorityInv, AuthorityTypeOK, TokenHasOneHolder
<1>7. QED
  BY <1>1, <1>2, <1>3, <1>4, <1>5, <1>6 DEF AuthorityNext

LEMMA AuthoritySound == AuthoritySpec => []AuthorityInv
  BY InitAuthority, NextAuthority, PTL DEF AuthoritySpec

THEOREM AuthorityTyped == AuthoritySpec => []AuthorityTypeOK
<1>1. AuthorityInv => AuthorityTypeOK
  BY DEF AuthorityInv
<1>2. QED
  BY <1>1, AuthoritySound, PTL

\* No operation writes a record the replay before the next operation refuses.
THEOREM HistoriesReplay == AuthoritySpec => []HistoryReplays
<1>1. AuthorityInv => HistoryReplays
  BY DEF AuthorityInv, GoodHistory, HistoryReplays
<1>2. QED
  BY <1>1, AuthoritySound, PTL

\* Fencing tokens are never shared, whatever the clock does.
THEOREM TokensExclusive == AuthoritySpec => []TokenHasOneHolder
<1>1. AuthorityInv => TokenHasOneHolder
  BY DEF AuthorityInv
<1>2. QED
  BY <1>1, AuthoritySound, PTL

\* A token that is not the newest never becomes the newest again.
THEOREM SupersededForGood == AuthoritySpec => SupersededTokenStaysRefused
<1>1. AuthorityInv /\ [AuthorityNext]_authorityVars
      => [\A p \in Process, a \in Account :
             held[p][a] # 0 /\ held'[p][a] = held[p][a] /\ Current(a).token # held[p][a]
             => ~OwnsLease(p, a, held[p][a])']_authorityVars
  <2> SUFFICES ASSUME AuthorityInv, [AuthorityNext]_authorityVars,
                      NEW p \in Process, NEW a \in Account,
                      held[p][a] # 0, held'[p][a] = held[p][a],
                      Current(a).token # held[p][a]
               PROVE  ~OwnsLease(p, a, held[p][a])'
    OBVIOUS
  <2>1. AuthorityInv' /\ Lengthened
    BY NextAuthority
  <2>2. Current(a).token = Len(history[a]) /\ Len(history[a]) \in Nat
    BY CurrentShape
  <2>3. /\ Current(a)' = NewestOf(history'[a]) /\ NewestOf(history'[a]).token = Len(history'[a])
        /\ Len(history'[a]) \in Nat
    <3>1. GoodHistory(history'[a])
      BY <2>1 DEF AuthorityInv
    <3>2. QED
      BY <3>1, NewestShape DEF Current, NewestOf
  <2>4. held[p][a] \in Nat /\ held[p][a] <= Len(history[a])
    BY DEF AuthorityInv, AuthorityTypeOK, TokenHasOneHolder
  <2>5. Current(a)'.token # held'[p][a]
    BY <2>1, <2>2, <2>3, <2>4 DEF Lengthened
  <2>6. QED
    BY <2>5 DEF OwnsLease
<1>2. QED
  BY <1>1, AuthoritySound, PTL DEF AuthoritySpec, SupersededTokenStaysRefused

-----------------------------------------------------------------------------
(* The refinement                                                           *)

\* What a step does to the newest record of account b, as far as the fenced
\* lease sees it.
LEMMA LeaseStepOf ==
  ASSUME AuthorityInv, NEW b \in Account,
         \/ Current(b)' = Current(b) /\ now' \in Int
         \/ /\ Current(b)'.owner = NoOwner /\ now' = now
            /\ Current(b)'.token >= Current(b).token
         \/ /\ ~Unexpired(Current(b)) /\ now' = now
            /\ Current(b)'.owner \in Process
            /\ Current(b)'.token > Current(b).token
            /\ Current(b)'.expires = now + TTL
         \/ /\ Unexpired(Current(b)) /\ now' = now
            /\ Current(b)'.owner = Current(b).owner
            /\ Current(b)'.token = Current(b).token + 1
            /\ Current(b)'.expires = now + TTL
            /\ now > Current(b).at
  PROVE  LeaseOf(b)!LeaseNext \/ UNCHANGED LeaseOf(b)!leaseVars
<1>1. /\ Current(b).token \in Nat /\ Current(b).expires \in Nat /\ Current(b).at \in Nat
      /\ Current(b).owner # NoOwner => Current(b).expires = Current(b).at + TTL
      /\ now \in Nat /\ TTL \in Nat \ {0}
  BY CurrentShape, LeaseAssumption DEF AuthorityInv, AuthorityTypeOK
<1>2. CASE Current(b)' = Current(b) /\ now' \in Int
  <2>1. LeaseOf(b)!TimePasses
    BY <1>1, <1>2 DEF LeaseOf!TimePasses
  <2>2. QED
    BY <2>1 DEF LeaseOf!LeaseNext
<1>3. CASE /\ Current(b)'.owner = NoOwner /\ now' = now
           /\ Current(b)'.token >= Current(b).token
  <2>1. LeaseOf(b)!Drop
    BY <1>3 DEF LeaseOf!Drop
  <2>2. QED
    BY <2>1 DEF LeaseOf!LeaseNext
<1>4. CASE /\ ~Unexpired(Current(b)) /\ now' = now
           /\ Current(b)'.owner \in Process
           /\ Current(b)'.token > Current(b).token
           /\ Current(b)'.expires = now + TTL
  <2>1. LeaseOf(b)!Grant(Current(b)'.owner)
    BY <1>1, <1>4 DEF LeaseOf!Grant, LeaseOf!IsLive, Unexpired
  <2>2. QED
    BY <1>4, <2>1 DEF LeaseOf!LeaseNext
<1>5. CASE /\ Unexpired(Current(b)) /\ now' = now
           /\ Current(b)'.owner = Current(b).owner
           /\ Current(b)'.token = Current(b).token + 1
           /\ Current(b)'.expires = now + TTL
           /\ now > Current(b).at
  <2>1. LeaseOf(b)!Renew
    BY <1>1, <1>5 DEF LeaseOf!Renew, LeaseOf!IsLive, Unexpired
  <2>2. QED
    BY <2>1 DEF LeaseOf!LeaseNext
<1>6. QED
  BY <1>2, <1>3, <1>4, <1>5

LEMMA NextFenced ==
  ASSUME AuthorityInv, AuthorityNext, NEW b \in Account
  PROVE  LeaseOf(b)!LeaseNext \/ UNCHANGED LeaseOf(b)!leaseVars
<1>1. now \in Nat /\ Current(b).token \in Nat
  BY CurrentShape DEF AuthorityInv, AuthorityTypeOK
<1>2. ASSUME NEW a \in Account, Arm(a) \/ Halt(a)
      PROVE  LeaseOf(b)!LeaseNext \/ UNCHANGED LeaseOf(b)!leaseVars
  <2> DEFINE next == Current(a).token + 1
  <2>1. \E r \in {ArmRecord(next), HaltRecord(next, "manual_halt")} :
           /\ MayFollow(history[a], r)
           /\ history' = [history EXCEPT ![a] = Append(@, r)] /\ now' = now
    <3>1. CASE Arm(a)
      <4>1. MayFollow(history[a], ArmRecord(next))
        BY <3>1, CurrentShape, RecordsFollow DEF Arm, AuthorityInv, AuthorityTypeOK
      <4>2. history' = [history EXCEPT ![a] = Append(@, ArmRecord(next))] /\ now' = now
        BY <3>1 DEF Arm, Write
      <4>3. QED
        BY <4>1, <4>2
    <3>2. CASE Halt(a)
      <4>1. MayFollow(history[a], HaltRecord(next, "manual_halt"))
        BY <3>2, CurrentShape, RecordsFollow DEF Halt, AuthorityInv, AuthorityTypeOK
      <4>2. history' = [history EXCEPT ![a] = Append(@, HaltRecord(next, "manual_halt"))]
            /\ now' = now
        BY <3>2 DEF Halt, Write
      <4>3. QED
        BY <4>1, <4>2
    <3>3. QED
      BY <1>2, <3>1, <3>2
  <2>2. PICK r \in {ArmRecord(next), HaltRecord(next, "manual_halt")} :
           /\ MayFollow(history[a], r)
           /\ history' = [history EXCEPT ![a] = Append(@, r)] /\ now' = now
    BY <2>1
  <2>3. r.owner = NoOwner /\ r.token = next
    BY <2>2 DEF ArmRecord, HaltRecord
  <2>4. Current(a)' = r /\ \A c \in Account : c # a => Current(c)' = Current(c)
    BY <2>2, WriteKeeps
  <2>5. QED
    BY <1>1, <2>2, <2>3, <2>4, LeaseStepOf
<1>3. ASSUME NEW reason \in {"manual_halt", "automatic_performance_halt"}, HaltAll(reason)
      PROVE  LeaseOf(b)!LeaseNext \/ UNCHANGED LeaseOf(b)!leaseVars
  <2>1. /\ history'[b] = IF Current(b).armed
                         THEN Append(history[b], HaltRecord(Current(b).token + 1, reason))
                         ELSE history[b]
        /\ now' = now
    BY <1>3 DEF HaltAll
  <2>2. CASE Current(b).armed
    <3> DEFINE r == HaltRecord(Current(b).token + 1, reason)
    <3>1. MayFollow(history[b], r)
      BY <2>2, CurrentShape, RecordsFollow DEF AuthorityInv, AuthorityTypeOK
    <3>2. history[b] \in Seq(Record) /\ r \in Record
      BY <3>1 DEF AuthorityInv, AuthorityTypeOK, MayFollow
    <3>3. r.owner = NoOwner /\ r.token = Current(b).token + 1
      BY DEF HaltRecord
    <3>4. history'[b] = Append(history[b], r)
      BY <2>1, <2>2
    <3> HIDE DEF r
    <3>5. /\ Append(history[b], r) # <<>>
          /\ Append(history[b], r)[Len(Append(history[b], r))] = r
      BY <3>2
    <3>6. Current(b)' = r
      BY <3>4, <3>5 DEF Current
    <3>7. QED
      BY <1>1, <2>1, <3>3, <3>6, LeaseStepOf
  <2>3. CASE ~Current(b).armed
    <3>1. Current(b)' = Current(b)
      BY <2>1, <2>3 DEF Current
    <3>2. QED
      BY <1>1, <2>1, <3>1, LeaseStepOf
  <2>4. QED
    BY <2>2, <2>3
<1>4. ASSUME NEW p \in Process, NEW a \in Account, AcquireLease(p, a) \/ RenewLease(p, a)
      PROVE  LeaseOf(b)!LeaseNext \/ UNCHANGED LeaseOf(b)!leaseVars
  <2> DEFINE r == LeaseRecord(p, Current(a).token + 1)
  <2>1. CASE history' = history
    <3>1. Current(b)' = Current(b) /\ now' = now
      BY <1>4, <2>1 DEF AcquireLease, RenewLease, Current
    <3>2. QED
      BY <1>1, <3>1, LeaseStepOf
  <2>2. CASE history' # history
    <3>1. /\ history' = [history EXCEPT ![a] = Append(@, r)] /\ now' = now
          /\ Current(a).armed
          /\ ~Unexpired(Current(a)) \/ (now > Current(a).at /\ Current(a).owner = p
                                        /\ Unexpired(Current(a)))
      BY <1>4, <2>2, LeaseAssumption
         DEF AcquireLease, RenewLease, OwnsLease, Write, Unexpired
    <3>2. MayFollow(history[a], r)
      BY <3>1, CurrentShape, RecordsFollow DEF AuthorityInv, AuthorityTypeOK, Unexpired
    <3>3. /\ Current(a)' = r
          /\ \A c \in Account : c # a => Current(c)' = Current(c)
      BY <3>1, <3>2, WriteKeeps
    <3>4. r.owner = p /\ r.token = Current(a).token + 1 /\ r.expires = now + TTL
      BY DEF LeaseRecord
    <3> HIDE DEF r
    <3>5. CASE b = a
      BY <1>1, <3>1, <3>3, <3>4, <3>5, LeaseStepOf
    <3>6. CASE b # a
      BY <1>1, <3>1, <3>3, <3>6, LeaseStepOf
    <3>7. QED
      BY <3>5, <3>6
  <2>3. QED
    BY <2>1, <2>2
<1>5. ASSUME NEW p \in Process, NEW a \in Account, StartLocal(p, a)
      PROVE  LeaseOf(b)!LeaseNext \/ UNCHANGED LeaseOf(b)!leaseVars
  <2> DEFINE t == Current(a).token
             r == LeaseRecord(p, t + 2)
             l == history[a] \o <<ArmRecord(t + 1), r>>
  <2>1. history' = [history EXCEPT ![a] = l] /\ now' = now /\ ~Current(a).armed
    BY <1>5 DEF StartLocal
  <2>2. l # <<>> /\ l[Len(l)] = r
    BY DEF AuthorityInv, AuthorityTypeOK
  <2>3. history'[a] = l /\ \A c \in Account : c # a => history'[c] = history[c]
    BY <2>1 DEF AuthorityInv, AuthorityTypeOK
  <2>4. Current(a)' = r /\ \A c \in Account : c # a => Current(c)' = Current(c)
    BY <2>2, <2>3 DEF Current
  <2>5. r.owner = p /\ r.token = t + 2 /\ r.expires = now + TTL /\ ~Unexpired(Current(a))
    BY <2>1, CurrentShape DEF LeaseRecord, Unexpired
  <2> HIDE DEF r, l
  <2>6. CASE b = a
    BY <1>1, <2>1, <2>4, <2>5, <2>6, LeaseStepOf
  <2>7. CASE b # a
    BY <1>1, <2>1, <2>4, <2>7, LeaseStepOf
  <2>8. QED
    BY <2>6, <2>7
<1>6. ASSUME NEW p \in Process, NEW a \in Account, HaltOwned(p, a)
      PROVE  LeaseOf(b)!LeaseNext \/ UNCHANGED LeaseOf(b)!leaseVars
  <2> DEFINE r == HaltRecord(Current(a).token + 1, "manual_halt")
  <2>1. /\ MayFollow(history[a], r)
        /\ history' = [history EXCEPT ![a] = Append(@, r)] /\ now' = now
    BY <1>6, CurrentShape, RecordsFollow
       DEF HaltOwned, Write, AuthorityInv, AuthorityTypeOK
  <2>2. /\ Current(a)' = r /\ r.owner = NoOwner /\ r.token = Current(a).token + 1
        /\ \A c \in Account : c # a => Current(c)' = Current(c)
    BY <2>1, WriteKeeps DEF HaltRecord
  <2> HIDE DEF r
  <2>3. QED
    BY <1>1, <2>1, <2>2, LeaseStepOf
<1>7. ASSUME history' = history, now' \in Int
      PROVE  LeaseOf(b)!LeaseNext \/ UNCHANGED LeaseOf(b)!leaseVars
  BY <1>7, LeaseStepOf DEF Current
<1>8. CASE Tick \/ SetBack
  <2>1. history' = history /\ now' \in Int
    BY <1>1, <1>8 DEF Tick, SetBack, ClockAdvances, ClockSetBack
  <2>2. QED
    BY <1>7, <2>1
<1>9. ASSUME NEW p \in Process, Crash(p)
      PROVE  LeaseOf(b)!LeaseNext \/ UNCHANGED LeaseOf(b)!leaseVars
  BY <1>1, <1>7, <1>9 DEF Crash
<1>10. QED
  BY <1>2, <1>3, <1>4, <1>5, <1>6, <1>8, <1>9 DEF AuthorityNext

\* The authority records of every account implement the fenced lease.
THEOREM AuthorityImplementsLease == AuthoritySpec => ImplementsFencedLease
<1>1. AuthorityInit => \A a \in Account : LeaseOf(a)!LeaseInit
  <2> SUFFICES ASSUME AuthorityInit, NEW a \in Account PROVE LeaseOf(a)!LeaseInit
    OBVIOUS
  <2>1. Current(a) = NoAuthority /\ now = 0
    BY DEF AuthorityInit, Current
  <2>2. QED
    BY <2>1 DEF LeaseOf!LeaseInit, NoAuthority
<1>2. AuthorityInv /\ [AuthorityNext]_authorityVars
      => [\A a \in Account :
             LeaseOf(a)!LeaseNext \/ UNCHANGED LeaseOf(a)!leaseVars]_authorityVars
  BY NextFenced
<1>3. QED
  BY <1>1, <1>2, AuthoritySound, PTL DEF AuthoritySpec, ImplementsFencedLease

-----------------------------------------------------------------------------
(* The dispatch *)

\* The call is between its authorising transaction and its last one.
InFlight(t) == thread[t].pc \in {"submit", "record"}

\* Inductive.  SubmitAtMostOnce alone is not: that the venue was not written
\* to yet has to be known of every call that is about to write, and that two
\* such calls never act on the same order.
CallsInv ==
    /\ \A t \in Thread : thread[t].pc # "idle" => thread[t].order \in Order
    /\ \A t \in Thread : InFlight(t) =>
          /\ IsReserved(thread[t].order)
          /\ order[thread[t].order].pending = "SUBMIT"
          /\ thread[t].pc = "submit" => sent[thread[t].order] = 0
    /\ \A t, u \in Thread :
          t # u /\ InFlight(t) /\ InFlight(u) => thread[t].order # thread[u].order
    /\ \A o \in Order : sent[o] <= 1 /\ (sent[o] > 0 => IsReserved(o))

\* A reserved order was dispatched, under a lease that was current and live.
ReservedInv ==
    /\ \A o \in Order : IsReserved(o) => order[o].status \in PostDispatch
    /\ ReservationBackedByLease

DispatchInv ==
    /\ DispatchTypeOK
    /\ OrdersInv
    /\ AuthorityInv
    /\ CallsInv
    /\ ReservedInv

-----------------------------------------------------------------------------
(* What the actions do to the journal *)

\* Everything but the reply of one's own call leaves a submit in flight alone.
InFlightKept == \A d \in Order : order[d].pending = "SUBMIT" => order'[d] = order[d]

LEMMA RegisterJournal ==
  ASSUME DispatchInv, NEW o \in Order, NEW i \in Intent, RecordIntent(o, i)
  PROVE  OrdersInv' /\ OrdersKeep /\ InFlightKept
<1>1. OrdersInv' /\ OrdersKeep
  BY RecordIntentStep DEF DispatchInv
<1>2. order[o].pending # "SUBMIT"
  BY DEF RecordIntent, DispatchInv, OrdersInv, NewState
<1>3. \A d \in Order : d # o => order'[d] = order[d]
  BY DEF RecordIntent, DispatchInv, OrdersInv, JournalTypeOK
<1>4. QED
  BY <1>1, <1>2, <1>3 DEF InFlightKept

LEMMA DispatchJournal ==
  ASSUME DispatchInv, NEW o \in Order, InsertDispatch(o)
  PROVE  /\ OrdersInv' /\ OrdersKeep /\ InFlightKept
         /\ order'[o].status \in PostDispatch /\ order'[o].pending = "SUBMIT"
<1> DEFINE risk == PlainEvent(o, <<o, "RISK_APPROVED">>, "RISK_APPROVED")
           dispatched == PlainEvent(o, <<o, "SUBMIT_DISPATCHED">>, "SUBMIT_DISPATCHED")
           q == intent[o].qty
<1>1. OrdersInv' /\ OrdersKeep
  BY InsertDispatchStep DEF DispatchInv
<1>2. order[o].pending = "NONE" /\ order[o] \in State
  BY DEF InsertDispatch, DispatchInv, OrdersInv, JournalTypeOK
<1>3. order' = [order EXCEPT ![o] = Transition(q, Transition(q, @, risk), dispatched)]
  BY DEF InsertDispatch
<1>4. dispatched.type = "SUBMIT_DISPATCHED"
  BY DEF PlainEvent
<1>5. \A d \in Order : d # o => order'[d] = order[d]
  BY <1>3 DEF DispatchInv, OrdersInv, JournalTypeOK
<1>6. order'[o] = [Transition(q, order[o], risk) EXCEPT !.status = "SUBMIT_UNKNOWN",
                                                        !.pending = "SUBMIT"]
  BY <1>3, <1>4 DEF Transition, DispatchInv, OrdersInv, JournalTypeOK
<1>7. Transition(q, order[o], risk) = [order[o] EXCEPT !.status = "READY"]
  BY DEF Transition, PlainEvent
<1>8. order'[o].status = "SUBMIT_UNKNOWN" /\ order'[o].pending = "SUBMIT"
  BY <1>2, <1>6, <1>7 DEF State
<1>9. QED
  BY <1>1, <1>2, <1>5, <1>8 DEF InFlightKept, PostDispatch

LEMMA ReplyEventsWellFormed ==
  ASSUME NEW o \in Order
  PROVE  /\ WellFormed(AckEvent(o, <<o, "SUBMIT_ACKNOWLEDGED">>, RefOf[o]))
         /\ WellFormed(PlainEvent(o, <<o, "SUBMIT_REJECTED">>, "SUBMIT_REJECTED"))
         /\ AckEvent(o, <<o, "SUBMIT_ACKNOWLEDGED">>, RefOf[o]).order = o
         /\ PlainEvent(o, <<o, "SUBMIT_REJECTED">>, "SUBMIT_REJECTED").order = o
  BY RefAssumption DEF WellFormed, AckEvent, PlainEvent, EventType

LEMMA ReplyJournal ==
  ASSUME DispatchInv, NEW t \in Thread, RecordReply(t)
  PROVE  OrdersInv' /\ OrdersKeep /\ (\A d \in Order : d # thread[t].order => order'[d] = order[d])
<1> DEFINE o == thread[t].order
<1>1. o \in Order
  BY DEF RecordReply, DispatchInv, CallsInv
<1>2. ASSUME NEW e, WellFormed(e), e.order = o, AppendEvent(e)
      PROVE  OrdersInv' /\ OrdersKeep /\ (\A d \in Order : d # o => order'[d] = order[d])
  <2>1. OrdersInv' /\ OrdersKeep
    BY <1>2, AppendEventStep DEF DispatchInv
  <2>2. \A d \in Order : d # o => order'[d] = order[d]
    BY <1>2 DEF AppendEvent, Insert, DispatchInv, OrdersInv, JournalTypeOK
  <2>3. QED
    BY <2>1, <2>2
<1>3. CASE UNCHANGED journalVars
  BY <1>3 DEF journalVars, DispatchInv, OrdersInv, JournalTypeOK, IsRecorded,
              OneSubmitInFlight, OrdersKeep
<1>4. CASE thread[t].reply = "acknowledged"
  BY <1>1, <1>2, <1>4, ReplyEventsWellFormed DEF RecordReply
<1>5. CASE thread[t].reply = "rejected"
  BY <1>1, <1>2, <1>5, ReplyEventsWellFormed DEF RecordReply
<1>6. QED
  BY <1>3, <1>4, <1>5 DEF RecordReply

LEMMA ReconcileJournal ==
  ASSUME DispatchInv, NEW o \in Order, NEW l \in lookups, Reconcile(o, l)
  PROVE  OrdersInv' /\ OrdersKeep /\ InFlightKept
<1> DEFINE q == intent[o].qty
           s == order[o]
<1>1. PICK n \in 1..(q - s.filled) :
         order' = [order EXCEPT ![o] =
            Transition(q, @, FillEvent(o, <<o, "FILL", 0>>, RefOf[o], <<o, 0>>, n))]
  BY DEF Reconcile
<1> DEFINE e == FillEvent(o, <<o, "FILL", 0>>, RefOf[o], <<o, 0>>, n)
           t == Transition(q, s, e)
<1>2. /\ s.ref = RefOf[o] /\ UNCHANGED intent /\ DOMAIN log' = Order
      /\ s.status \in {"OPEN", "PARTIALLY_FILLED", "FILLED", "CANCEL_UNKNOWN", "CANCELED"}
  BY DEF Reconcile, DispatchInv, OrdersInv, JournalTypeOK
<1>3. IsRecorded(o) /\ s \in State
  BY <1>2 DEF DispatchInv, OrdersInv, JournalTypeOK, NewState
<1>4. q \in Nat \ {0} /\ Coherent(q, s)
  BY <1>3, PositiveQuantity DEF DispatchInv, OrdersInv
<1>5. /\ e.type = "FILL_RECORDED" /\ e.qty = n /\ e.ref = RefOf[o] /\ e.order = o
      /\ RefOf[o] \in ProviderRef
  BY RefAssumption DEF FillEvent, PlainEvent
<1>6. n \in Nat \ {0} /\ s.filled + n <= q /\ s.filled < q
  BY <1>1, <1>3, <1>4 DEF State
<1> HIDE DEF e
<1>7. WellFormed(e)
  BY <1>5, <1>6 DEF WellFormed, EventType
<1>8. Accepts(q, s, e)
  BY <1>2, <1>4, <1>5, <1>6 DEF Accepts, Binds, Fillable, Coherent
<1>9. Coherent(q, t) /\ Keeps(s, e, t)
  BY <1>4, <1>7, <1>8, TransitionCoherent
<1>10. order' = [order EXCEPT ![o] = t]
  BY <1>1 DEF e
<1> HIDE DEF t
<1>11. order'[o] = t /\ \A d \in Order : d # o => order'[d] = order[d]
  BY <1>10 DEF DispatchInv, OrdersInv, JournalTypeOK
<1>12. s.pending # "SUBMIT"
  BY <1>2, <1>4 DEF Coherent
<1>13. JournalTypeOK'
  BY <1>2, <1>9, <1>10 DEF DispatchInv, OrdersInv, JournalTypeOK, Coherent
<1>14. OneSubmitInFlight'
  BY <1>5, <1>9, <1>11, <1>12 DEF DispatchInv, OrdersInv, OneSubmitInFlight, Keeps
<1>15. \A d \in Order : (IF IsRecorded(d) THEN Coherent(intent[d].qty, order[d])
                         ELSE order[d] = NewState)'
  BY <1>2, <1>3, <1>9, <1>11 DEF DispatchInv, OrdersInv, IsRecorded
<1>16. OrdersKeep
  <2>1. s.filled <= t.filled
    BY <1>3, <1>5, <1>6, <1>9 DEF Keeps, State
  <2>2. QED
    BY <1>2, <1>9, <1>11, <2>1 DEF OrdersKeep, Keeps
<1>17. QED
  BY <1>11, <1>12, <1>13, <1>14, <1>15, <1>16 DEF OrdersInv, InFlightKept

-----------------------------------------------------------------------------
(* What the actions do to the calls                                         *)

LEMMA ReservedKept ==
  ASSUME DispatchInv, OrdersKeep, NEW o \in Order, IsReserved(o)
  PROVE  order'[o].status \in PostDispatch
<1>1. order[o].status \in PostDispatch
  BY DEF DispatchInv, ReservedInv
<1>2. IsRecorded(o)
  BY <1>1 DEF DispatchInv, OrdersInv, NewState, PostDispatch
<1>3. QED
  BY <1>1, <1>2 DEF OrdersKeep

\* A step in which no call gets past its authorising transaction, no write to
\* the venue and no new reservation.
LEMMA QuietCalls ==
  ASSUME DispatchInv, OrdersKeep, InFlightKept, reservation' = reservation, sent' = sent,
         \A t \in Thread : \/ thread'[t] = thread[t]
                           \/ thread'[t].pc = "idle"
                           \/ thread'[t].pc = "preflight" /\ thread'[t].order \in Order
  PROVE  /\ CallsInv'
         /\ \A o \in Order : IsReserved(o)' => order'[o].status \in PostDispatch
<1>1. \A t \in Thread : InFlight(t)' => InFlight(t) /\ thread'[t] = thread[t]
  BY DEF InFlight
<1>2. \A o \in Order : IsReserved(o)' <=> IsReserved(o)
  BY DEF IsReserved
<1>3. \A t \in Thread : InFlight(t) => /\ thread[t].order \in Order
                                       /\ order[thread[t].order].pending = "SUBMIT"
  BY DEF DispatchInv, CallsInv, InFlight
<1>4. \A t \in Thread : InFlight(t)' => order'[thread'[t].order].pending = "SUBMIT"
  BY <1>1, <1>3 DEF InFlightKept
<1>5. \A t \in Thread : thread'[t].pc # "idle" => thread'[t].order \in Order
  BY DEF DispatchInv, CallsInv
<1>6. \A t \in Thread : InFlight(t)' => /\ IsReserved(thread[t].order)'
                                        /\ thread'[t].pc = "submit" => sent'[thread'[t].order] = 0
  BY <1>1, <1>3 DEF DispatchInv, CallsInv, IsReserved
<1>7. \A t, u \in Thread :
         t # u /\ InFlight(t)' /\ InFlight(u)' => thread'[t].order # thread'[u].order
  BY <1>1 DEF DispatchInv, CallsInv
<1>8. \A o \in Order : sent'[o] <= 1 /\ (sent'[o] > 0 => IsReserved(o)')
  BY <1>2 DEF DispatchInv, CallsInv
<1>9. CallsInv'
  BY <1>4, <1>5, <1>6, <1>7, <1>8 DEF CallsInv
<1>10. QED
  BY <1>2, <1>9, ReservedKept

\* A step that leaves the journal alone.
LEMMA JournalUnchanged ==
  ASSUME DispatchInv, UNCHANGED journalVars
  PROVE  OrdersInv' /\ OrdersKeep /\ InFlightKept
<1>1. OrdersInv /\ UNCHANGED <<intent, order, log>>
  BY DEF DispatchInv, journalVars
<1>2. OrdersInv'
  BY <1>1 DEF OrdersInv, JournalTypeOK, IsRecorded, OneSubmitInFlight
<1>3. OrdersKeep /\ InFlightKept
  BY <1>1 DEF OrdersKeep, InFlightKept
<1>4. QED
  BY <1>2, <1>3

LEMMA AuthorityUnchanged ==
  ASSUME DispatchInv, UNCHANGED authorityVars
  PROVE  AuthorityInv' /\ Lengthened
<1>1. AuthorityInv
  BY DEF DispatchInv
<1>2. QED
  BY <1>1, NextAuthority

\* Reservations that were backed stay backed when histories get longer.
LEMMA BackedKept ==
  ASSUME DispatchInv, Lengthened, AuthorityInv', reservation' = reservation
  PROVE  ReservationBackedByLease'
<1> SUFFICES ASSUME NEW o \in Order, IsReserved(o)'
             PROVE  /\ reservation'[o].token <= Len(history'[Acct(o)])
                    /\ history'[Acct(o)][reservation'[o].token].reason = "lease_acquired"
                    /\ reservation'[o].at < history'[Acct(o)][reservation'[o].token].expires
  BY DEF ReservationBackedByLease
<1> DEFINE a == Acct(o)
           r == reservation[o]
<1>1. IsReserved(o) /\ a \in Account /\ reservation'[o] = r
  BY AccountOfAssumption DEF IsReserved, Acct
<1>2. r.token \in Nat \ {0}
  BY <1>1 DEF DispatchInv, DispatchTypeOK, Reservation, IsReserved
<1>3. Len(history[a]) \in Nat /\ Len(history'[a]) \in Nat
  BY <1>1 DEF DispatchInv, AuthorityInv, GoodHistory
<1>4. /\ r.token <= Len(history[a])
      /\ history[a][r.token].reason = "lease_acquired"
      /\ r.at < history[a][r.token].expires
  BY <1>1 DEF DispatchInv, ReservedInv, ReservationBackedByLease
<1>5. r.token \in 1..Len(history[a])
  BY <1>2, <1>3, <1>4
<1>6. history'[a][r.token] = history[a][r.token] /\ Len(history'[a]) >= Len(history[a])
  BY <1>1, <1>5 DEF Lengthened
<1>7. QED
  BY <1>1, <1>2, <1>3, <1>4, <1>6

-----------------------------------------------------------------------------
(* The actions                                                              *)

LEMMA RegisterStep ==
  ASSUME DispatchInv, NEW o \in Order, NEW i \in Intent, Register(o, i)
  PROVE  DispatchInv'
<1>1. RecordIntent(o, i) /\ UNCHANGED authorityVars /\ UNCHANGED dispatchVars
  BY DEF Register
<1>2. OrdersInv' /\ OrdersKeep /\ InFlightKept
  BY <1>1, RegisterJournal
<1>3. AuthorityInv' /\ Lengthened
  BY <1>1, AuthorityUnchanged
<1>4. UNCHANGED <<reservation, thread, sent, venue, lookups>>
  BY <1>1 DEF dispatchVars
<1>5. DispatchTypeOK'
  BY <1>2, <1>3, <1>4 DEF DispatchInv, DispatchTypeOK, OrdersInv, AuthorityInv
<1>6. QED
  BY <1>2, <1>3, <1>4, <1>5, QuietCalls, BackedKept DEF DispatchInv, ReservedInv

LEMMA ReconcileStep ==
  ASSUME DispatchInv, NEW o \in Order, NEW l \in lookups, Reconcile(o, l)
  PROVE  DispatchInv'
<1>1. OrdersInv' /\ OrdersKeep /\ InFlightKept
  BY ReconcileJournal
<1>2. UNCHANGED authorityVars /\ UNCHANGED <<reservation, thread, sent, venue, lookups>>
  BY DEF Reconcile
<1>3. AuthorityInv' /\ Lengthened
  BY <1>2, AuthorityUnchanged
<1>4. DispatchTypeOK'
  BY <1>1, <1>2, <1>3 DEF DispatchInv, DispatchTypeOK, OrdersInv, AuthorityInv
<1>5. QED
  BY <1>1, <1>2, <1>3, <1>4, QuietCalls, BackedKept DEF DispatchInv, ReservedInv

LEMMA VenueStep ==
  ASSUME DispatchInv,
         \/ \E o \in Order, n \in 1..MaxOrderQuantity : VenueFills(o, n)
         \/ \E a \in Account : TakeLookup(a)
  PROVE  DispatchInv'
<1>1. UNCHANGED journalVars /\ UNCHANGED authorityVars /\ UNCHANGED <<reservation, thread, sent>>
  BY DEF VenueFills, TakeLookup
<1>2. OrdersInv' /\ OrdersKeep /\ InFlightKept
  BY <1>1, JournalUnchanged
<1>3. AuthorityInv' /\ Lengthened
  BY <1>1, AuthorityUnchanged
<1>4. venue' \in [Order -> [accepted: BOOLEAN, fills: Seq(Nat \ {0})]] /\ lookups' \subseteq Lookup
  <2>1. ASSUME NEW o \in Order, NEW n \in 1..MaxOrderQuantity, VenueFills(o, n)
        PROVE  /\ venue' \in [Order -> [accepted: BOOLEAN, fills: Seq(Nat \ {0})]]
               /\ lookups' \subseteq Lookup
    <3>1. n \in Nat \ {0}
      BY LimitAssumption
    <3>2. venue[o] \in [accepted: BOOLEAN, fills: Seq(Nat \ {0})]
      BY DEF DispatchInv, DispatchTypeOK
    <3>3. [venue[o] EXCEPT !.fills = Append(@, n)] \in [accepted: BOOLEAN, fills: Seq(Nat \ {0})]
      <4>1. Append(venue[o].fills, n) \in Seq(Nat \ {0})
        BY <3>1, <3>2
      <4>2. QED
        BY <3>2, <4>1
    <3>4. venue' = [venue EXCEPT ![o] = [venue[o] EXCEPT !.fills = Append(@, n)]]
      BY <2>1 DEF VenueFills
    <3>5. QED
      BY <2>1, <3>3, <3>4 DEF VenueFills, DispatchInv, DispatchTypeOK
  <2>2. ASSUME NEW a \in Account, TakeLookup(a)
        PROVE  /\ venue' \in [Order -> [accepted: BOOLEAN, fills: Seq(Nat \ {0})]]
               /\ lookups' \subseteq Lookup
    <3> DEFINE seen == [o \in Order |-> IF Acct(o) = a THEN Len(venue[o].fills) ELSE 0]
    <3>1. seen \in [Order -> Nat]
      BY DEF DispatchInv, DispatchTypeOK
    <3>2. lookups' = lookups \cup {[account |-> a, at |-> now, seen |-> seen]}
      BY <2>2 DEF TakeLookup
    <3> HIDE DEF seen
    <3>3. [account |-> a, at |-> now, seen |-> seen] \in Lookup
      BY <3>1 DEF Lookup, DispatchInv, DispatchTypeOK, AuthorityTypeOK
    <3>4. QED
      BY <2>2, <3>2, <3>3 DEF TakeLookup, DispatchInv, DispatchTypeOK
  <2>3. QED
    BY <2>1, <2>2
<1>5. DispatchTypeOK'
  BY <1>1, <1>2, <1>3, <1>4 DEF DispatchInv, DispatchTypeOK, OrdersInv, AuthorityInv
<1>6. QED
  BY <1>1, <1>2, <1>3, <1>5, QuietCalls, BackedKept DEF DispatchInv, ReservedInv

LEMMA BeginOrGiveUpStep ==
  ASSUME DispatchInv, NEW t \in Thread,
         GiveUp(t) \/ \E o \in Order : BeginSubmit(t, o)
  PROVE  DispatchInv'
<1>1. /\ UNCHANGED journalVars /\ UNCHANGED authorityVars
      /\ UNCHANGED <<reservation, sent, venue, lookups>>
  BY DEF GiveUp, BeginSubmit
<1>2. OrdersInv' /\ OrdersKeep /\ InFlightKept
  BY <1>1, JournalUnchanged
<1>3. AuthorityInv' /\ Lengthened
  BY <1>1, AuthorityUnchanged
<1>4. /\ thread' \in [Thread -> ThreadState]
      /\ \A u \in Thread : u # t => thread'[u] = thread[u]
      /\ \/ thread'[t].pc = "idle"
         \/ thread'[t].pc = "preflight" /\ thread'[t].order \in Order
  <2>1. CASE GiveUp(t)
    <3>1. thread' = [thread EXCEPT ![t] = Idle]
      BY <2>1 DEF GiveUp
    <3>2. Idle \in ThreadState /\ Idle.pc = "idle"
      BY DEF Idle, ThreadState
    <3>3. thread \in [Thread -> ThreadState]
      BY DEF DispatchInv, DispatchTypeOK
    <3>4. thread'[t] = Idle /\ \A u \in Thread : u # t => thread'[u] = thread[u]
      BY <3>1, <3>3
    <3>5. thread' \in [Thread -> ThreadState]
      BY <3>1, <3>2, <3>3
    <3>6. QED
      BY <3>2, <3>4, <3>5
  <2>2. ASSUME NEW o \in Order, BeginSubmit(t, o)
        PROVE  /\ thread' \in [Thread -> ThreadState]
               /\ \A u \in Thread : u # t => thread'[u] = thread[u]
               /\ thread'[t].pc = "preflight" /\ thread'[t].order \in Order
    <3> DEFINE k == held[OwnerOf[t]][Acct(o)]
               x == [Idle EXCEPT !.pc = "preflight", !.order = o, !.token = k]
    <3>1. k \in Nat
      BY ThreadAssumption, AccountOfAssumption DEF Acct, DispatchInv, AuthorityInv, AuthorityTypeOK
    <3>2. thread' = [thread EXCEPT ![t] = x]
      BY <2>2 DEF BeginSubmit
    <3> HIDE DEF k
    <3>3. x \in ThreadState /\ x.pc = "preflight" /\ x.order = o
      BY <3>1 DEF Idle, ThreadState
    <3>4. QED
      BY <3>2, <3>3 DEF DispatchInv, DispatchTypeOK
  <2>3. QED
    BY <2>1, <2>2
<1>5. DispatchTypeOK'
  BY <1>1, <1>2, <1>3, <1>4 DEF DispatchInv, DispatchTypeOK, OrdersInv, AuthorityInv
<1>6. QED
  BY <1>1, <1>2, <1>3, <1>4, <1>5, QuietCalls, BackedKept DEF DispatchInv, ReservedInv

\* A dispatch is authorised: its reservation is new, and so is its place among
\* the calls in flight.
LEMMA AuthorizeStep ==
  ASSUME DispatchInv, NEW t \in Thread, Authorize(t)
  PROVE  DispatchInv'
<1> DEFINE o == thread[t].order
           k == thread[t].token
           a == Acct(o)
           r == [token |-> k, at |-> now]
<1>1. /\ thread[t].pc = "preflight" /\ InsertDispatch(o)
      /\ ~IsReserved(o) /\ OwnsLease(OwnerOf[t], a, k)
      /\ reservation' = [reservation EXCEPT ![o] = r]
      /\ thread' = [thread EXCEPT ![t].pc = "submit"]
      /\ UNCHANGED <<sent, venue, lookups>> /\ UNCHANGED authorityVars
  BY DEF Authorize, MayDispatch
<1>2. o \in Order /\ a \in Account /\ OwnerOf[t] \in Process
  BY <1>1, AccountOfAssumption, ThreadAssumption DEF DispatchInv, CallsInv, Acct
<1>3. /\ OrdersInv' /\ OrdersKeep /\ InFlightKept
      /\ order'[o].status \in PostDispatch /\ order'[o].pending = "SUBMIT"
  BY <1>1, <1>2, DispatchJournal
<1>4. AuthorityInv' /\ Lengthened
  BY <1>1, AuthorityUnchanged
<1>5. /\ k = Len(history[a]) /\ k \in Nat \ {0}
      /\ history[a][k].reason = "lease_acquired" /\ now < history[a][k].expires
  <2>1. Current(a).owner # NoOwner /\ Current(a).token = k /\ now < Current(a).expires
    BY <1>1, <1>2, LeaseAssumption DEF OwnsLease
  <2>2. history[a] # <<>> /\ Current(a) = history[a][Len(history[a])]
    BY <2>1 DEF Current, NoAuthority
  <2>3. Current(a).token = Len(history[a]) /\ Current(a).token \in Nat
    BY <1>2, CurrentShape DEF DispatchInv
  <2>4. Current(a).reason = "lease_acquired"
    <3>1. Len(history[a]) \in 1..Len(history[a])
      BY <1>2, <2>2 DEF DispatchInv, AuthorityInv, AuthorityTypeOK
    <3>2. Shaped(history[a][Len(history[a])], Len(history[a]))
      BY <1>2, <3>1 DEF DispatchInv, AuthorityInv, GoodHistory
    <3>3. QED
      BY <2>1, <2>2, <3>2 DEF Shaped
  <2>5. k # 0
    BY <1>2, <2>1, <2>2, <2>3 DEF DispatchInv, AuthorityInv, AuthorityTypeOK
  <2>6. QED
    BY <2>1, <2>2, <2>3, <2>4, <2>5
<1>6. r \in Reservation /\ r.token = k /\ r.at = now
  BY <1>5 DEF Reservation, DispatchInv, DispatchTypeOK, AuthorityTypeOK
<1> HIDE DEF r
<1>7. /\ reservation'[o] = r
      /\ \A d \in Order : d # o => reservation'[d] = reservation[d]
      /\ reservation' \in [Order -> Reservation \cup {NoReservation}]
  BY <1>1, <1>2, <1>6 DEF DispatchInv, DispatchTypeOK
<1>8. \A d \in Order : d # o => (IsReserved(d)' <=> IsReserved(d))
  BY <1>7 DEF IsReserved
<1>9. thread[t] \in ThreadState
  BY DEF DispatchInv, DispatchTypeOK
<1>10. thread' = [thread EXCEPT ![t] = [thread[t] EXCEPT !.pc = "submit"]]
  BY <1>1
<1>11. /\ thread'[t].pc = "submit" /\ thread'[t].order = o
       /\ \A u \in Thread : u # t => thread'[u] = thread[u]
       /\ thread' \in [Thread -> ThreadState]
  <2> DEFINE x == [thread[t] EXCEPT !.pc = "submit"]
  <2>1. x \in ThreadState /\ x.pc = "submit" /\ x.order = o
    BY <1>9 DEF ThreadState
  <2> HIDE DEF x
  <2>2. thread' = [thread EXCEPT ![t] = x]
    BY <1>10 DEF x
  <2>3. thread \in [Thread -> ThreadState]
    BY DEF DispatchInv, DispatchTypeOK
  <2>4. QED
    BY <2>1, <2>2, <2>3
<1>12. IsReserved(o)'
  BY <1>6, <1>7, <1>11, NoReservationAssumption DEF IsReserved, Reservation
<1>13. DispatchTypeOK'
  BY <1>1, <1>3, <1>4, <1>7, <1>11 DEF DispatchInv, DispatchTypeOK, OrdersInv, AuthorityInv
<1>14. \A u \in Thread : u # t /\ InFlight(u) => thread[u].order # o
  BY <1>1 DEF DispatchInv, CallsInv
<1>15. CallsInv'
  <2>1. \A u \in Thread : u # t => (InFlight(u)' <=> InFlight(u))
    BY <1>11 DEF InFlight
  <2>2. \A u \in Thread : thread'[u].pc # "idle" => thread'[u].order \in Order
    BY <1>2, <1>11 DEF DispatchInv, CallsInv
  <2>3. sent'[o] = 0
    BY <1>1, <1>2 DEF DispatchInv, CallsInv, DispatchTypeOK
  <2>4. \A u \in Thread : u # t /\ InFlight(u)' =>
           /\ reservation'[thread[u].order] # NoReservation
           /\ order'[thread[u].order].pending = "SUBMIT"
           /\ thread[u].pc = "submit" => sent'[thread[u].order] = 0
    <3> SUFFICES ASSUME NEW u \in Thread, u # t, InFlight(u)'
                 PROVE  /\ reservation'[thread[u].order] # NoReservation
                        /\ order'[thread[u].order].pending = "SUBMIT"
                        /\ thread[u].pc = "submit" => sent'[thread[u].order] = 0
      OBVIOUS
    <3>1. InFlight(u)
      BY <2>1
    <3>2. thread[u].order \in Order
      BY <3>1 DEF DispatchInv, CallsInv, InFlight
    <3>3. /\ IsReserved(thread[u].order) /\ order[thread[u].order].pending = "SUBMIT"
          /\ thread[u].pc = "submit" => sent[thread[u].order] = 0
      BY <3>1 DEF DispatchInv, CallsInv
    <3>4. thread[u].order # o
      BY <1>14, <3>1
    <3>5. reservation'[thread[u].order] # NoReservation
      BY <1>7, <3>2, <3>3, <3>4 DEF IsReserved
    <3>6. order'[thread[u].order] = order[thread[u].order]
      BY <1>3, <3>2, <3>3 DEF InFlightKept
    <3>7. QED
      BY <1>1, <3>3, <3>5, <3>6
  <2>5. \A u \in Thread : InFlight(u)' =>
           /\ reservation'[thread'[u].order] # NoReservation
           /\ order'[thread'[u].order].pending = "SUBMIT"
           /\ thread'[u].pc = "submit" => sent'[thread'[u].order] = 0
    BY <1>3, <1>11, <1>12, <2>3, <2>4 DEF IsReserved
  <2>7. \A u, v \in Thread :
           u # v /\ InFlight(u)' /\ InFlight(v)' => thread'[u].order # thread'[v].order
    BY <1>11, <1>14, <2>1 DEF DispatchInv, CallsInv
  <2>8. \A d \in Order : sent'[d] <= 1 /\ (sent'[d] > 0 => IsReserved(d)')
    BY <1>1, <1>8, <1>12 DEF DispatchInv, CallsInv
  <2>9. QED
    BY <2>2, <2>5, <2>7, <2>8 DEF CallsInv, IsReserved
<1>16. \A d \in Order : IsReserved(d)' => order'[d].status \in PostDispatch
  BY <1>3, <1>8, ReservedKept
<1>17. ReservationBackedByLease'
  <2> SUFFICES ASSUME NEW d \in Order, IsReserved(d)'
               PROVE  /\ reservation'[d].token <= Len(history'[Acct(d)])
                      /\ history'[Acct(d)][reservation'[d].token].reason = "lease_acquired"
                      /\ reservation'[d].at < history'[Acct(d)][reservation'[d].token].expires
    BY DEF ReservationBackedByLease
  <2>1. history' = history
    BY <1>1 DEF authorityVars
  <2>2. CASE d = o
    BY <1>5, <1>6, <1>7, <2>1, <2>2
  <2>3. CASE d # o
    <3>1. IsReserved(d) /\ reservation'[d] = reservation[d]
      BY <1>7, <1>8, <2>3
    <3>2. QED
      BY <2>1, <3>1 DEF DispatchInv, ReservedInv, ReservationBackedByLease
  <2>4. QED
    BY <2>2, <2>3
<1>18. QED
  BY <1>3, <1>4, <1>13, <1>15, <1>16, <1>17 DEF DispatchInv, ReservedInv

\* The call writes to the venue, once.
LEMMA WriteToVenueStep ==
  ASSUME DispatchInv, NEW t \in Thread, WriteToVenue(t)
  PROVE  DispatchInv'
<1> DEFINE o == thread[t].order
<1>1. /\ thread[t].pc = "submit"
      /\ sent' = [sent EXCEPT ![o] = @ + 1]
      /\ venue' = [venue EXCEPT ![o].accepted = TRUE] \/ UNCHANGED venue
      /\ UNCHANGED <<reservation, lookups>>
      /\ UNCHANGED journalVars /\ UNCHANGED authorityVars
  BY DEF WriteToVenue
<1>2. PICK reply \in {"acknowledged", "rejected", "unknown"} :
         thread' = [thread EXCEPT ![t].pc = "record", ![t].reply = reply]
  BY DEF WriteToVenue
<1>3. o \in Order /\ IsReserved(o) /\ sent[o] = 0
  BY <1>1 DEF DispatchInv, CallsInv, InFlight
<1>4. OrdersInv' /\ OrdersKeep /\ InFlightKept
  BY <1>1, JournalUnchanged
<1>5. AuthorityInv' /\ Lengthened
  BY <1>1, AuthorityUnchanged
<1>6. venue' \in [Order -> [accepted: BOOLEAN, fills: Seq(Nat \ {0})]]
  <2> DEFINE V == [accepted: BOOLEAN, fills: Seq(Nat \ {0})]
             x == [venue[o] EXCEPT !.accepted = TRUE]
  <2>1. venue \in [Order -> V] /\ venue[o] \in V
    BY <1>3 DEF DispatchInv, DispatchTypeOK
  <2>2. x \in V
    BY <2>1
  <2>3. venue' = [venue EXCEPT ![o] = x] \/ venue' = venue
    BY <1>1
  <2> HIDE DEF V, x
  <2>4. venue' \in [Order -> V]
    BY <2>1, <2>2, <2>3
  <2>5. QED
    BY <2>4 DEF V
<1>7. sent' \in [Order -> Nat] /\ sent'[o] = 1 /\ \A d \in Order : d # o => sent'[d] = sent[d]
  BY <1>1, <1>3 DEF DispatchInv, DispatchTypeOK
<1>8. /\ thread' \in [Thread -> ThreadState]
      /\ thread'[t].pc = "record" /\ thread'[t].order = o
      /\ \A u \in Thread : u # t => thread'[u] = thread[u]
  <2> DEFINE x == [thread[t] EXCEPT !.pc = "record", !.reply = reply]
  <2>1. thread[t] \in ThreadState /\ thread \in [Thread -> ThreadState]
    BY DEF DispatchInv, DispatchTypeOK
  <2>2. x \in ThreadState /\ x.pc = "record" /\ x.order = o
    BY <2>1 DEF ThreadState
  <2>3. thread' = [thread EXCEPT ![t] = x]
    BY <1>2, <2>1
  <2> HIDE DEF x
  <2>4. QED
    BY <2>1, <2>2, <2>3
<1>9. DispatchTypeOK'
  BY <1>1, <1>4, <1>5, <1>6, <1>7, <1>8 DEF DispatchInv, DispatchTypeOK, OrdersInv, AuthorityInv
<1>10. \A u \in Thread : /\ InFlight(u)' <=> InFlight(u)
                         /\ thread'[u].order = thread[u].order
                         /\ thread'[u].pc # "idle" => thread[u].pc # "idle"
  BY <1>1, <1>8 DEF InFlight
<1>11. \A d \in Order : /\ IsReserved(d)' <=> IsReserved(d)
                        /\ order'[d] = order[d]
  BY <1>1 DEF IsReserved, journalVars
<1>12. \A u \in Thread : InFlight(u)' =>
          /\ reservation'[thread'[u].order] # NoReservation
          /\ order'[thread'[u].order].pending = "SUBMIT"
          /\ thread'[u].pc = "submit" => sent'[thread'[u].order] = 0
  <2> SUFFICES ASSUME NEW u \in Thread, InFlight(u)
               PROVE  /\ reservation'[thread[u].order] # NoReservation
                      /\ order'[thread[u].order].pending = "SUBMIT"
                      /\ thread'[u].pc = "submit" => sent'[thread[u].order] = 0
    BY <1>10
  <2>1. thread[u].order \in Order
    BY DEF DispatchInv, CallsInv, InFlight
  <2>2. /\ reservation'[thread[u].order] # NoReservation
        /\ order'[thread[u].order].pending = "SUBMIT"
    BY <1>1, <1>11, <2>1 DEF DispatchInv, CallsInv, IsReserved
  <2>3. ASSUME thread'[u].pc = "submit" PROVE sent'[thread[u].order] = 0
    <3>1. u # t /\ thread[u].pc = "submit"
      BY <1>8, <2>3
    <3>2. InFlight(t)
      BY <1>1 DEF InFlight
    <3>3. thread[u].order # o /\ sent[thread[u].order] = 0
      BY <3>1, <3>2 DEF DispatchInv, CallsInv
    <3>4. QED
      BY <1>7, <2>1, <3>3
  <2>4. QED
    BY <2>2, <2>3
<1>13. \A u, v \in Thread :
          u # v /\ InFlight(u)' /\ InFlight(v)' => thread'[u].order # thread'[v].order
  BY <1>10 DEF DispatchInv, CallsInv
<1>14. \A d \in Order : sent'[d] <= 1 /\ (sent'[d] > 0 => IsReserved(d)')
  BY <1>3, <1>7, <1>11 DEF DispatchInv, CallsInv
<1>15. CallsInv'
  BY <1>10, <1>12, <1>13, <1>14 DEF CallsInv, IsReserved, DispatchInv
<1>16. \A d \in Order : IsReserved(d)' => order'[d].status \in PostDispatch
  BY <1>11 DEF DispatchInv, ReservedInv
<1>17. QED
  BY <1>1, <1>4, <1>5, <1>9, <1>15, <1>16, BackedKept DEF DispatchInv, ReservedInv

\* A call ends: what it leaves in the journal is the business of no other.
LEMMA RecordReplyStep ==
  ASSUME DispatchInv, NEW t \in Thread, RecordReply(t)
  PROVE  DispatchInv'
<1> DEFINE o == thread[t].order
<1>1. /\ thread[t].pc = "record" /\ thread' = [thread EXCEPT ![t] = Idle]
      /\ UNCHANGED <<reservation, sent, venue, lookups>> /\ UNCHANGED authorityVars
  BY DEF RecordReply
<1>2. OrdersInv' /\ OrdersKeep /\ \A d \in Order : d # thread[t].order => order'[d] = order[d]
  BY ReplyJournal
<1>3. AuthorityInv' /\ Lengthened
  BY <1>1, AuthorityUnchanged
<1>4. Idle \in ThreadState /\ Idle.pc = "idle"
  BY DEF Idle, ThreadState
<1>5. /\ thread' \in [Thread -> ThreadState]
      /\ thread'[t].pc = "idle"
      /\ \A u \in Thread : u # t => thread'[u] = thread[u]
  <2>1. thread \in [Thread -> ThreadState]
    BY DEF DispatchInv, DispatchTypeOK
  <2>2. QED
    BY <1>1, <1>4, <2>1
<1>6. DispatchTypeOK'
  BY <1>1, <1>2, <1>3, <1>5 DEF DispatchInv, DispatchTypeOK, OrdersInv, AuthorityInv
<1>7. \A u \in Thread : InFlight(u)' => u # t /\ InFlight(u) /\ thread'[u] = thread[u]
  BY <1>5 DEF InFlight
<1>8. \A d \in Order : IsReserved(d)' <=> IsReserved(d)
  BY <1>1 DEF IsReserved
<1>9. \A u \in Thread : InFlight(u)' =>
         /\ reservation'[thread'[u].order] # NoReservation
         /\ order'[thread'[u].order].pending = "SUBMIT"
         /\ thread'[u].pc = "submit" => sent'[thread'[u].order] = 0
  <2> SUFFICES ASSUME NEW u \in Thread, InFlight(u)'
               PROVE  /\ reservation'[thread[u].order] # NoReservation
                      /\ order'[thread[u].order].pending = "SUBMIT"
                      /\ thread[u].pc = "submit" => sent'[thread[u].order] = 0
    BY <1>7
  <2>1. u # t /\ InFlight(u) /\ InFlight(t)
    BY <1>1, <1>7 DEF InFlight
  <2>2. thread[u].order \in Order /\ thread[u].order # o
    BY <2>1 DEF DispatchInv, CallsInv, InFlight
  <2>3. QED
    BY <1>1, <1>2, <2>1, <2>2 DEF DispatchInv, CallsInv, IsReserved
<1>10. \A u, v \in Thread :
          u # v /\ InFlight(u)' /\ InFlight(v)' => thread'[u].order # thread'[v].order
  BY <1>7 DEF DispatchInv, CallsInv
<1>11. \A u \in Thread : thread'[u].pc # "idle" => thread'[u].order \in Order
  BY <1>5 DEF DispatchInv, CallsInv
<1>12. CallsInv'
  BY <1>1, <1>8, <1>9, <1>10, <1>11 DEF DispatchInv, CallsInv, IsReserved
<1>13. \A d \in Order : IsReserved(d)' => order'[d].status \in PostDispatch
  BY <1>2, <1>8, ReservedKept
<1>14. QED
  BY <1>1, <1>2, <1>3, <1>6, <1>12, <1>13, BackedKept DEF DispatchInv, ReservedInv

\* A crash ends the calls of a process wherever they are.
LEMMA CrashWithCallsStep ==
  ASSUME DispatchInv, NEW p \in Process, CrashWithCalls(p)
  PROVE  DispatchInv'
<1>1. /\ CrashProcess(p) /\ UNCHANGED <<history, now>>
      /\ thread' = [t \in Thread |-> IF OwnerOf[t] = p THEN Idle ELSE thread[t]]
      /\ UNCHANGED <<reservation, sent, venue, lookups>> /\ UNCHANGED journalVars
  BY DEF CrashWithCalls
<1>2. OrdersInv' /\ OrdersKeep /\ InFlightKept
  BY <1>1, JournalUnchanged
<1>3. AuthorityInv' /\ Lengthened
  BY <1>1, CrashStep DEF DispatchInv
<1>4. Idle \in ThreadState /\ Idle.pc = "idle"
  BY DEF Idle, ThreadState
<1>5. /\ thread' \in [Thread -> ThreadState]
      /\ \A t \in Thread : thread'[t] = thread[t] \/ thread'[t].pc = "idle"
  <2>1. thread \in [Thread -> ThreadState]
    BY DEF DispatchInv, DispatchTypeOK
  <2>2. QED
    BY <1>1, <1>4, <2>1
<1>6. DispatchTypeOK'
  BY <1>1, <1>2, <1>3, <1>5 DEF DispatchInv, DispatchTypeOK, OrdersInv, AuthorityInv
<1>7. QED
  BY <1>1, <1>2, <1>3, <1>5, <1>6, QuietCalls, BackedKept DEF DispatchInv, ReservedInv

LEMMA AuthorityStepStep ==
  ASSUME DispatchInv, AuthorityStep
  PROVE  DispatchInv'
<1>1. UNCHANGED journalVars /\ UNCHANGED <<reservation, thread, sent, venue, lookups>>
  BY DEF AuthorityStep, dispatchVars
<1>2. AuthorityNext
  BY DEF AuthorityStep, AuthorityNext
<1>3. OrdersInv' /\ OrdersKeep /\ InFlightKept
  BY <1>1, JournalUnchanged
<1>4. AuthorityInv' /\ Lengthened
  BY <1>2, NextAuthority DEF DispatchInv
<1>5. DispatchTypeOK'
  BY <1>1, <1>3, <1>4 DEF DispatchInv, DispatchTypeOK, OrdersInv, AuthorityInv
<1>6. QED
  BY <1>1, <1>3, <1>4, <1>5, QuietCalls, BackedKept DEF DispatchInv, ReservedInv

-----------------------------------------------------------------------------
(* The invariant *)

LEMMA InitDispatch == DispatchInit => DispatchInv
<1> SUFFICES ASSUME DispatchInit PROVE DispatchInv
  OBVIOUS
<1>1. JournalInit /\ AuthorityInit
  BY DEF DispatchInit
<1>2. OrdersInv /\ AuthorityInv
  BY <1>1, InitOrders, InitAuthority
<1>3. /\ \A o \in Order : ~IsReserved(o) /\ sent[o] = 0
      /\ \A t \in Thread : thread[t] = Idle
      /\ thread \in [Thread -> {Idle}] /\ lookups = {}
  BY DEF DispatchInit, IsReserved
<1>4. Idle \in ThreadState /\ Idle.pc = "idle"
  BY DEF Idle, ThreadState
<1>5. NotThere \in [accepted: BOOLEAN, fills: Seq(Nat \ {0})]
  BY DEF NotThere
<1>6. /\ reservation \in [Order -> Reservation \cup {NoReservation}]
      /\ sent \in [Order -> Nat] /\ lookups \subseteq Lookup
      /\ thread \in [Thread -> ThreadState]
  BY <1>3, <1>4 DEF DispatchInit
<1>7. venue \in [Order -> [accepted: BOOLEAN, fills: Seq(Nat \ {0})]]
  BY <1>5 DEF DispatchInit
<1>8. DispatchTypeOK
  BY <1>2, <1>6, <1>7 DEF DispatchTypeOK, OrdersInv, AuthorityInv
<1>9. CallsInv
  BY <1>3, <1>4 DEF CallsInv, InFlight
<1>10. QED
  BY <1>2, <1>3, <1>8, <1>9 DEF DispatchInv, ReservedInv, ReservationBackedByLease

LEMMA NextDispatch == DispatchInv /\ [DispatchNext]_vars => DispatchInv'
<1> SUFFICES ASSUME DispatchInv, [DispatchNext]_vars PROVE DispatchInv'
  OBVIOUS
<1>1. ASSUME NEW o \in Order, NEW i \in Intent, Register(o, i) PROVE DispatchInv'
  BY <1>1, RegisterStep
<1>2. ASSUME NEW t \in Thread, NEW o \in Order, BeginSubmit(t, o) PROVE DispatchInv'
  BY <1>2, BeginOrGiveUpStep
<1>3. ASSUME NEW t \in Thread, Authorize(t) PROVE DispatchInv'
  BY <1>3, AuthorizeStep
<1>4. ASSUME NEW t \in Thread, WriteToVenue(t) PROVE DispatchInv'
  BY <1>4, WriteToVenueStep
<1>5. ASSUME NEW t \in Thread, RecordReply(t) PROVE DispatchInv'
  BY <1>5, RecordReplyStep
<1>6. ASSUME NEW t \in Thread, GiveUp(t) PROVE DispatchInv'
  BY <1>6, BeginOrGiveUpStep
<1>7. CASE \/ \E o \in Order, n \in 1..MaxOrderQuantity : VenueFills(o, n)
           \/ \E a \in Account : TakeLookup(a)
  BY <1>7, VenueStep
<1>8. ASSUME NEW o \in Order, NEW l \in lookups, Reconcile(o, l) PROVE DispatchInv'
  BY <1>8, ReconcileStep
<1>9. ASSUME NEW p \in Process, CrashWithCalls(p) PROVE DispatchInv'
  BY <1>9, CrashWithCallsStep
<1>10. CASE AuthorityStep
  BY <1>10, AuthorityStepStep
<1>11. CASE UNCHANGED vars
  <2>1. UNCHANGED <<journalVars, authorityVars, reservation, thread, sent, venue, lookups>>
    BY <1>11 DEF vars, dispatchVars
  <2>2. OrdersInv' /\ OrdersKeep /\ InFlightKept
    BY <2>1, JournalUnchanged
  <2>3. AuthorityInv' /\ Lengthened
    BY <2>1, AuthorityUnchanged
  <2>4. DispatchTypeOK'
    BY <2>1, <2>2, <2>3 DEF DispatchInv, DispatchTypeOK, OrdersInv, AuthorityInv
  <2>5. QED
    BY <2>1, <2>2, <2>3, <2>4, QuietCalls, BackedKept DEF DispatchInv, ReservedInv
<1>12. QED
  BY <1>1, <1>2, <1>3, <1>4, <1>5, <1>6, <1>7, <1>8, <1>9, <1>10, <1>11 DEF DispatchNext

LEMMA DispatchSound == DispatchSpec => []DispatchInv
  BY InitDispatch, NextDispatch, PTL DEF DispatchSpec

-----------------------------------------------------------------------------
(* What follows from it *)

\* The variables of the composed system keep their types.
THEOREM DispatchTyped == DispatchSpec => []DispatchTypeOK
<1>1. DispatchInv => DispatchTypeOK
  BY DEF DispatchInv
<1>2. QED
  BY <1>1, DispatchSound, PTL

\* However many calls and processes try, whatever crashes and whichever reply
\* is lost, an order is written to the venue once at the most.
THEOREM SubmittedOnce == DispatchSpec => []SubmitAtMostOnce
<1>1. DispatchInv => SubmitAtMostOnce
  BY DEF DispatchInv, CallsInv, SubmitAtMostOnce
<1>2. QED
  BY <1>1, DispatchSound, PTL

\* No order reaches the venue without a durable record of its dispatch.
THEOREM DispatchDurable == DispatchSpec => []DispatchIsDurableFirst
<1>1. DispatchInv => DispatchIsDurableFirst
  BY DEF DispatchInv, CallsInv, ReservedInv, InFlight, DispatchIsDurableFirst
<1>2. QED
  BY <1>1, DispatchSound, PTL

\* The submits of an account never overlap, with the fence lost or not.
THEOREM InFlightApart == DispatchSpec => []InFlightExclusive
<1>1. DispatchInv => InFlightExclusive
  <2> SUFFICES ASSUME DispatchInv, NEW t \in Thread, NEW u \in Thread, t # u,
                      thread[t].pc = "submit", thread[u].pc \in {"submit", "record"}
               PROVE  AccountOf[thread[t].order] # AccountOf[thread[u].order]
    BY DEF InFlightExclusive, Acct
  <2>1. InFlight(t) /\ InFlight(u)
    BY DEF InFlight
  <2>2. /\ thread[t].order \in Order /\ thread[u].order \in Order
        /\ thread[t].order # thread[u].order
        /\ order[thread[t].order].pending = "SUBMIT" /\ order[thread[u].order].pending = "SUBMIT"
    BY <2>1 DEF DispatchInv, CallsInv, InFlight
  <2>3. OneSubmitInFlight
    BY DEF DispatchInv, OrdersInv
  <2>4. QED
    BY <2>2, <2>3 DEF OneSubmitInFlight
<1>2. QED
  BY <1>1, DispatchSound, PTL

\* Every reservation names the lease under which it was written.
THEOREM ReservationsBacked == DispatchSpec => []ReservationBackedByLease
<1>1. DispatchInv => ReservationBackedByLease
  BY DEF DispatchInv, ReservedInv
<1>2. QED
  BY <1>1, DispatchSound, PTL

\* Dispatches of an account are ordered by their fencing tokens, for any clock.
THEOREM DispatchesFenced == DispatchSpec => DispatchesInFenceOrder
<1>1. DispatchInv /\ [DispatchNext]_vars
      => [\A o, d \in Order :
             /\ IsReserved(o) /\ ~IsReserved(d) /\ IsReserved(d)'
             /\ Acct(o) = Acct(d)
             => reservation[o].token <= reservation'[d].token]_vars
  <2> SUFFICES ASSUME DispatchInv, [DispatchNext]_vars, NEW o \in Order, NEW d \in Order,
                      IsReserved(o), ~IsReserved(d), IsReserved(d)', Acct(o) = Acct(d)
               PROVE  reservation[o].token <= reservation'[d].token
    OBVIOUS
  <2> DEFINE a == Acct(o)
  <2>1. reservation'[d] # reservation[d]
    BY DEF IsReserved
  <2>2. PICK t \in Thread : Authorize(t)
    BY <2>1 DEF DispatchNext, vars, dispatchVars, Register, BeginSubmit, WriteToVenue,
                RecordReply, GiveUp, VenueFills, TakeLookup, Reconcile, CrashWithCalls,
                AuthorityStep
  <2> DEFINE k == thread[t].token
             r == [token |-> k, at |-> now]
  <2>3. /\ reservation' = [reservation EXCEPT ![thread[t].order] = r]
        /\ OwnsLease(OwnerOf[t], Acct(thread[t].order), k)
    BY <2>2 DEF Authorize, MayDispatch
  <2> HIDE DEF r
  <2>4. thread[t].order = d /\ reservation'[d] = r
    BY <2>1, <2>3 DEF DispatchInv, DispatchTypeOK
  <2>5. r.token = k
    BY DEF r
  <2>6. a \in Account
    BY AccountOfAssumption DEF Acct
  <2>7. k = Current(a).token
    BY <2>3, <2>4 DEF OwnsLease
  <2>8. k = Len(history[a])
    BY <2>6, <2>7, CurrentShape DEF DispatchInv
  <2>9. reservation[o].token <= Len(history[a])
    BY DEF DispatchInv, ReservedInv, ReservationBackedByLease
  <2>10. QED
    BY <2>4, <2>5, <2>8, <2>9
<1>2. QED
  BY <1>1, DispatchSound, PTL DEF DispatchSpec, DispatchesInFenceOrder

-----------------------------------------------------------------------------
(* Sums and rows in their order.  What a recursion over 0..n computes is     *)
(* found by giving the function it defines and comparing the two.            *)

\* The sum of numbers depends on the numbers only.
LEMMA SumSame ==
  ASSUME NEW n \in Nat, NEW f, NEW g, \A k \in 1..n : f[k] \in Nat /\ g[k] = f[k]
  PROVE  SumOver(1..n, f) = SumOver(1..n, g)
<1> DEFINE S == 1..n
<1>1. IsFiniteSet(S) /\ S \in SUBSET S
  BY FS_Interval
<1>2. \A k \in S : f[k] \in Nat /\ g[k] \in Nat /\ f[k] <= g[k] /\ g[k] <= f[k]
  OBVIOUS
<1> HIDE DEF S
<1>3. SumOver(S, f) <= SumOver(S, g)
  BY <1>1, <1>2, SumMonotone
<1>4. SumOver(S, g) <= SumOver(S, f)
  BY <1>1, <1>2, SumMonotone
<1>5. SumOver(S, f) \in Nat /\ SumOver(S, g) \in Nat
  BY <1>1, <1>2, SumLaws
<1>6. QED
  BY <1>3, <1>4, <1>5 DEF S

\* The first n of the numbers f, one after the other.
LEMMA SumOfFirst ==
  ASSUME NEW n \in Nat, NEW f, \A k \in 1..n : f[k] \in Nat
  PROVE  /\ SumOver(1..n, f) \in Nat
         /\ \A k \in 1..n : SumOver(1..k, f) = SumOver(1..(k - 1), f) + f[k]
         /\ \A k \in 0..n : SumOver(1..k, f) \in Nat /\ SumOver(1..k, f) <= SumOver(1..n, f)
<1>1. \A k \in 0..n : SumOver(1..k, f) \in Nat
  <2> SUFFICES ASSUME NEW k \in 0..n PROVE SumOver(1..k, f) \in Nat
    OBVIOUS
  <2>1. IsFiniteSet(1..k) /\ \A i \in 1..k : f[i] \in Nat
    BY FS_Interval
  <2>2. QED
    BY <2>1, SumLaws
<1>2. ASSUME NEW k \in 1..n PROVE SumOver(1..k, f) = SumOver(1..(k - 1), f) + f[k]
  <2> DEFINE S == 1..k
             R == 1..(k - 1)
  <2>1. IsFiniteSet(S) /\ (\A i \in S : f[i] \in Nat) /\ k \in S
    BY FS_Interval
  <2>2. S \ {k} = R
    OBVIOUS
  <2>3. SumOver(R, f) \in Nat
    BY <1>1
  <2> HIDE DEF S, R
  <2>4. SumOver(S, f) = f[k] + SumOver(S \ {k}, f)
    BY <2>1, SumLaws
  <2>5. SumOver(S \ {k}, f) = SumOver(R, f)
    BY <2>2, Zenon
  <2>6. f[k] \in Nat
    BY <2>1
  <2>7. SumOver(S, f) = SumOver(R, f) + f[k]
    BY <2>3, <2>4, <2>5, <2>6
  <2>8. QED
    BY <2>7 DEF S, R
<1>3. ASSUME NEW k \in 0..n PROVE SumOver(1..k, f) <= SumOver(1..n, f)
  <2> DEFINE S == 1..n
             R == 1..k
  <2>1. IsFiniteSet(S) /\ R \in SUBSET S
    BY FS_Interval
  <2>2. (\A i \in S : f[i] \in Nat) /\ \A i \in R : f[i] \in Nat /\ f[i] <= f[i]
    OBVIOUS
  <2> HIDE DEF S, R
  <2>3. SumOver(R, f) <= SumOver(S, f)
    BY <2>1, <2>2, SumMonotone
  <2>4. QED
    BY <2>3 DEF S, R
<1>4. QED
  BY <1>1, <1>2, <1>3

\* A row that records no execution.
IsPlain(o, e) == e.type # "FILL_RECORDED" /\ e.exec = NoExec /\ \E t : e.id = <<o, t>>

\* The journal has the executions 1..j of order o at the venue, each once, and
\* no other.
StoredUpTo(o, j) ==
    /\ \A i \in DOMAIN log[o] : \/ IsPlain(o, log[o][i])
                                \/ \E k \in 1..j : log[o][i] = VenueFill(o, k)
    /\ \A k \in 1..j : \E i \in DOMAIN log[o] : log[o][i] = VenueFill(o, k)
    /\ \A i, l \in DOMAIN log[o] :
          log[o][i].type = "FILL_RECORDED" /\ log[o][l].exec = log[o][i].exec => l = i

LEMMA VenueFillShape ==
  ASSUME NEW o, NEW k
  PROVE  /\ VenueFill(o, k).type = "FILL_RECORDED"
         /\ VenueFill(o, k).id = <<o, "FILL", k>>
         /\ VenueFill(o, k).exec = <<o, k>>
         /\ VenueFill(o, k).qty = venue[o].fills[k]
  BY DEF VenueFill, FillEvent, PlainEvent

\* MissingFills and FilledBy are the functions that go on as they do.
LEMMA MissingIs ==
  ASSUME NEW o, NEW k \in Nat, NEW g
  PROVE  g = [i \in 0..k |->
                IF i = 0 THEN <<>>
                ELSE IF IsStored(o, VenueFill(o, i)) THEN g[i - 1]
                ELSE Append(g[i - 1], VenueFill(o, i))]
         => MissingFills(o, k) = g[k]
<1>0. SUFFICES ASSUME g = [i \in 0..k |->
                             IF i = 0 THEN <<>>
                             ELSE IF IsStored(o, VenueFill(o, i)) THEN g[i - 1]
                             ELSE Append(g[i - 1], VenueFill(o, i))]
               PROVE  MissingFills(o, k) = g[k]
  OBVIOUS
<1> DEFINE it == CHOOSE it : it = [i \in 0..k |->
                    IF i = 0 THEN <<>>
                    ELSE IF IsStored(o, VenueFill(o, i)) THEN it[i - 1]
                    ELSE Append(it[i - 1], VenueFill(o, i))]
           next(i, before) == IF IsStored(o, VenueFill(o, i)) THEN before
                              ELSE Append(before, VenueFill(o, i))
<1>1. MissingFills(o, k) = it[k]
  BY DEF MissingFills
<1>2. it = [i \in 0..k |-> IF i = 0 THEN <<>> ELSE next(i, it[i - 1])]
  BY <1>0
<1>3. g = [i \in 0..k |-> IF i = 0 THEN <<>> ELSE next(i, g[i - 1])]
  BY <1>0
<1> HIDE DEF it, next
<1>4. it[0] = g[0]
  BY <1>2, <1>3
<1>5. \A i \in 1..k : it[i] = next(i, it[i - 1]) /\ g[i] = next(i, g[i - 1])
  <2>1. \A i \in 1..k : i \in 0..k /\ i # 0
    OBVIOUS
  <2>2. QED
    BY <1>2, <1>3, <2>1
<1>6. \A i \in 1..k : it[i - 1] = g[i - 1] => it[i] = g[i]
  BY <1>5
<1>7. \A i \in 0..k : it[i] = g[i]
  BY <1>4, <1>6, SameRecursion
<1>8. QED
  BY <1>1, <1>7

LEMMA FilledByIs ==
  ASSUME NEW rows, NEW n \in Nat, NEW g
  PROVE  Len(rows) = n /\ g = [m \in 0..n |-> IF m = 0 THEN 0 ELSE g[m - 1] + rows[m].qty]
         => FilledBy(rows) = g[n]
<1>0. SUFFICES ASSUME Len(rows) = n,
                      g = [m \in 0..n |-> IF m = 0 THEN 0 ELSE g[m - 1] + rows[m].qty]
               PROVE  FilledBy(rows) = g[n]
  OBVIOUS
<1> DEFINE sum == CHOOSE sum : sum = [m \in 0..Len(rows) |->
                     IF m = 0 THEN 0 ELSE sum[m - 1] + rows[m].qty]
<1>1. FilledBy(rows) = sum[n]
  BY <1>0 DEF FilledBy
<1>2. sum = [m \in 0..n |-> IF m = 0 THEN 0 ELSE sum[m - 1] + rows[m].qty]
  BY <1>0
<1> HIDE DEF sum
<1>3. sum[0] = g[0]
  BY <1>0, <1>2
<1>4. \A m \in 1..n : sum[m - 1] = g[m - 1] => sum[m] = g[m]
  BY <1>0, <1>2
<1>5. \A m \in 0..n : sum[m] = g[m]
  BY <1>3, <1>4, SameRecursion
<1>6. QED
  BY <1>1, <1>5

\* Rows that fill what f has after its first j numbers.
LEMMA FilledByRest ==
  ASSUME NEW f, NEW j \in Nat, NEW n \in Nat, NEW rows
  PROVE  /\ Len(rows) = n
         /\ \A m \in 1..n : rows[m].qty = f[j + m]
         /\ \A i \in 1..(j + n) : f[i] \in Nat
         => /\ SumOver(1..(j + n), f) = SumOver(1..j, f) + FilledBy(rows)
            /\ SumOver(1..j, f) \in Nat /\ FilledBy(rows) \in Nat
<1>0. SUFFICES ASSUME Len(rows) = n, \A m \in 1..n : rows[m].qty = f[j + m],
                      \A i \in 1..(j + n) : f[i] \in Nat
               PROVE  /\ SumOver(1..(j + n), f) = SumOver(1..j, f) + FilledBy(rows)
                      /\ SumOver(1..j, f) \in Nat /\ FilledBy(rows) \in Nat
  OBVIOUS
<1> DEFINE total == [i \in 0..(j + n) |-> SumOver(1..i, f)]
           g == [m \in 0..n |-> total[j + m] - total[j]]
<1>1. j + n \in Nat /\ 0 \in 0..n /\ n \in 0..n
  OBVIOUS
<1>2. /\ total \in [0..(j + n) -> Nat]
      /\ \A i \in 1..(j + n) : total[i] = total[i - 1] + f[i]
      /\ \A i \in 0..(j + n) : total[i] <= total[j + n]
  <2>1. /\ \A k \in 1..(j + n) : SumOver(1..k, f) = SumOver(1..(k - 1), f) + f[k]
        /\ \A k \in 0..(j + n) : /\ SumOver(1..k, f) \in Nat
                                 /\ SumOver(1..k, f) <= SumOver(1..(j + n), f)
    BY <1>0, <1>1, SumOfFirst
  <2>2. \A i \in 0..(j + n) : total[i] = SumOver(1..i, f)
    OBVIOUS
  <2>3. total \in [0..(j + n) -> Nat]
    BY <2>1
  <2> HIDE DEF total
  <2>4. \A i \in 1..(j + n) : i \in 0..(j + n) /\ i - 1 \in 0..(j + n)
    OBVIOUS
  <2>5. \A i \in 1..(j + n) : total[i] = total[i - 1] + f[i]
    BY <2>1, <2>2, <2>4
  <2>6. QED
    BY <1>1, <2>1, <2>2, <2>3, <2>5
<1>3. total[j + n] = SumOver(1..(j + n), f) /\ total[j] = SumOver(1..j, f)
  OBVIOUS
<1>4. j \in 0..(j + n) /\ j + n \in 0..(j + n)
  OBVIOUS
<1> HIDE DEF total
<1>5. ASSUME NEW m \in 1..n PROVE g[m] = g[m - 1] + rows[m].qty
  <2>1. /\ j + m \in 1..(j + n) /\ (j + m) - 1 = j + (m - 1)
        /\ j + (m - 1) \in 0..(j + n) /\ j + m \in 0..(j + n)
        /\ m - 1 \in 0..n /\ m \in 0..n
    OBVIOUS
  <2>2. g[m] = total[j + m] - total[j] /\ g[m - 1] = total[j + (m - 1)] - total[j]
    BY <2>1
  <2> HIDE DEF g
  <2>3. total[j + m] = total[j + (m - 1)] + rows[m].qty
    BY <1>0, <1>2, <2>1
  <2>4. /\ total[j] \in Nat /\ total[j + m] \in Nat /\ total[j + (m - 1)] \in Nat
        /\ rows[m].qty \in Nat
    BY <1>0, <1>2, <1>4, <2>1
  <2>5. QED
    BY <2>2, <2>3, <2>4
<1>6. g[0] = 0
  <2>1. j + 0 = j /\ total[j] \in Nat
    BY <1>2, <1>4
  <2>2. g[0] = total[j + 0] - total[j]
    BY <1>1
  <2>3. QED
    BY <2>1, <2>2
<1>7. g = [m \in 0..n |-> IF m = 0 THEN 0 ELSE g[m - 1] + rows[m].qty]
  <2>2. g = [m \in 0..n |-> g[m]]
    OBVIOUS
  <2>1. \A m \in 0..n : g[m] = IF m = 0 THEN 0 ELSE g[m - 1] + rows[m].qty
    <3> HIDE DEF g
    <3> SUFFICES ASSUME NEW m \in 0..n, m # 0 PROVE g[m] = g[m - 1] + rows[m].qty
      BY <1>6
    <3>1. m \in 1..n
      OBVIOUS
    <3>2. QED
      BY <1>5, <3>1
  <2> HIDE DEF g
  <2>3. QED
    BY <2>1, <2>2
<1>8. g[n] = total[j + n] - total[j]
  BY <1>1
<1> HIDE DEF g
<1>9. FilledBy(rows) = g[n]
  BY <1>0, <1>7, FilledByIs
<1>10. QED
  BY <1>2, <1>3, <1>4, <1>8, <1>9

LEMMA AppendTo ==
  ASSUME NEW n \in Nat, NEW v
  PROVE  Append([m \in 1..n |-> v[m]], v[n + 1]) = [m \in 1..(n + 1) |-> v[m]]
<1> DEFINE s == [m \in 1..n |-> v[m]]
           S == {v[m] : m \in 1..(n + 1)}
           t == Append(s, v[n + 1])
<1>1. s \in Seq(S) /\ Len(s) = n
  OBVIOUS
<1>2. v[n + 1] \in S
  OBVIOUS
<1> HIDE DEF S
<1>3. t \in Seq(S) /\ Len(t) = n + 1
  BY <1>1, <1>2
<1>4. \A m \in 1..(n + 1) : t[m] = v[m]
  BY <1>1
<1> HIDE DEF t
<1>5. t = [m \in 1..(n + 1) |-> t[m]]
  BY <1>3
<1>6. t = [m \in 1..(n + 1) |-> v[m]]
  BY <1>4, <1>5
<1>7. QED
  BY <1>6 DEF t

\* Of the executions 1..k of a lookup the ones after the j-th are missing.
LEMMA StoredAre ==
  ASSUME NEW o, NEW j \in Nat, NEW i, i \in 1..Len(venue[o].fills), StoredUpTo(o, j)
  PROVE  IsStored(o, VenueFill(o, i)) <=> i <= j
<1>1. ASSUME i <= j PROVE IsStored(o, VenueFill(o, i))
  <2>1. i \in 1..j
    BY <1>1
  <2>2. PICK l \in DOMAIN log[o] : log[o][l] = VenueFill(o, i)
    BY <2>1 DEF StoredUpTo
  <2>3. QED
    BY <2>2 DEF IsStored, Rows
<1>2. ASSUME IsStored(o, VenueFill(o, i)) PROVE i <= j
  <2>1. PICK l \in DOMAIN log[o] : log[o][l].id = <<o, "FILL", i>>
    BY <1>2, VenueFillShape DEF IsStored, Rows
  <2>2. PICK m \in 1..j : log[o][l] = VenueFill(o, m)
    <3>1. \A t : <<o, t>> # <<o, "FILL", i>>
      OBVIOUS
    <3>2. QED
      BY <2>1, <3>1 DEF StoredUpTo, IsPlain
  <2>3. <<o, "FILL", m>> = <<o, "FILL", i>>
    BY <2>1, <2>2, VenueFillShape
  <2>4. m = i
    BY <2>3
  <2>5. QED
    BY <2>4
<1>3. QED
  BY <1>1, <1>2

LEMMA MissingAreTheRest ==
  ASSUME NEW o, NEW j \in Nat, NEW k \in Nat
  PROVE  (\A i \in 1..k : IsStored(o, VenueFill(o, i)) <=> i <= j)
         => MissingFills(o, k) = [m \in 1..(IF k <= j THEN 0 ELSE k - j) |-> VenueFill(o, j + m)]
<1>0. SUFFICES ASSUME \A i \in 1..k : IsStored(o, VenueFill(o, i)) <=> i <= j
               PROVE  MissingFills(o, k)
                      = [m \in 1..(IF k <= j THEN 0 ELSE k - j) |-> VenueFill(o, j + m)]
  OBVIOUS
<1> DEFINE f == [i \in 1..k |-> VenueFill(o, i)]
           rest == [i \in 0..k |-> [m \in 1..(IF i <= j THEN 0 ELSE i - j) |-> VenueFill(o, j + m)]]
<1>1. rest[0] = <<>>
  <2>1. rest[0] = [m \in 1..0 |-> VenueFill(o, j + m)]
    OBVIOUS
  <2>2. QED
    BY <2>1
<1>2. ASSUME NEW i \in 1..k, i <= j PROVE rest[i] = rest[i - 1]
  BY <1>2
<1>3. ASSUME NEW i \in 1..k, ~(i <= j) PROVE rest[i] = Append(rest[i - 1], VenueFill(o, i))
  <2> DEFINE n == (i - 1) - j
             v == [m \in 1..(n + 1) |-> VenueFill(o, j + m)]
             s == [m \in 1..n |-> v[m]]
  <2>1. n \in Nat /\ i - j = n + 1 /\ j + (n + 1) = i
    BY <1>3
  <2>2. rest[i - 1] = s
    <3>1. i - 1 \in 0..k /\ (IF i - 1 <= j THEN 0 ELSE (i - 1) - j) = n
      BY <1>3
    <3>2. rest[i - 1] = [m \in 1..n |-> VenueFill(o, j + m)]
      BY <3>1
    <3>3. \A m \in 1..n : v[m] = VenueFill(o, j + m)
      BY <2>1
    <3> HIDE DEF v
    <3>4. QED
      BY <3>2, <3>3
  <2>3. rest[i] = v
    BY <1>3
  <2>4. v[n + 1] = VenueFill(o, i)
    BY <2>1
  <2>5. DOMAIN v = 1..(n + 1) /\ v = [m \in 1..(n + 1) |-> v[m]]
    OBVIOUS
  <2> HIDE DEF n, v, rest
  <2>6. Append(s, v[n + 1]) = [m \in 1..(n + 1) |-> v[m]]
    BY <2>1, AppendTo
  <2>7. QED
    BY <2>2, <2>3, <2>4, <2>5, <2>6
<1>4. rest = [i \in 0..k |-> rest[i]]
  OBVIOUS
<1>5. rest[k] = [m \in 1..(IF k <= j THEN 0 ELSE k - j) |-> VenueFill(o, j + m)]
  OBVIOUS
<1> HIDE DEF rest
<1>6. \A i \in 0..k :
         rest[i] = IF i = 0 THEN <<>>
                   ELSE IF IsStored(o, VenueFill(o, i)) THEN rest[i - 1]
                   ELSE Append(rest[i - 1], VenueFill(o, i))
  <2> SUFFICES ASSUME NEW i \in 0..k, i # 0
               PROVE  rest[i] = IF IsStored(o, VenueFill(o, i)) THEN rest[i - 1]
                                ELSE Append(rest[i - 1], VenueFill(o, i))
    BY <1>1
  <2>1. i \in 1..k
    OBVIOUS
  <2>2. QED
    BY <1>0, <1>2, <1>3, <2>1
<1>7. rest = [i \in 0..k |->
                IF i = 0 THEN <<>>
                ELSE IF IsStored(o, VenueFill(o, i)) THEN rest[i - 1]
                ELSE Append(rest[i - 1], VenueFill(o, i))]
  BY <1>4, <1>6
<1>8. MissingFills(o, k) = rest[k]
  BY <1>7, MissingIs
<1>9. QED
  BY <1>5, <1>8

-----------------------------------------------------------------------------
(* What the journal knows of the venue                                      *)

\* The journal of o has a first part of what the venue did, all of it counted.
Books(o) ==
    /\ IsRows(log[o])
    /\ order[o].status # "CANCELED"
    /\ \E j \in 0..Len(venue[o].fills) :
          StoredUpTo(o, j) /\ order[o].filled = SumOver(1..j, venue[o].fills)

\* Nothing but plain rows is added to the journal of o.
PlainRows(o) ==
    /\ order'[o].filled = order[o].filled
    /\ order'[o].status = "CANCELED" => order[o].status = "CANCELED"
    /\ IsRows(log'[o])
    /\ \A i \in DOMAIN log[o] : i \in DOMAIN log'[o] /\ log'[o][i] = log[o][i]
    /\ \A i \in DOMAIN log'[o] : i \in DOMAIN log[o] \/ IsPlain(o, log'[o][i])

\* The venue goes on filling.
FillsLater(o) ==
    /\ venue[o].fills \in Seq(Nat \ {0}) /\ venue'[o].fills \in Seq(Nat \ {0})
    /\ Len(venue[o].fills) <= Len(venue'[o].fills)
    /\ \A k \in 1..Len(venue[o].fills) : venue'[o].fills[k] = venue[o].fills[k]

LEMMA BooksKept ==
  ASSUME NEW o \in Order, Books(o), PlainRows(o), FillsLater(o)
  PROVE  Books(o)'
<1>1. PICK j \in 0..Len(venue[o].fills) :
         StoredUpTo(o, j) /\ order[o].filled = SumOver(1..j, venue[o].fills)
  BY DEF Books
<1>2. /\ Len(venue[o].fills) \in Nat /\ Len(venue'[o].fills) \in Nat
      /\ Len(venue[o].fills) <= Len(venue'[o].fills)
  BY DEF FillsLater
<1>3. j \in Nat /\ j \in 0..Len(venue'[o].fills)
  BY <1>2
<1>4. \A k \in 1..j : /\ k \in 1..Len(venue[o].fills)
                      /\ venue'[o].fills[k] = venue[o].fills[k]
                      /\ venue[o].fills[k] \in Nat
  <2>1. \A k \in 1..j : k \in 1..Len(venue[o].fills)
    BY <1>2
  <2>2. \A k \in 1..Len(venue[o].fills) : venue[o].fills[k] \in Nat \ {0}
    BY DEF FillsLater
  <2>3. QED
    BY <2>1, <2>2 DEF FillsLater
<1>5. SumOver(1..j, venue[o].fills) = SumOver(1..j, venue'[o].fills)
  <2> DEFINE f == venue[o].fills
             g == venue'[o].fills
  <2>1. \A k \in 1..j : f[k] \in Nat /\ g[k] = f[k]
    BY <1>4
  <2> HIDE DEF f, g
  <2>2. SumOver(1..j, f) = SumOver(1..j, g)
    BY <1>3, <2>1, SumSame
  <2>3. QED
    BY <2>2 DEF f, g
<1>6. \A k \in 1..j : VenueFill(o, k)' = VenueFill(o, k)
  BY <1>4 DEF VenueFill
<1>7. \A i \in DOMAIN log'[o] :
         \/ i \in DOMAIN log[o] /\ log'[o][i] = log[o][i]
         \/ i \notin DOMAIN log[o] /\ IsPlain(o, log'[o][i])
  BY DEF PlainRows
<1>8. \A i \in DOMAIN log'[o] : \/ IsPlain(o, log'[o][i])
                                \/ \E k \in 1..j : log'[o][i] = VenueFill(o, k)'
  BY <1>1, <1>6, <1>7 DEF StoredUpTo
<1>9. \A k \in 1..j : \E i \in DOMAIN log'[o] : log'[o][i] = VenueFill(o, k)'
  BY <1>1, <1>6 DEF StoredUpTo, PlainRows
<1>10. ASSUME NEW i \in DOMAIN log'[o], NEW l \in DOMAIN log'[o],
              log'[o][i].type = "FILL_RECORDED", log'[o][l].exec = log'[o][i].exec
       PROVE  l = i
  <2>1. i \in DOMAIN log[o] /\ log'[o][i] = log[o][i]
    BY <1>7, <1>10 DEF IsPlain
  <2>2. PICK k \in 1..j : log[o][i] = VenueFill(o, k)
    BY <1>1, <1>10, <2>1 DEF StoredUpTo, IsPlain
  <2>3. log'[o][l].exec # NoExec
    <3>1. log'[o][l].exec = <<o, k>>
      BY <1>10, <2>1, <2>2, VenueFillShape
    <3>2. <<o, k>> \in Order \X Nat
      BY <1>3
    <3>3. QED
      BY <3>1, <3>2, NoExecAssumption
  <2>4. l \in DOMAIN log[o] /\ log'[o][l] = log[o][l]
    BY <1>7, <2>3 DEF IsPlain
  <2>5. QED
    BY <1>1, <1>10, <2>1, <2>4 DEF StoredUpTo
<1>11. StoredUpTo(o, j)'
  BY <1>8, <1>9, <1>10 DEF StoredUpTo, IsPlain
<1>12. order'[o].filled = SumOver(1..j, venue'[o].fills)
  BY <1>1, <1>5 DEF PlainRows
<1>13. IsRows(log'[o]) /\ order'[o].status # "CANCELED"
  BY DEF PlainRows, Books
<1>14. QED
  BY <1>3, <1>11, <1>12, <1>13 DEF Books

LEMMA PlainEventPlain ==
  ASSUME NEW o, NEW t, NEW type, type # "FILL_RECORDED"
  PROVE  IsPlain(o, PlainEvent(o, <<o, t>>, type))
<1> DEFINE e == PlainEvent(o, <<o, t>>, type)
<1>1. e.type = type /\ e.exec = NoExec /\ e.id = <<o, t>>
  BY DEF PlainEvent
<1> HIDE DEF e
<1>2. IsPlain(o, e)
  BY <1>1 DEF IsPlain
<1>3. QED
  BY <1>2 DEF e

LEMMA AckEventPlain ==
  ASSUME NEW o, NEW t, NEW r
  PROVE  IsPlain(o, AckEvent(o, <<o, t>>, r))
<1> DEFINE e == AckEvent(o, <<o, t>>, r)
<1>1. e.type = "SUBMIT_ACKNOWLEDGED" /\ e.exec = NoExec /\ e.id = <<o, t>>
  BY DEF AckEvent, PlainEvent
<1> HIDE DEF e
<1>2. IsPlain(o, e)
  BY <1>1 DEF IsPlain
<1>3. QED
  BY <1>2 DEF e

\* One plain row is added.
LEMMA PlainRowAdded ==
  ASSUME NEW o, NEW rows, IsRows(rows), NEW e, IsPlain(o, e)
  PROVE  /\ IsRows(Append(rows, e))
         /\ \A i \in DOMAIN rows : /\ i \in DOMAIN Append(rows, e)
                                   /\ Append(rows, e)[i] = rows[i]
         /\ \A i \in DOMAIN Append(rows, e) : i \in DOMAIN rows \/ IsPlain(o, Append(rows, e)[i])
<1>1. PICK S : rows \in Seq(S)
  BY DEF IsRows
<1>2. Append(rows, e) \in Seq(S \cup {e})
  BY <1>1
<1>3. IsRows(Append(rows, e))
  BY <1>2, Zenon DEF IsRows
<1>4. Append(rows, e)[Len(rows) + 1] = e
  BY <1>1
<1>5. \A i \in DOMAIN Append(rows, e) : i \in DOMAIN rows \/ i = Len(rows) + 1
  BY <1>1
<1>6. \A i \in DOMAIN rows : /\ i \in DOMAIN Append(rows, e)
                             /\ Append(rows, e)[i] = rows[i]
  BY <1>1
<1>7. QED
  BY <1>3, <1>4, <1>5, <1>6

LEMMA RegisterPlain ==
  ASSUME DispatchInv, NEW o \in Order, NEW i \in Intent, RecordIntent(o, i),
         NEW d \in Order, IsRows(log[d])
  PROVE  PlainRows(d) /\ (order'[d].status = "REJECTED" => order[d].status = "REJECTED")
<1> DEFINE e == PlainEvent(o, <<o, "INTENT_RECORDED">>, "INTENT_RECORDED")
<1>1. order[o] = NewState
  BY DEF DispatchInv, OrdersInv, RecordIntent
<1>2. Transition(i.qty, NewState, e) = [NewState EXCEPT !.status = "RECORDED"]
  BY DEF Transition, PlainEvent
<1>3. /\ order' = [order EXCEPT ![o] = [NewState EXCEPT !.status = "RECORDED"]]
      /\ log' = [log EXCEPT ![o] = Append(@, e)]
  BY <1>1, <1>2 DEF RecordIntent
<1>4. IsPlain(o, e)
  BY PlainEventPlain
<1> HIDE DEF e
<1>5. CASE d = o
  <2>1. log'[d] = Append(log[d], e)
    BY <1>3, <1>5 DEF DispatchInv, OrdersInv, JournalTypeOK
  <2>2. order'[d] = [NewState EXCEPT !.status = "RECORDED"]
    BY <1>3, <1>5 DEF DispatchInv, OrdersInv, JournalTypeOK
  <2>3. order'[d].filled = order[d].filled /\ order'[d].status = "RECORDED"
    BY <1>1, <1>5, <2>2 DEF NewState
  <2>4. QED
    BY <1>4, <1>5, <2>1, <2>3, PlainRowAdded DEF PlainRows
<1>6. CASE d # o
  <2>1. log'[d] = log[d] /\ order'[d] = order[d]
    BY <1>3, <1>6 DEF DispatchInv, OrdersInv, JournalTypeOK
  <2>2. QED
    BY <2>1 DEF PlainRows
<1>7. QED
  BY <1>5, <1>6

LEMMA DispatchPlain ==
  ASSUME DispatchInv, NEW o \in Order, InsertDispatch(o), NEW d \in Order, IsRows(log[d])
  PROVE  PlainRows(d) /\ (order'[d].status = "REJECTED" => order[d].status = "REJECTED")
<1> DEFINE risk == PlainEvent(o, <<o, "RISK_APPROVED">>, "RISK_APPROVED")
           dispatched == PlainEvent(o, <<o, "SUBMIT_DISPATCHED">>, "SUBMIT_DISPATCHED")
           q == intent[o].qty
           once == Append(log[o], risk)
           twice == Append(once, dispatched)
<1>1. /\ order' = [order EXCEPT ![o] = Transition(q, Transition(q, @, risk), dispatched)]
      /\ log' = [log EXCEPT ![o] = @ \o <<risk, dispatched>>]
  BY DEF InsertDispatch
<1>2. Transition(q, order[o], risk) = [order[o] EXCEPT !.status = "READY"]
  BY DEF Transition, PlainEvent
<1>3. dispatched.type = "SUBMIT_DISPATCHED"
  BY DEF PlainEvent
<1>4. Transition(q, [order[o] EXCEPT !.status = "READY"], dispatched)
      = [[order[o] EXCEPT !.status = "READY"] EXCEPT !.status = "SUBMIT_UNKNOWN",
                                                     !.pending = "SUBMIT"]
  BY <1>3 DEF Transition
<1>5. IsPlain(o, risk) /\ IsPlain(o, dispatched)
  BY PlainEventPlain
<1> HIDE DEF risk, dispatched
<1>6. CASE d = o
  <2>1. order'[d] = [[order[o] EXCEPT !.status = "READY"] EXCEPT !.status = "SUBMIT_UNKNOWN",
                                                                 !.pending = "SUBMIT"]
    BY <1>1, <1>2, <1>4, <1>6 DEF DispatchInv, OrdersInv, JournalTypeOK
  <2>2. order[o] \in State
    BY DEF DispatchInv, OrdersInv, JournalTypeOK
  <2>3. order'[d].filled = order[d].filled /\ order'[d].status = "SUBMIT_UNKNOWN"
    BY <1>6, <2>1, <2>2 DEF State
  <2>4. log'[d] = twice
    <3>1. PICK S : log[o] \in Seq(S)
      BY <1>6 DEF IsRows
    <3>2. log[o] \o <<risk, dispatched>> = twice
      BY <3>1
    <3>3. QED
      BY <1>1, <1>6, <3>2 DEF DispatchInv, OrdersInv, JournalTypeOK
  <2>5. /\ IsRows(once)
        /\ \A i \in DOMAIN log[o] : i \in DOMAIN once /\ once[i] = log[o][i]
        /\ \A i \in DOMAIN once : i \in DOMAIN log[o] \/ IsPlain(o, once[i])
    BY <1>5, <1>6, PlainRowAdded
  <2> HIDE DEF once
  <2>6. /\ IsRows(twice)
        /\ \A i \in DOMAIN once : i \in DOMAIN twice /\ twice[i] = once[i]
        /\ \A i \in DOMAIN twice : i \in DOMAIN once \/ IsPlain(o, twice[i])
    BY <1>5, <2>5, PlainRowAdded
  <2> HIDE DEF twice
  <2>7. /\ \A i \in DOMAIN log[o] : i \in DOMAIN twice /\ twice[i] = log[o][i]
        /\ \A i \in DOMAIN twice : i \in DOMAIN log[o] \/ IsPlain(o, twice[i])
    BY <2>5, <2>6
  <2>8. QED
    BY <1>6, <2>3, <2>4, <2>6, <2>7 DEF PlainRows
<1>7. CASE d # o
  <2>1. log'[d] = log[d] /\ order'[d] = order[d]
    BY <1>1, <1>7 DEF DispatchInv, OrdersInv, JournalTypeOK
  <2>2. QED
    BY <2>1 DEF PlainRows
<1>8. QED
  BY <1>6, <1>7

LEMMA ReplyPlain ==
  ASSUME DispatchInv, NEW t \in Thread, RecordReply(t), NEW d \in Order, IsRows(log[d])
  PROVE  /\ PlainRows(d)
         /\ order'[d].status = "REJECTED" =>
               \/ order[d].status = "REJECTED"
               \/ d = thread[t].order /\ thread[t].reply = "rejected"
<1> DEFINE o == thread[t].order
           ack == AckEvent(o, <<o, "SUBMIT_ACKNOWLEDGED">>, RefOf[o])
           no == PlainEvent(o, <<o, "SUBMIT_REJECTED">>, "SUBMIT_REJECTED")
<1>1. ASSUME NEW e, IsPlain(o, e), e.order = o, AppendEvent(e),
             NEW s, s = Transition(intent[o].qty, order[o], e),
             s.filled = order[o].filled, s.status # "CANCELED",
             s.status = "REJECTED" => thread[t].reply = "rejected"
      PROVE  /\ PlainRows(d)
             /\ order'[d].status = "REJECTED" =>
                   order[d].status = "REJECTED" \/ (d = o /\ thread[t].reply = "rejected")
  <2>1. log' = [log EXCEPT ![o] = Append(@, e)] /\ order' = [order EXCEPT ![o] = s]
    BY <1>1 DEF AppendEvent, Insert
  <2>2. CASE d = o
    <3>1. log'[d] = Append(log[d], e) /\ order'[d] = s
      BY <2>1, <2>2 DEF DispatchInv, OrdersInv, JournalTypeOK
    <3>2. IsPlain(d, e)
      BY <1>1, <2>2
    <3>3. /\ IsRows(log'[d])
          /\ \A i \in DOMAIN log[d] : i \in DOMAIN log'[d] /\ log'[d][i] = log[d][i]
          /\ \A i \in DOMAIN log'[d] : i \in DOMAIN log[d] \/ IsPlain(d, log'[d][i])
      BY <3>1, <3>2, PlainRowAdded
    <3>4. PlainRows(d)
      BY <1>1, <2>2, <3>1, <3>3 DEF PlainRows
    <3>5. QED
      BY <1>1, <2>2, <3>1, <3>4
  <2>3. CASE d # o
    <3>1. log'[d] = log[d] /\ order'[d] = order[d]
      BY <2>1, <2>3 DEF DispatchInv, OrdersInv, JournalTypeOK
    <3>2. QED
      BY <3>1 DEF PlainRows
  <2>4. QED
    BY <2>2, <2>3
<1>2. o \in Order /\ order[o] \in State
  BY DEF RecordReply, DispatchInv, CallsInv, OrdersInv, JournalTypeOK
<1>3. CASE UNCHANGED journalVars
  BY <1>3 DEF journalVars, PlainRows
<1>4. CASE AppendEvent(ack) /\ thread[t].reply = "acknowledged"
  <2> DEFINE s == Transition(intent[o].qty, order[o], ack)
  <2>1. ack.type = "SUBMIT_ACKNOWLEDGED" /\ ack.order = o
    BY DEF AckEvent, PlainEvent
  <2>2. IsPlain(o, ack)
    BY AckEventPlain
  <2> HIDE DEF ack
  <2>3. s = [order[o] EXCEPT !.status = "OPEN", !.pending = "NONE", !.ref = ack.ref]
    BY <2>1 DEF Transition
  <2>4. s.filled = order[o].filled /\ s.status = "OPEN"
    BY <1>2, <2>3 DEF State
  <2> HIDE DEF s, o
  <2>5. s = Transition(intent[o].qty, order[o], ack)
    BY DEF s
  <2>6. QED
    BY <1>1, <1>4, <2>1, <2>2, <2>4, <2>5 DEF o
<1>5. CASE AppendEvent(no) /\ thread[t].reply = "rejected"
  <2> DEFINE s == Transition(intent[o].qty, order[o], no)
  <2>1. no.type = "SUBMIT_REJECTED" /\ no.order = o
    BY DEF PlainEvent
  <2>2. IsPlain(o, no)
    BY PlainEventPlain
  <2> HIDE DEF no
  <2>3. s = [order[o] EXCEPT !.status = "REJECTED", !.pending = "NONE"]
    BY <2>1 DEF Transition
  <2>4. s.filled = order[o].filled /\ s.status = "REJECTED"
    BY <1>2, <2>3 DEF State
  <2> HIDE DEF s, o
  <2>5. s = Transition(intent[o].qty, order[o], no)
    BY DEF s
  <2>6. QED
    BY <1>1, <1>5, <2>1, <2>2, <2>4, <2>5 DEF o
<1>6. \/ UNCHANGED journalVars
      \/ AppendEvent(ack) /\ thread[t].reply = "acknowledged"
      \/ AppendEvent(no) /\ thread[t].reply = "rejected"
  BY DEF RecordReply
<1>7. QED
  BY <1>3, <1>4, <1>5, <1>6

\* Rows after rows.
LEMMA RowsAfterRows ==
  ASSUME NEW old, IsRows(old), NEW n \in Nat, NEW fill
  PROVE  LET rows == old \o [m \in 1..n |-> fill[m]]
         IN  /\ IsRows(rows) /\ Len(old) \in Nat /\ DOMAIN old = 1..Len(old)
             /\ DOMAIN rows = 1..(Len(old) + n)
             /\ \A i \in 1..Len(old) : rows[i] = old[i]
             /\ \A m \in 1..n : rows[Len(old) + m] = fill[m]
<1> DEFINE more == [m \in 1..n |-> fill[m]]
           rows == old \o more
           T == {fill[m] : m \in 1..n}
<1>1. PICK S : old \in Seq(S)
  BY DEF IsRows
<1>2. more \in Seq(T) /\ Len(more) = n
  OBVIOUS
<1>3. \A m \in 1..n : more[m] = fill[m]
  OBVIOUS
<1> HIDE DEF more, T
<1>4. rows \in Seq(S \cup T)
  <2>1. old \in Seq(S \cup T) /\ more \in Seq(S \cup T)
    BY <1>1, <1>2
  <2>2. QED
    BY <2>1
<1>5. /\ Len(old) \in Nat /\ DOMAIN old = 1..Len(old)
      /\ DOMAIN rows = 1..(Len(old) + n)
      /\ \A i \in 1..Len(old) : rows[i] = old[i]
      /\ \A m \in 1..n : rows[Len(old) + m] = more[m]
  BY <1>1, <1>2
<1>6. IsRows(rows)
  BY <1>4, Zenon DEF IsRows
<1>7. /\ IsRows(rows) /\ Len(old) \in Nat /\ DOMAIN old = 1..Len(old)
      /\ DOMAIN rows = 1..(Len(old) + n)
      /\ \A i \in 1..Len(old) : rows[i] = old[i]
      /\ \A m \in 1..n : rows[Len(old) + m] = fill[m]
  BY <1>3, <1>5, <1>6
<1>8. QED
  BY <1>7 DEF more

\* Rows added to a journal that has the first j executions, for the next ones.
LEMMA RestStored ==
  ASSUME NEW o \in Order, NEW j \in Nat, NEW k \in Nat, j < k, IsRows(log[o]), StoredUpTo(o, j),
         log'[o] = log[o] \o [m \in 1..(k - j) |-> VenueFill(o, j + m)],
         UNCHANGED venue
  PROVE  IsRows(log'[o]) /\ StoredUpTo(o, k)'
<1> DEFINE n == k - j
           fill == [m \in 1..n |-> VenueFill(o, j + m)]
           old == log[o]
           rows == old \o [m \in 1..n |-> fill[m]]
<1>2. n \in Nat \ {0} /\ j + n = k
  OBVIOUS
<1>8. \A m \in 1..n : fill[m] = VenueFill(o, j + m)
  OBVIOUS
<1>3. log'[o] = rows
  BY <1>8
<1> HIDE DEF fill, n
<1>4. /\ IsRows(rows) /\ Len(old) \in Nat /\ DOMAIN old = 1..Len(old)
      /\ DOMAIN rows = 1..(Len(old) + n)
      /\ \A i \in 1..Len(old) : rows[i] = old[i]
      /\ \A m \in 1..n : rows[Len(old) + m] = fill[m]
  BY <1>2, RowsAfterRows
<1> HIDE DEF rows
<1>5. \A m \in 1..n : /\ j + m \in 1..k /\ ~(j + m \in 1..j)
                      /\ fill[m].type = "FILL_RECORDED" /\ fill[m].exec = <<o, j + m>>
  BY <1>2, <1>8, VenueFillShape
<1>6. \A i \in DOMAIN rows : \/ i \in DOMAIN old /\ rows[i] = old[i]
                             \/ \E m \in 1..n : i = Len(old) + m /\ rows[i] = fill[m]
  <2> SUFFICES ASSUME NEW i \in 1..(Len(old) + n), ~(i \in 1..Len(old))
               PROVE  \E m \in 1..n : i = Len(old) + m /\ rows[i] = fill[m]
    BY <1>4
  <2> HIDE DEF old
  <2>1. i - Len(old) \in 1..n /\ i = Len(old) + (i - Len(old))
    BY <1>2, <1>4
  <2>2. QED
    BY <1>4, <2>1
<1>7. \A i \in DOMAIN old : \/ IsPlain(o, old[i])
                            \/ \E a \in 1..j : old[i] = VenueFill(o, a)
  BY DEF StoredUpTo
<1>9. \A a \in 1..j : a \in 1..k
  OBVIOUS
<1>10. \A i \in DOMAIN rows : \/ IsPlain(o, rows[i])
                              \/ \E a \in 1..k : rows[i] = VenueFill(o, a)
  BY <1>5, <1>6, <1>7, <1>8, <1>9
<1>11. ASSUME NEW a \in 1..k PROVE \E i \in DOMAIN rows : rows[i] = VenueFill(o, a)
  <2>1. CASE a \in 1..j
    <3>1. PICK i \in DOMAIN old : old[i] = VenueFill(o, a)
      BY <2>1 DEF StoredUpTo
    <3>2. i \in DOMAIN rows /\ rows[i] = old[i]
      BY <1>2, <1>4
    <3>3. QED
      BY <3>1, <3>2
  <2>2. CASE ~(a \in 1..j)
    <3>1. a - j \in 1..n /\ j + (a - j) = a
      BY <1>2, <2>2 DEF n
    <3>2. rows[Len(old) + (a - j)] = VenueFill(o, a)
      BY <1>4, <1>8, <3>1
    <3>3. Len(old) + (a - j) \in DOMAIN rows
      <4>1. Len(old) + (a - j) \in 1..(Len(old) + n)
        BY <1>2, <1>4, <3>1
      <4>2. QED
        BY <1>4, <4>1
    <3>4. QED
      BY <3>2, <3>3
  <2>3. QED
    BY <2>1, <2>2
<1>12. \A i \in DOMAIN old, m \in 1..n : old[i].exec # fill[m].exec
  <2> SUFFICES ASSUME NEW i \in DOMAIN old, NEW m \in 1..n, old[i].exec = <<o, j + m>>
               PROVE  FALSE
    BY <1>5
  <2>1. CASE IsPlain(o, old[i])
    <3>1. <<o, j + m>> \in Order \X Nat
      BY <1>2
    <3>2. QED
      BY <2>1, <3>1, NoExecAssumption DEF IsPlain
  <2>2. CASE \E a \in 1..j : old[i] = VenueFill(o, a)
    <3>1. PICK a \in 1..j : old[i].exec = <<o, a>>
      BY <2>2, VenueFillShape
    <3>2. a = j + m
      BY <3>1
    <3>3. QED
      BY <1>5, <3>2
  <2>3. QED
    BY <1>7, <2>1, <2>2
<1>13. \A m, p \in 1..n : fill[m].exec = fill[p].exec => m = p
  <2> SUFFICES ASSUME NEW m \in 1..n, NEW p \in 1..n, <<o, j + m>> = <<o, j + p>>
               PROVE  m = p
    BY <1>5
  <2>1. j + m = j + p
    OBVIOUS
  <2>2. m \in Nat /\ p \in Nat
    BY <1>2
  <2>3. QED
    BY <2>1, <2>2
<1>14. ASSUME NEW i \in DOMAIN rows, NEW l \in DOMAIN rows,
              rows[i].type = "FILL_RECORDED", rows[l].exec = rows[i].exec
       PROVE  l = i
  <2>1. CASE i \in DOMAIN old /\ rows[i] = old[i]
    <3>1. CASE l \in DOMAIN old /\ rows[l] = old[l]
      BY <1>14, <2>1, <3>1 DEF StoredUpTo
    <3>2. CASE \E m \in 1..n : l = Len(old) + m /\ rows[l] = fill[m]
      BY <1>12, <1>14, <2>1, <3>2
    <3>3. QED
      BY <1>6, <3>1, <3>2
  <2>2. CASE \E m \in 1..n : i = Len(old) + m /\ rows[i] = fill[m]
    <3>1. CASE l \in DOMAIN old /\ rows[l] = old[l]
      BY <1>12, <1>14, <2>2, <3>1
    <3>2. CASE \E m \in 1..n : l = Len(old) + m /\ rows[l] = fill[m]
      BY <1>13, <1>14, <2>2, <3>2
    <3>3. QED
      BY <1>6, <3>1, <3>2
  <2>3. QED
    BY <1>6, <2>1, <2>2
<1>15. \A a : VenueFill(o, a)' = VenueFill(o, a)
  BY DEF VenueFill
<1>16. \A i \in DOMAIN log'[o] : \/ IsPlain(o, log'[o][i])
                                 \/ \E a \in 1..k : log'[o][i] = VenueFill(o, a)'
  BY <1>3, <1>10, <1>15
<1>17. \A a \in 1..k : \E i \in DOMAIN log'[o] : log'[o][i] = VenueFill(o, a)'
  BY <1>3, <1>11, <1>15
<1>18. \A i, l \in DOMAIN log'[o] :
          log'[o][i].type = "FILL_RECORDED" /\ log'[o][l].exec = log'[o][i].exec => l = i
  BY <1>3, <1>14
<1>19. StoredUpTo(o, k)'
  BY <1>16, <1>17, <1>18 DEF StoredUpTo, IsPlain
<1>20. QED
  BY <1>3, <1>4, <1>19

LEMMA ReconcileBooks ==
  ASSUME DispatchInv, NEW o \in Order, NEW l \in lookups, Reconcile(o, l),
         Books(o), l.seen[o] <= Len(venue[o].fills)
  PROVE  Books(o)' /\ order'[o].status # "REJECTED"
<1> DEFINE k == l.seen[o]
           f == venue[o].fills
           q == intent[o].qty
           s == order[o]
           missing == MissingFills(o, k)
<1>1. k \in Nat /\ f \in Seq(Nat \ {0}) /\ k <= Len(f)
  BY DEF DispatchInv, DispatchTypeOK, Lookup
<1>2. PICK j \in 0..Len(f) : StoredUpTo(o, j) /\ s.filled = SumOver(1..j, f)
  BY DEF Books
<1>3. j \in Nat /\ Len(f) \in Nat
  BY <1>1, <1>2
<1>4. \A i \in 1..k : IsStored(o, VenueFill(o, i)) <=> i <= j
  <2>1. \A i \in 1..k : i \in 1..Len(f)
    BY <1>1, <1>3
  <2>2. QED
    BY <1>2, <1>3, <2>1, StoredAre
<1>5. missing = [m \in 1..(IF k <= j THEN 0 ELSE k - j) |-> VenueFill(o, j + m)]
  BY <1>1, <1>3, <1>4, MissingAreTheRest
<1>6. j < k
  <2> SUFFICES ASSUME ~(j < k) PROVE FALSE
    OBVIOUS
  <2>1. k <= j
    BY <1>1, <1>3
  <2>2. missing = [m \in 1..0 |-> VenueFill(o, j + m)]
    BY <1>5, <2>1
  <2>3. missing = <<>>
    BY <2>2
  <2>4. QED
    BY <2>3 DEF Reconcile
<1>7. missing = [m \in 1..(k - j) |-> VenueFill(o, j + m)]
  BY <1>1, <1>3, <1>5, <1>6
<1> DEFINE n == FilledBy(missing)
           e == FillEvent(o, <<o, "FILL", 0>>, RefOf[o], <<o, 0>>, n)
<1>8. /\ order' = [order EXCEPT ![o] = Transition(q, @, e)]
      /\ log' = [log EXCEPT ![o] = @ \o missing]
      /\ s.status \in {"OPEN", "PARTIALLY_FILLED", "FILLED", "CANCEL_UNKNOWN", "CANCELED"}
      /\ UNCHANGED venue
  BY DEF Reconcile
<1>9. e.type = "FILL_RECORDED" /\ e.qty = n
  BY DEF FillEvent, PlainEvent
<1> HIDE DEF e, missing
<1>10. log'[o] = log[o] \o missing
  BY <1>8 DEF DispatchInv, OrdersInv, JournalTypeOK
<1>11. /\ order'[o].filled = s.filled + n
       /\ order'[o].status = StatusAfterFill(q, s.status, s.filled + n)
  BY <1>8, <1>9 DEF Transition, DispatchInv, OrdersInv, JournalTypeOK
<1>12. s.filled + n = SumOver(1..k, f)
  <2> DEFINE m == k - j
  <2>1. m \in Nat /\ j + m = k
    BY <1>1, <1>3, <1>6
  <2>2. Len(missing) = m
    BY <1>7, <2>1
  <2>3. \A i \in 1..m : missing[i].qty = f[j + i]
    BY <1>7, VenueFillShape
  <2>4. \A i \in 1..(j + m) : f[i] \in Nat
    <3>1. \A i \in 1..k : f[i] \in Nat \ {0}
      BY <1>1, <1>3
    <3>2. QED
      BY <2>1, <3>1
  <2> HIDE DEF m, n, f
  <2>5. SumOver(1..(j + m), f) = SumOver(1..j, f) + FilledBy(missing)
    <3>1. /\ Len(missing) = m
          /\ \A i \in 1..m : missing[i].qty = f[j + i]
          /\ \A i \in 1..(j + m) : f[i] \in Nat
      BY <2>2, <2>3, <2>4
    <3>2. j \in Nat /\ m \in Nat
      BY <1>3, <2>1
    <3>3. /\ Len(missing) = m
          /\ \A i \in 1..m : missing[i].qty = f[j + i]
          /\ \A i \in 1..(j + m) : f[i] \in Nat
          => /\ SumOver(1..(j + m), f) = SumOver(1..j, f) + FilledBy(missing)
             /\ SumOver(1..j, f) \in Nat /\ FilledBy(missing) \in Nat
      BY <3>2, FilledByRest, ZenonT(60)
    <3>4. QED
      BY <3>1, <3>3, ZenonT(60)
  <2>6. QED
    BY <1>2, <2>1, <2>5 DEF n
<1>13. s.status # "CANCELED"
  BY DEF Books
<1>14. order'[o].status # "CANCELED" /\ order'[o].status # "REJECTED"
  BY <1>8, <1>11, <1>13 DEF StatusAfterFill
<1>15. IsRows(log'[o]) /\ StoredUpTo(o, k)'
  <2>1. log'[o] = log[o] \o [m \in 1..(k - j) |-> VenueFill(o, j + m)]
    BY <1>7, <1>10
  <2>2. IsRows(log[o])
    BY DEF Books
  <2> HIDE DEF k
  <2>3. QED
    BY <1>1, <1>2, <1>3, <1>6, <1>8, <2>1, <2>2, RestStored
<1>16. venue'[o].fills = f /\ k \in 0..Len(f)
  BY <1>1, <1>3, <1>8
<1>17. order'[o].filled = SumOver(1..k, f)
  BY <1>11, <1>12
<1> HIDE DEF k, f
<1>18. Books(o)'
  BY <1>14, <1>15, <1>16, <1>17 DEF Books
<1>19. QED
  BY <1>14, <1>18

-----------------------------------------------------------------------------
(* The venue in the invariant.                                               *)

\* Inductive with DispatchInv.  That fills come from the venue is not: a lookup
\* has to be known to show a first part of what the venue did, the journal to
\* have a first part too, and a venue order never to be one whose refusal is
\* recorded or about to be.
VenueInv ==
    /\ \A o \in Order : Books(o)
    /\ \A o \in Order : venue[o].accepted => sent[o] > 0 /\ order[o].status # "REJECTED"
    /\ \A t \in Thread : thread[t].pc = "record" /\ thread[t].reply = "rejected"
                         => ~venue[thread[t].order].accepted
    /\ \A l \in lookups : \A o \in Order : l.seen[o] <= Len(venue[o].fills)

\* A step in which the venue does nothing and no call gets a reply.
LEMMA QuietVenue ==
  ASSUME DispatchInv, VenueInv, UNCHANGED <<venue, sent, lookups>>,
         \A o \in Order : Books(o)',
         \A o \in Order : venue[o].accepted /\ order[o].status # "REJECTED"
                          => order'[o].status # "REJECTED",
         \A t \in Thread : thread'[t] = thread[t] \/ thread'[t].pc # "record"
  PROVE  VenueInv'
<1>1. \A o \in Order : venue'[o].accepted => sent'[o] > 0 /\ order'[o].status # "REJECTED"
  BY DEF VenueInv
<1>2. \A t \in Thread : thread'[t].pc = "record" /\ thread'[t].reply = "rejected"
                        => ~venue'[thread'[t].order].accepted
  BY DEF VenueInv
<1>3. \A l \in lookups' : \A o \in Order : l.seen[o] <= Len(venue'[o].fills)
  BY DEF VenueInv
<1>4. QED
  BY <1>1, <1>2, <1>3 DEF VenueInv

LEMMA VenueUnchanged ==
  ASSUME DispatchInv, UNCHANGED venue, NEW o \in Order
  PROVE  FillsLater(o)
<1>1. venue[o].fills \in Seq(Nat \ {0})
  BY DEF DispatchInv, DispatchTypeOK
<1>2. Len(venue[o].fills) \in Nat
  BY <1>1
<1>3. QED
  BY <1>1, <1>2 DEF FillsLater

\* The journal does not change, or gets plain rows only.
LEMMA PlainBooks ==
  ASSUME DispatchInv, VenueInv, UNCHANGED venue, \A o \in Order : PlainRows(o)
  PROVE  \A o \in Order : Books(o)'
  BY BooksKept, VenueUnchanged DEF VenueInv

LEMMA NoNewRows ==
  ASSUME DispatchInv, VenueInv, UNCHANGED journalVars
  PROVE  \A o \in Order : PlainRows(o)
<1> SUFFICES ASSUME NEW o \in Order PROVE PlainRows(o)
  OBVIOUS
<1>1. IsRows(log[o]) /\ UNCHANGED <<log, order>>
  BY DEF VenueInv, Books, journalVars
<1>2. QED
  BY <1>1 DEF PlainRows

LEMMA RegisterVenue ==
  ASSUME DispatchInv, VenueInv, NEW o \in Order, NEW i \in Intent, Register(o, i)
  PROVE  VenueInv'
<1>1. RecordIntent(o, i) /\ UNCHANGED <<reservation, thread, sent, venue, lookups>>
  BY DEF Register, dispatchVars
<1>2. \A d \in Order : IsRows(log[d])
  BY DEF VenueInv, Books
<1>3. \A d \in Order : PlainRows(d) /\ (order'[d].status = "REJECTED" => order[d].status = "REJECTED")
  BY <1>1, <1>2, RegisterPlain
<1>4. \A d \in Order : Books(d)'
  BY <1>1, <1>3, PlainBooks
<1>5. QED
  BY <1>1, <1>3, <1>4, QuietVenue

LEMMA BeginOrGiveUpVenue ==
  ASSUME DispatchInv, VenueInv, NEW t \in Thread,
         GiveUp(t) \/ \E o \in Order : BeginSubmit(t, o)
  PROVE  VenueInv'
<1>1. /\ UNCHANGED journalVars /\ UNCHANGED <<reservation, sent, venue, lookups>>
  BY DEF GiveUp, BeginSubmit
<1>2. thread \in [Thread -> ThreadState]
  BY DEF DispatchInv, DispatchTypeOK
<1>3. PICK x : thread' = [thread EXCEPT ![t] = x] /\ x.pc # "record"
  <2>1. Idle.pc # "record"
    BY DEF Idle
  <2>2. \A o : [Idle EXCEPT !.pc = "preflight", !.order = o,
                            !.token = held[OwnerOf[t]][Acct(o)]].pc # "record"
    BY DEF Idle
  <2>3. QED
    BY <2>1, <2>2 DEF GiveUp, BeginSubmit
<1>4. \A u \in Thread : thread'[u] = thread[u] \/ thread'[u].pc # "record"
  BY <1>2, <1>3
<1>5. \A o \in Order : Books(o)'
  BY <1>1, NoNewRows, PlainBooks
<1>6. QED
  BY <1>1, <1>4, <1>5, QuietVenue DEF journalVars

LEMMA AuthorizeVenue ==
  ASSUME DispatchInv, VenueInv, NEW t \in Thread, Authorize(t)
  PROVE  VenueInv'
<1> DEFINE o == thread[t].order
<1>1. /\ InsertDispatch(o) /\ UNCHANGED <<sent, venue, lookups>>
      /\ thread' = [thread EXCEPT ![t].pc = "submit"]
      /\ thread[t].pc = "preflight"
  BY DEF Authorize
<1>2. o \in Order /\ thread[t] \in ThreadState /\ thread \in [Thread -> ThreadState]
  BY <1>1 DEF DispatchInv, DispatchTypeOK, CallsInv
<1>3. \A d \in Order : IsRows(log[d])
  BY DEF VenueInv, Books
<1>4. \A d \in Order : PlainRows(d) /\ (order'[d].status = "REJECTED" => order[d].status = "REJECTED")
  BY <1>1, <1>2, <1>3, DispatchPlain
<1>5. \A d \in Order : Books(d)'
  BY <1>1, <1>4, PlainBooks
<1>6. \A u \in Thread : thread'[u] = thread[u] \/ thread'[u].pc # "record"
  BY <1>1, <1>2 DEF ThreadState
<1>7. QED
  BY <1>1, <1>4, <1>5, <1>6, QuietVenue

LEMMA RecordReplyVenue ==
  ASSUME DispatchInv, VenueInv, NEW t \in Thread, RecordReply(t)
  PROVE  VenueInv'
<1>1. /\ thread[t].pc = "record" /\ thread' = [thread EXCEPT ![t] = Idle]
      /\ UNCHANGED <<reservation, sent, venue, lookups>>
  BY DEF RecordReply
<1>2. \A d \in Order : IsRows(log[d])
  BY DEF VenueInv, Books
<1>3. \A d \in Order :
         /\ PlainRows(d)
         /\ order'[d].status = "REJECTED" =>
               \/ order[d].status = "REJECTED"
               \/ d = thread[t].order /\ thread[t].reply = "rejected"
  BY <1>2, ReplyPlain
<1>4. \A d \in Order : Books(d)'
  BY <1>1, <1>3, PlainBooks
<1>5. thread \in [Thread -> ThreadState] /\ Idle.pc # "record"
  BY DEF DispatchInv, DispatchTypeOK, Idle
<1>6. \A u \in Thread : thread'[u] = thread[u] \/ thread'[u].pc # "record"
  BY <1>1, <1>5
<1>7. thread[t].reply = "rejected" => ~venue[thread[t].order].accepted
  BY <1>1 DEF VenueInv
<1>8. \A d \in Order : venue[d].accepted /\ order[d].status # "REJECTED"
                       => order'[d].status # "REJECTED"
  BY <1>3, <1>7
<1>9. QED
  BY <1>1, <1>4, <1>6, <1>8, QuietVenue

LEMMA ReconcileVenue ==
  ASSUME DispatchInv, VenueInv, NEW o \in Order, NEW l \in lookups, Reconcile(o, l)
  PROVE  VenueInv'
<1>1. UNCHANGED <<reservation, thread, sent, venue, lookups>>
  BY DEF Reconcile
<1>2. Books(o)' /\ order'[o].status # "REJECTED"
  BY ReconcileBooks DEF VenueInv
<1>3. \A d \in Order : d # o => order'[d] = order[d] /\ log'[d] = log[d]
  BY DEF Reconcile, DispatchInv, OrdersInv, JournalTypeOK
<1>4. \A d \in Order : d # o => Books(d)'
  <2> SUFFICES ASSUME NEW d \in Order, d # o PROVE Books(d)'
    OBVIOUS
  <2>1. Books(d) /\ IsRows(log[d])
    BY DEF VenueInv, Books
  <2>2. PlainRows(d)
    BY <1>3, <2>1 DEF PlainRows
  <2>3. QED
    BY <1>1, <2>1, <2>2, BooksKept, VenueUnchanged
<1>5. QED
  BY <1>1, <1>2, <1>3, <1>4, QuietVenue

LEMMA CrashOrAuthorityVenue ==
  ASSUME DispatchInv, VenueInv,
         \/ \E p \in Process : CrashWithCalls(p)
         \/ AuthorityStep
         \/ UNCHANGED vars
  PROVE  VenueInv'
<1>1. UNCHANGED journalVars /\ UNCHANGED <<sent, venue, lookups>>
  BY DEF CrashWithCalls, AuthorityStep, dispatchVars, vars
<1>2. \A t \in Thread : thread'[t] = thread[t] \/ thread'[t].pc # "record"
  <2>1. Idle.pc # "record"
    BY DEF Idle
  <2>2. QED
    BY <2>1 DEF CrashWithCalls, AuthorityStep, dispatchVars, vars
<1>3. \A o \in Order : Books(o)'
  BY <1>1, NoNewRows, PlainBooks
<1>4. QED
  BY <1>1, <1>2, <1>3, QuietVenue DEF journalVars

LEMMA WriteToVenueVenue ==
  ASSUME DispatchInv, VenueInv, NEW t \in Thread, WriteToVenue(t)
  PROVE  VenueInv'
<1> DEFINE o == thread[t].order
<1>1. PICK reply \in {"acknowledged", "rejected", "unknown"} :
         /\ thread' = [thread EXCEPT ![t].pc = "record", ![t].reply = reply]
         /\ \/ venue' = [venue EXCEPT ![o].accepted = TRUE] /\ reply # "rejected"
            \/ UNCHANGED venue
  BY DEF WriteToVenue
<1>2. /\ thread[t].pc = "submit" /\ sent' = [sent EXCEPT ![o] = @ + 1]
      /\ UNCHANGED lookups /\ UNCHANGED journalVars
  BY DEF WriteToVenue
<1>3. /\ o \in Order /\ sent[o] = 0 /\ order[o].pending = "SUBMIT"
      /\ \A u \in Thread : u # t /\ InFlight(u) => thread[u].order # o
  BY <1>2 DEF DispatchInv, CallsInv, InFlight
<1>4. order[o].status # "REJECTED"
  <2>1. IsRecorded(o)
    BY <1>3 DEF DispatchInv, OrdersInv, NewState
  <2>2. QED
    BY <1>3, <2>1 DEF DispatchInv, OrdersInv, Coherent
<1>5. ~venue[o].accepted
  BY <1>3 DEF VenueInv
<1>6. /\ \A d \in Order : venue'[d].fills = venue[d].fills
      /\ \A d \in Order : d # o => venue'[d] = venue[d]
      /\ venue'[o].accepted => reply # "rejected"
  <2>1. venue \in [Order -> [accepted: BOOLEAN, fills: Seq(Nat \ {0})]]
    BY DEF DispatchInv, DispatchTypeOK
  <2>2. CASE venue' = venue
    BY <1>5, <2>2
  <2>3. CASE venue' = [venue EXCEPT ![o].accepted = TRUE] /\ reply # "rejected"
    <3> DEFINE x == [venue[o] EXCEPT !.accepted = TRUE]
    <3>1. venue' = [venue EXCEPT ![o] = x] /\ x.fills = venue[o].fills
      BY <1>3, <2>1, <2>3
    <3> HIDE DEF x
    <3>2. \A d \in Order : venue'[d] = IF d = o THEN x ELSE venue[d]
      BY <2>1, <3>1
    <3>3. QED
      BY <2>3, <3>1, <3>2
  <2>4. QED
    BY <1>1, <2>2, <2>3
<1>7. /\ thread'[t].pc = "record" /\ thread'[t].order = o /\ thread'[t].reply = reply
      /\ \A u \in Thread : u # t => thread'[u] = thread[u]
  <2> DEFINE x == [thread[t] EXCEPT !.pc = "record", !.reply = reply]
  <2>1. thread[t] \in ThreadState /\ thread \in [Thread -> ThreadState]
    BY DEF DispatchInv, DispatchTypeOK
  <2>2. x.pc = "record" /\ x.order = o /\ x.reply = reply
    BY <2>1 DEF ThreadState
  <2>3. thread' = [thread EXCEPT ![t] = x]
    BY <1>1, <2>1
  <2> HIDE DEF x, o
  <2>4. QED
    BY <2>1, <2>2, <2>3
<1>8. sent'[o] = 1 /\ \A d \in Order : d # o => sent'[d] = sent[d]
  BY <1>2, <1>3 DEF DispatchInv, DispatchTypeOK
<1> HIDE DEF o
<1>9. \A d \in Order : Books(d)'
  <2> SUFFICES ASSUME NEW d \in Order PROVE Books(d)'
    OBVIOUS
  <2>1. PlainRows(d)
    BY <1>2, NoNewRows
  <2>2. FillsLater(d)
    <3>1. venue[d].fills \in Seq(Nat \ {0})
      BY DEF DispatchInv, DispatchTypeOK
    <3>2. Len(venue[d].fills) \in Nat
      BY <3>1
    <3>3. QED
      BY <1>6, <3>1, <3>2 DEF FillsLater
  <2>3. QED
    BY <2>1, <2>2, BooksKept DEF VenueInv
<1>10. \A d \in Order : venue'[d].accepted => sent'[d] > 0 /\ order'[d].status # "REJECTED"
  BY <1>2, <1>4, <1>6, <1>8 DEF VenueInv, journalVars
<1>11. ASSUME NEW u \in Thread, thread'[u].pc = "record", thread'[u].reply = "rejected"
       PROVE  ~venue'[thread'[u].order].accepted
  <2>1. CASE u = t
    BY <1>6, <1>7, <1>11, <2>1
  <2>2. CASE u # t
    <3>1. thread'[u] = thread[u]
      BY <1>7, <2>2
    <3>2. InFlight(u)
      BY <1>11, <3>1 DEF InFlight
    <3>3. thread[u].order \in Order /\ thread[u].order # o
      BY <1>3, <2>2, <3>2 DEF DispatchInv, CallsInv, InFlight
    <3>4. QED
      BY <1>6, <1>11, <3>1, <3>3 DEF VenueInv
  <2>3. QED
    BY <2>1, <2>2
<1>12. \A l \in lookups' : \A d \in Order : l.seen[d] <= Len(venue'[d].fills)
  BY <1>2, <1>6 DEF VenueInv
<1>13. QED
  BY <1>9, <1>10, <1>11, <1>12 DEF VenueInv

LEMMA VenueFillsVenue ==
  ASSUME DispatchInv, VenueInv, NEW o \in Order, NEW n \in 1..MaxOrderQuantity, VenueFills(o, n)
  PROVE  VenueInv'
<1> DEFINE f == venue[o].fills
           x == [venue[o] EXCEPT !.fills = Append(@, n)]
<1>1. /\ venue' = [venue EXCEPT ![o] = x]
      /\ UNCHANGED <<reservation, thread, sent, lookups>> /\ UNCHANGED journalVars
  BY DEF VenueFills
<1>2. n \in Nat \ {0} /\ f \in Seq(Nat \ {0})
  BY LimitAssumption DEF DispatchInv, DispatchTypeOK
<1>3. venue \in [Order -> [accepted: BOOLEAN, fills: Seq(Nat \ {0})]]
  BY DEF DispatchInv, DispatchTypeOK
<1>4. x.accepted = venue[o].accepted /\ x.fills = Append(f, n)
  BY <1>3
<1>5. /\ Append(f, n) \in Seq(Nat \ {0})
      /\ Len(f) \in Nat /\ Len(Append(f, n)) = Len(f) + 1
      /\ \A k \in 1..Len(f) : Append(f, n)[k] = f[k]
  BY <1>2
<1> HIDE DEF x
<1>6. /\ venue'[o] = x /\ \A d \in Order : d # o => venue'[d] = venue[d]
  BY <1>1, <1>3
<1>7. \A d \in Order : venue'[d].accepted = venue[d].accepted
  BY <1>4, <1>6
<1>8. ASSUME NEW d \in Order PROVE FillsLater(d)
  <2>1. CASE d = o
    <3> DEFINE g == Append(f, n)
    <3>1. venue'[d].fills = g /\ venue[d].fills = f
      BY <1>4, <1>6, <2>1
    <3>2. /\ g \in Seq(Nat \ {0}) /\ f \in Seq(Nat \ {0})
          /\ Len(f) <= Len(g) /\ \A k \in 1..Len(f) : g[k] = f[k]
      BY <1>2, <1>5
    <3> HIDE DEF f, g
    <3>3. QED
      BY <3>1, <3>2 DEF FillsLater
  <2>2. CASE d # o
    <3>1. venue[d].fills \in Seq(Nat \ {0}) /\ venue'[d] = venue[d]
      BY <1>3, <1>6, <2>2
    <3>2. Len(venue[d].fills) \in Nat
      BY <3>1
    <3>3. QED
      BY <3>1, <3>2 DEF FillsLater
  <2>3. QED
    BY <2>1, <2>2
<1>9. \A d \in Order : Books(d)'
  BY <1>1, <1>8, NoNewRows, BooksKept DEF VenueInv
<1>10. \A d \in Order : venue'[d].accepted => sent'[d] > 0 /\ order'[d].status # "REJECTED"
  BY <1>1, <1>7 DEF VenueInv, journalVars
<1>11. \A u \in Thread : thread'[u].pc = "record" /\ thread'[u].reply = "rejected"
                         => ~venue'[thread'[u].order].accepted
  <2>1. \A u \in Thread : thread[u].pc = "record" => thread[u].order \in Order
    BY DEF DispatchInv, CallsInv
  <2>2. QED
    BY <1>1, <1>7, <2>1 DEF VenueInv
<1>12. ASSUME NEW l \in lookups, NEW d \in Order PROVE l.seen[d] <= Len(venue'[d].fills)
  <2>1. l.seen[d] \in Nat /\ l.seen[d] <= Len(venue[d].fills)
    BY DEF VenueInv, DispatchInv, DispatchTypeOK, Lookup
  <2>2. Len(venue[d].fills) \in Nat /\ Len(venue'[d].fills) \in Nat
    BY <1>8 DEF FillsLater
  <2>3. Len(venue[d].fills) <= Len(venue'[d].fills)
    BY <1>8 DEF FillsLater
  <2>4. QED
    BY <2>1, <2>2, <2>3
<1>13. QED
  BY <1>1, <1>9, <1>10, <1>11, <1>12 DEF VenueInv

LEMMA TakeLookupVenue ==
  ASSUME DispatchInv, VenueInv, NEW a \in Account, TakeLookup(a)
  PROVE  VenueInv'
<1> DEFINE seen == [o \in Order |-> IF Acct(o) = a THEN Len(venue[o].fills) ELSE 0]
           new == [account |-> a, at |-> now, seen |-> seen]
<1>1. /\ lookups' = lookups \cup {new}
      /\ UNCHANGED <<reservation, thread, sent, venue>> /\ UNCHANGED journalVars
  BY DEF TakeLookup
<1>2. \A o \in Order : seen[o] <= Len(venue[o].fills)
  <2>1. \A o \in Order : Len(venue[o].fills) \in Nat
    BY DEF DispatchInv, DispatchTypeOK
  <2>2. QED
    BY <2>1
<1>3. new.seen = seen
  OBVIOUS
<1> HIDE DEF seen, new
<1>4. \A l \in lookups' : \A o \in Order : l.seen[o] <= Len(venue[o].fills)
  BY <1>1, <1>2, <1>3 DEF VenueInv
<1>5. \A o \in Order : Books(o)'
  BY <1>1, NoNewRows, PlainBooks
<1>6. QED
  BY <1>1, <1>4, <1>5 DEF VenueInv, journalVars

LEMMA InitVenue == DispatchInit => VenueInv
<1> SUFFICES ASSUME DispatchInit PROVE VenueInv
  OBVIOUS
<1>1. /\ \A o \in Order : order[o] = NewState /\ log[o] = <<>> /\ venue[o] = NotThere
      /\ \A t \in Thread : thread[t] = Idle
      /\ lookups = {}
  BY DEF DispatchInit, JournalInit
<1>2. \A o \in Order : Books(o)
  <2> SUFFICES ASSUME NEW o \in Order PROVE Books(o)
    OBVIOUS
  <2>1. IsRows(log[o])
    <3>1. <<>> \in Seq({})
      OBVIOUS
    <3>2. QED
      BY <1>1, <3>1, Zenon DEF IsRows
  <2>2. order[o].status # "CANCELED" /\ order[o].filled = 0
    BY <1>1 DEF NewState
  <2>3. venue[o].fills = <<>> /\ Len(venue[o].fills) = 0 /\ 0 \in 0..Len(venue[o].fills)
    BY <1>1 DEF NotThere
  <2>4. SumOver(1..0, venue[o].fills) = 0
    <3>1. 1..0 = {}
      OBVIOUS
    <3>2. SumOver({}, venue[o].fills) = 0
      BY SumLaws, FS_EmptySet
    <3>3. QED
      BY <3>1, <3>2, Zenon
  <2>5. DOMAIN log[o] = {}
    BY <1>1
  <2>6. StoredUpTo(o, 0)
    BY <2>5 DEF StoredUpTo
  <2>7. QED
    BY <2>1, <2>2, <2>3, <2>4, <2>6 DEF Books
<1>3. QED
  BY <1>1, <1>2 DEF VenueInv, NotThere, Idle

LEMMA NextVenue == DispatchInv /\ VenueInv /\ [DispatchNext]_vars => VenueInv'
<1> SUFFICES ASSUME DispatchInv, VenueInv, [DispatchNext]_vars PROVE VenueInv'
  OBVIOUS
<1>1. ASSUME NEW o \in Order, NEW i \in Intent, Register(o, i) PROVE VenueInv'
  BY <1>1, RegisterVenue
<1>2. ASSUME NEW t \in Thread, NEW o \in Order, BeginSubmit(t, o) PROVE VenueInv'
  BY <1>2, BeginOrGiveUpVenue
<1>3. ASSUME NEW t \in Thread, Authorize(t) PROVE VenueInv'
  BY <1>3, AuthorizeVenue
<1>4. ASSUME NEW t \in Thread, WriteToVenue(t) PROVE VenueInv'
  BY <1>4, WriteToVenueVenue
<1>5. ASSUME NEW t \in Thread, RecordReply(t) PROVE VenueInv'
  BY <1>5, RecordReplyVenue
<1>6. ASSUME NEW t \in Thread, GiveUp(t) PROVE VenueInv'
  BY <1>6, BeginOrGiveUpVenue
<1>7. ASSUME NEW o \in Order, NEW n \in 1..MaxOrderQuantity, VenueFills(o, n) PROVE VenueInv'
  BY <1>7, VenueFillsVenue
<1>8. ASSUME NEW a \in Account, TakeLookup(a) PROVE VenueInv'
  BY <1>8, TakeLookupVenue
<1>9. ASSUME NEW o \in Order, NEW l \in lookups, Reconcile(o, l) PROVE VenueInv'
  BY <1>9, ReconcileVenue
<1>10. CASE (\E p \in Process : CrashWithCalls(p)) \/ AuthorityStep \/ UNCHANGED vars
  BY <1>10, CrashOrAuthorityVenue
<1>11. QED
  BY <1>1, <1>2, <1>3, <1>4, <1>5, <1>6, <1>7, <1>8, <1>9, <1>10 DEF DispatchNext

LEMMA VenueSound == DispatchSpec => [](DispatchInv /\ VenueInv)
  BY InitDispatch, NextDispatch, InitVenue, NextVenue, PTL DEF DispatchSpec

\* Every execution of the journal is one the venue made, with its quantity,
\* and is there once, however old, late or often repeated the lookups are from
\* which kiwoom_order_reconciliation.go appended it.
THEOREM FillsAreTheVenues == DispatchSpec => []FillsComeFromVenue
<1>1. DispatchInv /\ VenueInv => FillsComeFromVenue
  <2> SUFFICES ASSUME DispatchInv, VenueInv, NEW o \in Order, NEW i \in DOMAIN log[o],
                      log[o][i].type = "FILL_RECORDED"
               PROVE  /\ \E k \in DOMAIN venue[o].fills :
                            log[o][i].exec = <<o, k>> /\ log[o][i].qty = venue[o].fills[k]
                      /\ \A j \in DOMAIN log[o] : log[o][j].exec = log[o][i].exec => j = i
    BY DEF FillsComeFromVenue
  <2>1. PICK j \in 0..Len(venue[o].fills) : StoredUpTo(o, j)
    BY DEF VenueInv, Books
  <2>2. PICK k \in 1..j : log[o][i] = VenueFill(o, k)
    BY <2>1 DEF StoredUpTo, IsPlain
  <2>3. k \in DOMAIN venue[o].fills
    <3>1. venue[o].fills \in Seq(Nat \ {0})
      BY DEF DispatchInv, DispatchTypeOK
    <3>2. QED
      BY <2>1, <3>1
  <2>4. QED
    BY <2>1, <2>2, <2>3, VenueFillShape DEF StoredUpTo
<1>2. QED
  BY <1>1, VenueSound, PTL

-----------------------------------------------------------------------------
(* The account limit                                                        *)

\* An order the venue may still fill counts against the limit.
LEMMA WorkingCounts ==
  ASSUME DispatchInv, VenueInv, NEW o \in Order, venue[o].accepted,
         FilledAtVenue(o) < intent[o].qty
  PROVE  IsReserved(o) /\ IsActive(order[o])
<1> DEFINE f == venue[o].fills
           s == order[o]
           q == intent[o].qty
<1>1. IsReserved(o) /\ s.status \in PostDispatch
  BY DEF VenueInv, DispatchInv, CallsInv, ReservedInv
<1>2. s.status # "REJECTED" /\ s.status # "CANCELED"
  BY DEF VenueInv, Books
<1>3. IsRecorded(o)
  BY <1>1 DEF DispatchInv, OrdersInv, NewState, PostDispatch
<1>4. q \in Nat \ {0} /\ Coherent(q, s)
  BY <1>3, PositiveQuantity DEF DispatchInv, OrdersInv
<1>5. SUFFICES ASSUME s.status = "FILLED" PROVE FALSE
  BY <1>1, <1>2 DEF PostDispatch, IsActive
<1>6. s.filled = q
  BY <1>4, <1>5 DEF Coherent
<1>7. PICK j \in 0..Len(f) : s.filled = SumOver(1..j, f)
  BY DEF VenueInv, Books
<1>8. Len(f) \in Nat /\ DOMAIN f = 1..Len(f) /\ \A k \in 1..Len(f) : f[k] \in Nat
  <2>1. f \in Seq(Nat \ {0})
    BY DEF DispatchInv, DispatchTypeOK
  <2>2. QED
    BY <2>1
<1>9. SumOver(DOMAIN f, f) = SumOver(1..Len(f), f)
  BY <1>8, Zenon
<1>10. SumOver(DOMAIN f, f) < q
  BY DEF FilledAtVenue
<1> HIDE DEF f
<1>11. SumOver(1..j, f) \in Nat /\ SumOver(1..Len(f), f) \in Nat
       /\ SumOver(1..j, f) <= SumOver(1..Len(f), f)
  BY <1>7, <1>8, SumOfFirst
<1>12. QED
  BY <1>4, <1>6, <1>7, <1>9, <1>10, <1>11

\* The orders that count against the limit of account a.
Counted(a) == {o \in Order : Acct(o) = a /\ IsReserved(o) /\ IsActive(order[o])}

Notional == [o \in Order |-> intent[o].notional]

\* Inductive with DispatchInv.
LimitInv ==
    /\ IsFiniteSet({o \in Order : IsReserved(o)})
    /\ \A a \in Account : SumOver(Counted(a), Notional) <= MaxAccountNotional

LEMMA CountedFacts ==
  ASSUME DispatchInv, LimitInv, NEW a \in Account
  PROVE  /\ IsFiniteSet(Counted(a))
         /\ \A o \in Counted(a) : Notional[o] \in Nat
<1>1. Counted(a) \subseteq {o \in Order : IsReserved(o)}
  BY DEF Counted
<1>2. IsFiniteSet(Counted(a))
  BY <1>1, FS_Subset DEF LimitInv
<1>3. ASSUME NEW o \in Counted(a) PROVE Notional[o] \in Nat
  <2>1. o \in Order /\ order[o].status \in PostDispatch
    BY DEF Counted, DispatchInv, ReservedInv
  <2>2. IsRecorded(o)
    BY <2>1 DEF DispatchInv, OrdersInv, NewState, PostDispatch
  <2>3. intent[o] \in Intent
    BY <2>1, <2>2, PositiveQuantity DEF DispatchInv, OrdersInv
  <2>4. QED
    BY <2>1, <2>3, IntentAssumption DEF Notional
<1>4. QED
  BY <1>2, <1>3

\* What was reserved keeps its notional, and counts only if it did before.
LEMMA CountedKept ==
  ASSUME DispatchInv, OrdersKeep, NEW o \in Order, IsReserved(o)
  PROVE  /\ intent'[o] = intent[o]
         /\ IsActive(order'[o]) => IsActive(order[o])
<1>1. order[o].status \in PostDispatch
  BY DEF DispatchInv, ReservedInv
<1>2. IsRecorded(o)
  BY <1>1 DEF DispatchInv, OrdersInv, NewState, PostDispatch
<1>3. QED
  BY <1>1, <1>2 DEF OrdersKeep, Settled

LEMMA LimitKept ==
  ASSUME DispatchInv, LimitInv, OrdersKeep, UNCHANGED reservation
  PROVE  LimitInv'
<1>1. \A o \in Order : IsReserved(o)' <=> IsReserved(o)
  BY DEF IsReserved
<1>2. {o \in Order : IsReserved(o)'} = {o \in Order : IsReserved(o)}
  BY <1>1
<1>3. ASSUME NEW a \in Account PROVE SumOver(Counted(a)', Notional') <= MaxAccountNotional
  <2> DEFINE S == Counted(a)
             R == Counted(a)'
             f == Notional'
             g == Notional
  <2>1. IsFiniteSet(S) /\ \A o \in S : g[o] \in Nat
    BY CountedFacts
  <2>2. R \in SUBSET S /\ \A o \in R : f[o] = g[o]
    <3> SUFFICES ASSUME NEW o \in R PROVE o \in S /\ f[o] = g[o]
      OBVIOUS
    <3>1. o \in Order /\ Acct(o) = a /\ IsReserved(o) /\ IsActive(order'[o])
      BY <1>1 DEF Counted, Acct
    <3>2. QED
      BY <3>1, CountedKept DEF Counted, Notional
  <2>3. \A o \in R : f[o] \in Nat /\ f[o] <= g[o]
    <3>1. \A o \in R : g[o] \in Nat
      BY <2>1, <2>2
    <3> HIDE DEF R, S, f, g
    <3>2. QED
      BY <2>2, <3>1
  <2>4. SumOver(S, g) <= MaxAccountNotional
    BY DEF LimitInv
  <2> HIDE DEF R, S, f, g
  <2>5. SumOver(R, f) <= SumOver(S, g)
    BY <2>1, <2>2, <2>3, SumMonotone
  <2>6. SumOver(S, g) \in Nat /\ SumOver(R, f) \in Nat
    <3>1. IsFiniteSet(R)
      BY <2>1, <2>2, FS_Subset
    <3>2. QED
      BY <2>1, <2>3, <3>1, SumLaws
  <2>7. SumOver(R, f) <= MaxAccountNotional
    BY <2>4, <2>5, <2>6, LimitAssumption
  <2>8. QED
    BY <2>7 DEF R, f
<1>4. QED
  BY <1>2, <1>3 DEF LimitInv

LEMMA LimitAuthorize ==
  ASSUME DispatchInv, LimitInv, NEW t \in Thread, Authorize(t)
  PROVE  LimitInv'
<1> DEFINE o == thread[t].order
           r == [token |-> thread[t].token, at |-> now]
<1>1. /\ thread[t].pc = "preflight" /\ InsertDispatch(o) /\ ~IsReserved(o)
      /\ reservation' = [reservation EXCEPT ![o] = r]
      /\ ActiveReservedNotional(Acct(o)) + intent[o].notional <= MaxAccountNotional
      /\ UNCHANGED intent
  BY DEF Authorize, MayDispatch, InsertDispatch
<1>2. o \in Order /\ IsRecorded(o)
  BY <1>1 DEF DispatchInv, CallsInv, InsertDispatch
<1>3. Notional[o] = intent[o].notional /\ Notional[o] \in Nat /\ Notional' = Notional
  <2>1. intent[o] \in Intent
    BY <1>2, PositiveQuantity DEF DispatchInv, OrdersInv
  <2>2. QED
    BY <1>1, <1>2, <2>1, IntentAssumption DEF Notional
<1>4. OrdersKeep
  BY <1>1, <1>2, DispatchJournal
<1> HIDE DEF r, o
<1>5. \A d \in Order : d # o => (IsReserved(d)' <=> IsReserved(d))
  BY <1>1, <1>2 DEF IsReserved, DispatchInv, DispatchTypeOK
<1>6. IsFiniteSet({d \in Order : IsReserved(d)'})
  <2> DEFINE X == {d \in Order : IsReserved(d)}
  <2>1. IsFiniteSet(X \cup {o})
    BY FS_AddElement DEF LimitInv
  <2>2. {d \in Order : IsReserved(d)'} \subseteq X \cup {o}
    BY <1>5
  <2>3. QED
    BY <2>1, <2>2, FS_Subset
<1>7. ASSUME NEW a \in Account PROVE SumOver(Counted(a)', Notional') <= MaxAccountNotional
  <2> DEFINE S == Counted(a)
             R == Counted(a)'
             g == Notional
  <2>1. IsFiniteSet(S) /\ \A d \in S : g[d] \in Nat
    BY CountedFacts
  <2>2. SumOver(S, g) <= MaxAccountNotional /\ SumOver(S, g) \in Nat
    <3>1. SumOver(S, g) <= MaxAccountNotional
      BY DEF LimitInv
    <3> HIDE DEF S, g
    <3>2. QED
      BY <2>1, <3>1, SumLaws
  <2>3. \A d \in R : d \in S \/ d = o
    <3> SUFFICES ASSUME NEW d \in R, d # o PROVE d \in S
      OBVIOUS
    <3>1. d \in Order /\ Acct(d) = a /\ IsReserved(d) /\ IsActive(order'[d])
      BY <1>5 DEF Counted, Acct
    <3>2. QED
      BY <1>4, <3>1, CountedKept DEF Counted
  <2>4. Acct(o) # a => o \notin R
    BY DEF Counted, Acct
  <2>5. o \notin S
    BY <1>1 DEF Counted
  <2>6. Acct(o) = a => SumOver(S, g) + g[o] <= MaxAccountNotional
    BY <1>1, <1>3 DEF ActiveReservedNotional, Counted, Notional
  <2>7. g[o] \in Nat /\ Notional' = g
    BY <1>3
  <2> HIDE DEF R, S, g
  <2>8. CASE o \in R
    <3> DEFINE T == S \cup {o}
    <3>1. IsFiniteSet(T) /\ (\A d \in T : g[d] \in Nat) /\ o \in T /\ T \ {o} = S
      BY <2>1, <2>5, <2>7, FS_AddElement
    <3>2. R \in SUBSET T
      BY <2>3
    <3> HIDE DEF T
    <3>3. SumOver(T, g) = g[o] + SumOver(T \ {o}, g)
      BY <3>1, SumLaws
    <3>4. SumOver(T \ {o}, g) = SumOver(S, g)
      BY <3>1, Zenon
    <3>5. SumOver(R, g) <= SumOver(T, g)
      <4>1. \A d \in R : g[d] \in Nat /\ g[d] <= g[d]
        BY <3>1, <3>2
      <4>2. QED
        BY <3>1, <3>2, <4>1, SumMonotone
    <3>6. SumOver(R, g) \in Nat
      <4>1. IsFiniteSet(R) /\ \A d \in R : g[d] \in Nat
        BY <3>1, <3>2, FS_Subset
      <4>2. QED
        BY <4>1, SumLaws
    <3>7. SumOver(R, g) <= MaxAccountNotional
      BY <2>2, <2>4, <2>6, <2>7, <2>8, <3>3, <3>4, <3>5, <3>6, LimitAssumption
    <3>8. QED
      BY <2>7, <3>7 DEF R
  <2>9. CASE o \notin R
    <3>1. R \in SUBSET S
      BY <2>3, <2>9
    <3>2. \A d \in R : g[d] \in Nat /\ g[d] <= g[d]
      BY <2>1, <3>1
    <3>3. SumOver(R, g) <= SumOver(S, g)
      BY <2>1, <3>1, <3>2, SumMonotone
    <3>4. SumOver(R, g) \in Nat
      <4>1. IsFiniteSet(R) /\ \A d \in R : g[d] \in Nat
        BY <2>1, <3>1, FS_Subset
      <4>2. QED
        BY <4>1, SumLaws
    <3>5. SumOver(R, g) <= MaxAccountNotional
      BY <2>2, <3>3, <3>4, LimitAssumption
    <3>6. QED
      BY <2>7, <3>5 DEF R
  <2>10. QED
    BY <2>8, <2>9
<1>8. QED
  BY <1>6, <1>7 DEF LimitInv

LEMMA InitLimit == DispatchInit => LimitInv
<1> SUFFICES ASSUME DispatchInit PROVE LimitInv
  OBVIOUS
<1>1. \A o \in Order : ~IsReserved(o)
  BY DEF DispatchInit, IsReserved
<1>2. {o \in Order : IsReserved(o)} = {}
  BY <1>1
<1>3. \A a \in Account : Counted(a) = {}
  BY <1>1 DEF Counted
<1>4. SumOver({}, Notional) = 0
  BY SumLaws, FS_EmptySet
<1>5. \A a \in Account : SumOver(Counted(a), Notional) = 0
  BY <1>3, <1>4, Zenon
<1>6. QED
  BY <1>2, <1>5, FS_EmptySet, LimitAssumption DEF LimitInv

LEMMA NextLimit == DispatchInv /\ LimitInv /\ [DispatchNext]_vars => LimitInv'
<1> SUFFICES ASSUME DispatchInv, LimitInv, [DispatchNext]_vars PROVE LimitInv'
  OBVIOUS
<1>1. ASSUME NEW o \in Order, NEW i \in Intent, Register(o, i) PROVE LimitInv'
  BY <1>1, RegisterJournal, LimitKept DEF Register, dispatchVars
<1>2. ASSUME NEW t \in Thread, Authorize(t) PROVE LimitInv'
  BY <1>2, LimitAuthorize
<1>3. ASSUME NEW t \in Thread, RecordReply(t) PROVE LimitInv'
  BY <1>3, ReplyJournal, LimitKept DEF RecordReply
<1>4. ASSUME NEW o \in Order, NEW l \in lookups, Reconcile(o, l) PROVE LimitInv'
  BY <1>4, ReconcileJournal, LimitKept DEF Reconcile
<1>5. CASE UNCHANGED journalVars /\ UNCHANGED reservation
  BY <1>5, JournalUnchanged, LimitKept
<1>6. ASSUME NEW t \in Thread, (\E o \in Order : BeginSubmit(t, o)) \/ WriteToVenue(t) \/ GiveUp(t)
      PROVE  UNCHANGED journalVars /\ UNCHANGED reservation
  BY <1>6 DEF BeginSubmit, WriteToVenue, GiveUp
<1>7. CASE \/ \E o \in Order, n \in 1..MaxOrderQuantity : VenueFills(o, n)
           \/ \E a \in Account : TakeLookup(a)
           \/ \E p \in Process : CrashWithCalls(p)
           \/ AuthorityStep
           \/ UNCHANGED vars
  BY <1>5, <1>7 DEF VenueFills, TakeLookup, CrashWithCalls, AuthorityStep, dispatchVars, vars
<1>8. QED
  BY <1>1, <1>2, <1>3, <1>4, <1>5, <1>6, <1>7 DEF DispatchNext

LEMMA LimitSound == DispatchSpec => [](DispatchInv /\ VenueInv /\ LimitInv)
  BY InitDispatch, NextDispatch, InitVenue, NextVenue, InitLimit, NextLimit, PTL DEF DispatchSpec

\* activeReservedNotional bounds what the venue may still fill: an order that
\* works there counts, through lost replies, late lookups and crashes, and the
\* sum of those that count never exceeds the account limit.
THEOREM ExposureBounded == DispatchSpec => []ExposureIsCovered
<1>1. DispatchInv /\ VenueInv /\ LimitInv => ExposureIsCovered
  <2> SUFFICES ASSUME DispatchInv, VenueInv, LimitInv
               PROVE  ExposureIsReserved /\ ExposureWithinLimit
    BY DEF ExposureIsCovered
  <2>1. ExposureIsReserved
    BY WorkingCounts DEF ExposureIsReserved
  <2>2. ASSUME NEW a \in Account
        PROVE  SumOver({o \in Order : Acct(o) = a /\ venue[o].accepted
                                      /\ FilledAtVenue(o) < intent[o].qty},
                       Notional) <= MaxAccountNotional
    <3> DEFINE R == {o \in Order : Acct(o) = a /\ venue[o].accepted
                                   /\ FilledAtVenue(o) < intent[o].qty}
               S == Counted(a)
               g == Notional
    <3>1. R \in SUBSET S
      BY WorkingCounts DEF Counted
    <3>2. IsFiniteSet(S) /\ \A o \in S : g[o] \in Nat
      BY CountedFacts
    <3>3. SumOver(S, g) <= MaxAccountNotional
      BY DEF LimitInv
    <3> HIDE DEF R, S, g
    <3>4. \A o \in R : g[o] \in Nat /\ g[o] <= g[o]
      BY <3>1, <3>2
    <3>5. SumOver(R, g) <= SumOver(S, g)
      BY <3>1, <3>2, <3>4, SumMonotone
    <3>6. SumOver(R, g) \in Nat /\ SumOver(S, g) \in Nat
      <4>1. IsFiniteSet(R)
        BY <3>1, <3>2, FS_Subset
      <4>2. QED
        BY <3>2, <3>4, <4>1, SumLaws
    <3>7. SumOver(R, g) <= MaxAccountNotional
      BY <3>3, <3>5, <3>6, LimitAssumption
    <3>8. QED
      BY <3>7 DEF R, g
  <2>3. ExposureWithinLimit
    BY <2>2 DEF ExposureWithinLimit, Notional
  <2>4. QED
    BY <2>1, <2>3
<1>2. QED
  BY <1>1, LimitSound, PTL
=============================================================================
