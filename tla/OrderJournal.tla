---------------------------- MODULE OrderJournal ----------------------------
(***************************************************************************)
(* The order journal of order_state.go and migrations 002 and 004: orders  *)
(* registered once under an idempotency key, and insert-only event rows    *)
(* from which every reader replays the state.                              *)
(*                                                                         *)
(* Order is the set of idempotency keys (provider, mode, account and       *)
(* client_order_id), so AccountOf is part of the key.  `order' is the      *)
(* state a replay of `log' yields; the code recomputes it on each read.    *)
(* Every transaction is one step: the database is opened with              *)
(* _txlock=immediate and one connection, so writers are serialised.        *)
(***************************************************************************)
EXTENDS OrderLifecycle, Accounts, SequencesExt

CONSTANTS
    Order,
    AccountOf,      \* [Order -> Account]
    Intent,         \* what an order may ask for: [qty, notional] records
    NoIntent,
    EventId, ProviderRef, ExecRef

ASSUME AccountOfAssumption == AccountOf \in [Order -> Account]
ASSUME IntentAssumption ==
    /\ \A i \in Intent : i.qty \in Nat \ {0} /\ i.notional \in Nat
    /\ NoIntent \notin Intent
ASSUME NoneAssumption == NoRef \notin ProviderRef /\ NoExec \notin ExecRef

VARIABLES
    intent,     \* order_idempotency: the intent registered for each key
    order,      \* the state replayed from the event rows of each order
    log         \* order_events: the rows of each order, in sequence order

journalVars == <<intent, order, log>>

State == [status: Status, filled: Nat, ref: ProviderRef \cup {NoRef},
          pending: Pending]

JournalTypeOK ==
    /\ intent \in [Order -> Intent \cup {NoIntent}]
    /\ order \in [Order -> State]
    /\ DOMAIN log = Order

-----------------------------------------------------------------------------
(* Events as validateOrderEvent admits them: one shape per group of types. *)

PlainEvent(o, id, t) ==
    [order |-> o, id |-> id, type |-> t, ref |-> NoRef, exec |-> NoExec, qty |-> 0]

AckEvent(o, id, r) ==
    [PlainEvent(o, id, "SUBMIT_ACKNOWLEDGED") EXCEPT !.ref = r]

FillEvent(o, id, r, x, n) ==
    [PlainEvent(o, id, "FILL_RECORDED") EXCEPT !.ref = r, !.exec = x, !.qty = n]

Rows(o) == {log[o][i] : i \in DOMAIN log[o]}

AllRows == UNION {Rows(o) : o \in Order}

IsRecorded(o) == intent[o] # NoIntent

\* Broken HasUnresolvedOrder: only working orders count as unresolved.
HasWorkingOrder(a) ==
    \E o \in Order : AccountOf[o] = a /\ IsRecorded(o)
                     /\ order[o].status \in {"OPEN", "PARTIALLY_FILLED"}

\* accountHasUnresolvedOrder: a command of the account has no known outcome.
HasUnresolvedOrder(a) ==
    \E o \in Order : AccountOf[o] = a /\ IsRecorded(o) /\ order[o].pending # "NONE"

\* Broken IsInsertable: the transition is not tried before the insert.
InsertableUntried(e) ==
    /\ IsRecorded(e.order)
    /\ \A d \in AllRows : d.id # e.id
    /\ e.exec # NoExec => \A d \in AllRows : d.exec # e.exec
    /\ e.ref # NoRef => \A d \in AllRows : d.ref = e.ref => d.order = e.order

\* Broken IsInsertable: an execution is known by its event_id alone.
InsertableByIdOnly(e) ==
    /\ IsRecorded(e.order)
    /\ \A d \in AllRows : d.id # e.id
    /\ e.ref # NoRef => \A d \in AllRows : d.ref = e.ref => d.order = e.order
    /\ Accepts(intent[e.order].qty, order[e.order], e)

\* appendOrderEventTxMode inserts e: its event_id and its execution are new, a
\* provider order belongs to one local order, and the transition is legal.  An
\* event already stored with the same content returns the stored state, one
\* with a known id or execution and other content fails: neither makes a step.
IsInsertable(e) ==
    /\ IsRecorded(e.order)
    /\ \A d \in AllRows : d.id # e.id
    /\ e.exec # NoExec => \A d \in AllRows : d.exec # e.exec
    /\ e.type = "SUBMIT_DISPATCHED" => ~HasUnresolvedOrder(AccountOf[e.order])
    /\ e.ref # NoRef => \A d \in AllRows : d.ref = e.ref => d.order = e.order
    /\ Accepts(intent[e.order].qty, order[e.order], e)

\* Insert the row; a reader now replays one more transition.
Insert(e) ==
    /\ log' = [log EXCEPT ![e.order] = Append(@, e)]
    /\ order' = [order EXCEPT ![e.order] = Transition(intent[e.order].qty, @, e)]
    /\ UNCHANGED intent

-----------------------------------------------------------------------------
JournalInit ==
    /\ intent = [o \in Order |-> NoIntent]
    /\ order = [o \in Order |-> NewState]
    /\ log = [o \in Order |-> <<>>]

\* recordOrderIntent: a key already used returns the stored order when the
\* intent is the same and fails otherwise; both leave the journal as it is.
RecordIntent(o, i) ==
    LET e == PlainEvent(o, <<o, "INTENT_RECORDED">>, "INTENT_RECORDED")
    IN  /\ ~IsRecorded(o)
        /\ intent' = [intent EXCEPT ![o] = i]
        /\ log' = [log EXCEPT ![o] = Append(@, e)]
        /\ order' = [order EXCEPT ![o] = Transition(i.qty, @, e)]

\* The consecutive RISK_APPROVED and SUBMIT_DISPATCHED rows of an authorised
\* dispatch.  The triggers of migration 004 let no other writer add them.
InsertDispatch(o) ==
    LET risk == PlainEvent(o, <<o, "RISK_APPROVED">>, "RISK_APPROVED")
        sent == PlainEvent(o, <<o, "SUBMIT_DISPATCHED">>, "SUBMIT_DISPATCHED")
        q    == intent[o].qty
    IN  /\ IsRecorded(o)
        /\ order[o].status = "RECORDED" /\ order[o].pending = "NONE"
        /\ ~HasUnresolvedOrder(AccountOf[o])
        /\ log' = [log EXCEPT ![o] = @ \o <<risk, sent>>]
        /\ order' = [order EXCEPT ![o] = Transition(q, Transition(q, @, risk), sent)]
        /\ UNCHANGED intent

\* appendOrderEvent with an event the caller made up.
AppendEvent(e) ==
    /\ e.type \notin {"RISK_APPROVED", "SUBMIT_DISPATCHED"}
    /\ IsInsertable(e)
    /\ Insert(e)

CallerEvent ==
    {PlainEvent(o, id, t) : o \in Order, id \in EventId,
        t \in {"RISK_REJECTED", "SUBMIT_REJECTED", "CANCEL_DISPATCHED",
               "CANCEL_ACKNOWLEDGED", "CANCEL_REJECTED"}}
    \cup {AckEvent(o, id, r) : o \in Order, id \in EventId, r \in ProviderRef}
    \cup {FillEvent(o, id, r, x, n) : o \in Order, id \in EventId,
             r \in ProviderRef, x \in ExecRef, n \in {i.qty : i \in Intent} \cup {1}}

JournalNext ==
    \/ \E o \in Order, i \in Intent : RecordIntent(o, i)
    \/ \E o \in Order : InsertDispatch(o)
    \/ \E e \in CallerEvent : AppendEvent(e)

JournalSpec == JournalInit /\ [][JournalNext]_journalVars

\* The states that replaying rows leads an order for q shares through, as
\* loadOrderStateFrom applies one transition per row.
StatesOf(q, rows) ==
    LET state[n \in 0..Len(rows)] ==
            IF n = 0 THEN NewState ELSE Transition(q, state[n - 1], rows[n])
    IN  state

\* The shares that rows say are filled.
FilledBy(rows) ==
    LET sum[n \in 0..Len(rows)] == IF n = 0 THEN 0 ELSE sum[n - 1] + rows[n].qty
    IN  sum[Len(rows)]

-----------------------------------------------------------------------------
(* Properties *)

\* Replaying the stored rows of an order, as loadOrderStateFrom does on every
\* read, meets no illegal transition and ends in the state the writers checked
\* their guards against: no accepted write can make an order unreadable.
Replays(o) ==
    LET q == intent[o].qty
        states == StatesOf(q, log[o])
    IN  /\ \A n \in DOMAIN log[o] : Accepts(q, states[n - 1], log[o][n])
        /\ states[Len(log[o])] = order[o]

EveryOrderReplays == \A o \in Order : IsRecorded(o) => Replays(o)

\* The filled quantity is exactly what the distinct execution rows add up to,
\* never more than was ordered, and FILLED says precisely that nothing is
\* left -- through partial fills, fills that race a cancel and fills that
\* arrive after it was acknowledged.
FillsAddUp ==
    \A o \in Order : IsRecorded(o) =>
        /\ order[o].filled = FilledBy(log[o])
        /\ order[o].filled <= intent[o].qty
        /\ order[o].status = "FILLED" <=> order[o].filled = intent[o].qty

\* No execution of the provider is stored twice, under any order or event_id:
\* redelivered and re-identified fills cannot be counted again.
ExecutionRecordedOnce ==
    \A o1, o2 \in Order :
        \A i \in DOMAIN log[o1], j \in DOMAIN log[o2] :
            /\ log[o1][i].exec # NoExec
            /\ log[o1][i].exec = log[o2][j].exec
            => o1 = o2 /\ i = j

\* Two local orders are never bound to the same provider order, whichever of
\* acknowledgement and fill bound it first, and the binding in the replayed
\* state is the one in every row.
ProviderOrderBoundOnce ==
    \A e, d \in AllRows :
        e.ref # NoRef =>
            /\ order[e.order].ref = e.ref
            /\ e.ref = d.ref => e.order = d.order

\* At most one submit of an account has an unknown outcome: while one is in
\* flight no other order of the account can be dispatched.
OneSubmitInFlight ==
    \A o1, o2 \in Order :
        /\ AccountOf[o1] = AccountOf[o2]
        /\ order[o1].pending = "SUBMIT" /\ order[o2].pending = "SUBMIT"
        => o1 = o2

\* A dispatched order that stopped counting against the account limit never
\* counts again.  Without it the limit, which is only checked at dispatch,
\* could be passed later by a fill or a cancel outcome that revives an order.
SettledStaysSettled ==
    [][\A o \in Order :
          order[o].status \in PostDispatch /\ ~IsActive(order[o])
          => order'[o].status \in PostDispatch /\ ~IsActive(order'[o])]_journalVars
=============================================================================
