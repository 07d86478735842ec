--------------------------- MODULE OrderDispatch ---------------------------
(***************************************************************************)
(* The life of a real-broker order: submitAuthorizedLimitOrder in          *)
(* kiwoom_order_transport.go, authorizeSyntheticDispatchOnceTx with its    *)
(* risk reservations, and reconcileKiwoomOrderLookup, running in several   *)
(* processes over one database and one venue.                              *)
(*                                                                         *)
(* A submit is not atomic: preflight, the authorising transaction, the     *)
(* write to the venue and the transaction that records the reply are four  *)
(* steps, and a process may stop between any two.  The venue is external:  *)
(* what it does is read off how the transport treats its replies.          *)
(***************************************************************************)
EXTENDS OrderJournal, ExecutionAuthority, FiniteSets

CONSTANTS
    Thread,             \* calls of submitAuthorizedLimitOrder
    OwnerOf,            \* [Thread -> Process]
    RefOf,              \* the alias of the provider's order number
    MaxOrderQuantity,   \* syntheticMaxOrderQuantity
    MaxOrderNotional,   \* syntheticMaxOrderNotional
    MaxAccountNotional, \* syntheticMaxAccountNotional
    NoReservation, NoOrder,
    MaxLookups          \* bound on the lookups taken

ASSUME ThreadAssumption == OwnerOf \in [Thread -> Process]
ASSUME RefAssumption ==
    /\ RefOf \in [Order -> ProviderRef]
    /\ \A o, d \in Order : RefOf[o] = RefOf[d] => o = d
ASSUME LimitAssumption ==
    /\ MaxOrderQuantity \in Nat /\ MaxOrderNotional \in Nat
    /\ MaxAccountNotional \in Nat /\ MaxLookups \in Nat
ASSUME NoOrderAssumption == NoOrder \notin Order
ASSUME NoExecAssumption == NoExec \notin Order \X Nat
ASSUME NoReservationAssumption == NoReservation \notin [token: Nat \ {0}, at: Nat]

VARIABLES
    reservation,    \* risk_reservations: at most one for each order
    thread,         \* where each submit call stands
    sent,           \* how often the order was written to the venue
    venue,          \* the executions of each order at the venue, or NotThere
    lookups         \* order lookups taken from the venue

dispatchVars == <<reservation, thread, sent, venue, lookups>>

vars == <<journalVars, authorityVars, dispatchVars>>

NotThere == [accepted |-> FALSE, fills |-> <<>>]

Idle == [pc |-> "idle", order |-> NoOrder, token |-> 0, reply |-> "none"]

ThreadState ==
    [pc: {"idle", "preflight", "submit", "record"}, order: Order \cup {NoOrder},
     token: Nat, reply: {"none", "acknowledged", "rejected", "unknown"}]

Reservation == [token: Nat \ {0}, at: Nat]

Lookup == [account: Account, at: Nat, seen: [Order -> Nat]]

DispatchTypeOK ==
    /\ JournalTypeOK
    /\ AuthorityTypeOK
    /\ reservation \in [Order -> Reservation \cup {NoReservation}]
    /\ thread \in [Thread -> ThreadState]
    /\ sent \in [Order -> Nat]
    /\ venue \in [Order -> [accepted: BOOLEAN, fills: Seq(Nat \ {0})]]
    /\ lookups \subseteq Lookup

IsReserved(o) == reservation[o] # NoReservation

Acct(o) == AccountOf[o]

-----------------------------------------------------------------------------
(* Authorisation *)

\* validateSyntheticBuyPolicy
WithinOrderPolicy(o) ==
    /\ intent[o].qty <= MaxOrderQuantity
    /\ intent[o].notional <= MaxOrderNotional

\* activeReservedNotional
ActiveReservedNotional(a) ==
    SumOver({o \in Order : Acct(o) = a /\ IsReserved(o) /\ IsActive(order[o])},
            [o \in Order |-> intent[o].notional])

\* Every check authorizeSyntheticDispatchOnceTx makes before it writes, for
\* process p and the token its caller holds.
MayDispatch(p, o, token) ==
    /\ ~IsReserved(o)
    /\ order[o].status = "RECORDED" /\ order[o].pending = "NONE"
    /\ WithinOrderPolicy(o)
    /\ OwnsLease(p, Acct(o), token)
    /\ ~HasUnresolvedOrder(Acct(o))
    /\ ActiveReservedNotional(Acct(o)) + intent[o].notional <= MaxAccountNotional

\* The checks before the authorising transaction: the caller holds a token and
\* the intent is stored.  Credentials are then fetched from the venue.
BeginSubmit(t, o) ==
    LET p == OwnerOf[t]
    IN  /\ p \in alive
        /\ thread[t].pc = "idle"
        /\ held[p][Acct(o)] # 0
        /\ IsRecorded(o)
        /\ thread' = [thread EXCEPT ![t] =
               [Idle EXCEPT !.pc = "preflight", !.order = o, !.token = held[p][Acct(o)]]]
        /\ UNCHANGED <<reservation, sent, venue, lookups, journalVars, authorityVars>>

\* The call ends without a further write: preflight failed, the authorisation
\* was refused or found an earlier reservation, or the context was cancelled.
GiveUp(t) ==
    /\ thread[t].pc # "idle"
    /\ thread' = [thread EXCEPT ![t] = Idle]
    /\ UNCHANGED <<reservation, sent, venue, lookups, journalVars, authorityVars>>

\* authorizeSyntheticDispatchOnce: the reservation and both order events in
\* one transaction.  Only the call that wrote them goes on to the venue.
Authorize(t) ==
    LET o == thread[t].order
    IN  /\ thread[t].pc = "preflight"
        /\ MayDispatch(OwnerOf[t], o, thread[t].token)
        /\ reservation' = [reservation EXCEPT ![o] = [token |-> thread[t].token, at |-> now]]
        /\ InsertDispatch(o)
        /\ thread' = [thread EXCEPT ![t].pc = "submit"]
        /\ UNCHANGED <<sent, venue, lookups, authorityVars>>

-----------------------------------------------------------------------------
(* The venue *)

\* Broken WriteToVenue: a call without an outcome is made again.
WriteToVenueRetrying(t) ==
    LET o == thread[t].order
    IN  /\ thread[t].pc = "submit"
        /\ sent' = [sent EXCEPT ![o] = @ + 1]
        /\ sent[o] < 2
        /\ \/ /\ venue' = [venue EXCEPT ![o].accepted = TRUE]
              /\ thread' = [thread EXCEPT ![t].pc = "record", ![t].reply = "acknowledged"]
           \/ UNCHANGED <<venue, thread>>
        /\ UNCHANGED <<reservation, lookups, journalVars, authorityVars>>

\* SubmitLimitOrder: one write, never repeated.  The order may be accepted or
\* refused; a reply that is lost or not understood leaves the caller without
\* an outcome.
WriteToVenue(t) ==
    LET o == thread[t].order
    IN  /\ thread[t].pc = "submit"
        /\ sent' = [sent EXCEPT ![o] = @ + 1]
        /\ \/ /\ venue' = [venue EXCEPT ![o].accepted = TRUE]
              /\ \E reply \in {"acknowledged", "unknown"} :
                    thread' = [thread EXCEPT ![t].pc = "record", ![t].reply = reply]
           \/ /\ UNCHANGED venue
              /\ \E reply \in {"rejected", "unknown"} :
                    thread' = [thread EXCEPT ![t].pc = "record", ![t].reply = reply]
        /\ UNCHANGED <<reservation, lookups, journalVars, authorityVars>>

\* The shares of o that the venue filled so far.
FilledAtVenue(o) == SumOver(DOMAIN venue[o].fills, venue[o].fills)

\* The venue fills n more shares of an accepted order.
VenueFills(o, n) ==
    /\ venue[o].accepted
    /\ FilledAtVenue(o) + n <= intent[o].qty
    /\ venue' = [venue EXCEPT ![o].fills = Append(@, n)]
    /\ UNCHANGED <<reservation, thread, sent, lookups, journalVars, authorityVars>>

\* Record the reply; an unknown one leaves the order SUBMIT_UNKNOWN.
RecordReply(t) ==
    LET o == thread[t].order
    IN  /\ thread[t].pc = "record"
        /\ CASE thread[t].reply = "acknowledged" ->
                    AppendEvent(AckEvent(o, <<o, "SUBMIT_ACKNOWLEDGED">>, RefOf[o]))
             [] thread[t].reply = "rejected" ->
                    AppendEvent(PlainEvent(o, <<o, "SUBMIT_REJECTED">>, "SUBMIT_REJECTED"))
             [] OTHER -> UNCHANGED journalVars
        /\ thread' = [thread EXCEPT ![t] = Idle]
        /\ UNCHANGED <<reservation, sent, venue, lookups, authorityVars>>

-----------------------------------------------------------------------------
(* Reconciliation *)

\* A complete lookup of account a: the executions of each order so far.  It is
\* applied later, possibly after newer ones, possibly more than once.
TakeLookup(a) ==
    /\ Cardinality(lookups) < MaxLookups
    /\ lookups' = lookups \cup
           {[account |-> a, at |-> now,
             seen |-> [o \in Order |-> IF Acct(o) = a THEN Len(venue[o].fills) ELSE 0]]}
    /\ UNCHANGED <<reservation, thread, sent, venue, journalVars, authorityVars>>

\* reconciliationEvents: the event of the k-th execution of o, under an event_id
\* made from the order and the execution.
VenueFill(o, k) ==
    FillEvent(o, <<o, "FILL", k>>, RefOf[o], <<o, k>>, venue[o].fills[k])

\* Broken IsStored: no execution is recognised, all are appended again.
NeverStored(o, e) == FALSE

\* appendOrderEventTxMode finds the event_id among the rows of the order.
IsStored(o, e) == \E d \in Rows(o) : d.id = e.id

\* reconciliationEvents: the executions of o in the lookup, in venue order,
\* without those stored.
MissingFills(o, k) ==
    LET events[i \in 0..k] ==
            IF i = 0 THEN <<>>
            ELSE IF IsStored(o, VenueFill(o, i)) THEN events[i - 1]
            ELSE Append(events[i - 1], VenueFill(o, i))
    IN  events[k]

\* reconcileKiwoomOrderLookup: a lookup from before the dispatch is refused, a
\* submit without an outcome is never correlated, and all missing executions
\* of an order bound to its provider order are appended in one transaction.
Reconcile(o, l) ==
    LET missing == MissingFills(o, l.seen[o])
    IN  /\ IsReserved(o)
        /\ l.account = Acct(o)
        /\ l.at >= reservation[o].at
        /\ order[o].ref = RefOf[o]
        /\ order[o].status \in {"OPEN", "PARTIALLY_FILLED", "FILLED", "CANCEL_UNKNOWN", "CANCELED"}
        /\ missing # <<>>
        /\ \E n \in 1..(intent[o].qty - order[o].filled) :
              /\ n = FilledBy(missing)
              /\ order' = [order EXCEPT ![o] =
                     Transition(intent[o].qty, @, FillEvent(o, <<o, "FILL", 0>>, RefOf[o], <<o, 0>>, n))]
        /\ log' = [log EXCEPT ![o] = @ \o missing]
        /\ UNCHANGED <<intent, reservation, thread, sent, venue, lookups, authorityVars>>

-----------------------------------------------------------------------------
DispatchInit ==
    /\ JournalInit /\ AuthorityInit
    /\ reservation = [o \in Order |-> NoReservation]
    /\ thread = [t \in Thread |-> Idle]
    /\ sent = [o \in Order |-> 0]
    /\ venue = [o \in Order |-> NotThere]
    /\ lookups = {}

\* The order is entered.
Register(o, i) == RecordIntent(o, i) /\ UNCHANGED <<authorityVars, dispatchVars>>

\* A process dies with all its calls.
CrashWithCalls(p) ==
    /\ CrashProcess(p)
    /\ thread' = [t \in Thread |-> IF OwnerOf[t] = p THEN Idle ELSE thread[t]]
    /\ UNCHANGED <<history, now, reservation, sent, venue, lookups, journalVars>>

\* What the execution authority does meanwhile.
AuthorityStep ==
    /\ \/ \E a \in Account : Arm(a) \/ Halt(a)
       \/ \E p \in Process, a \in Account : AcquireLease(p, a)
       \/ Tick \/ SetBack
    /\ UNCHANGED <<journalVars, dispatchVars>>

DispatchNext ==
    \/ \E o \in Order, i \in Intent : Register(o, i)
    \/ \E t \in Thread, o \in Order : BeginSubmit(t, o)
    \/ \E t \in Thread : Authorize(t) \/ WriteToVenue(t) \/ RecordReply(t) \/ GiveUp(t)
    \/ \E o \in Order, n \in 1..MaxOrderQuantity : VenueFills(o, n)
    \/ \E a \in Account : TakeLookup(a)
    \/ \E o \in Order, l \in lookups : Reconcile(o, l)
    \/ \E p \in Process : CrashWithCalls(p)
    \/ AuthorityStep

DispatchSpec == DispatchInit /\ [][DispatchNext]_vars

-----------------------------------------------------------------------------
(* Properties *)

\* An order reaches the venue at most once, whatever replies were lost,
\* whichever processes crashed in the middle and however many calls tried.
SubmitAtMostOnce == \A o \in Order : sent[o] <= 1

\* A call that is about to write to the venue, or did, acts on an order that is
\* durably dispatched: a crash at any later point leaves a record of it.
DispatchIsDurableFirst ==
    /\ \A t \in Thread :
          thread[t].pc \in {"submit", "record"} => IsReserved(thread[t].order)
    /\ \A o \in Order :
          sent[o] > 0 => IsReserved(o) /\ order[o].status \in PostDispatch

\* Two calls never have writes of one account under way together, not even when
\* the lease was lost, halted or taken over after the first was authorised:
\* the unresolved order keeps the second out where the fence cannot.
InFlightExclusive ==
    \A t, u \in Thread :
        /\ t # u
        /\ thread[t].pc = "submit" /\ thread[u].pc \in {"submit", "record"}
        => Acct(thread[t].order) # Acct(thread[u].order)

\* What the venue may still fill of an account is covered by reservations that
\* count, so the account limit bounds the real exposure and not just the
\* journal's view of it: through lost replies, late lookups and crashes no
\* working order of the venue drops out of the sum.
ExposureIsReserved ==
    \A o \in Order :
        venue[o].accepted /\ FilledAtVenue(o) < intent[o].qty
        => IsReserved(o) /\ IsActive(order[o])

ExposureWithinLimit ==
    \A a \in Account :
        SumOver({o \in Order : Acct(o) = a /\ venue[o].accepted
                               /\ FilledAtVenue(o) < intent[o].qty},
                [o \in Order |-> intent[o].notional]) <= MaxAccountNotional

\* The fills of the journal are fills the venue made, each with its own
\* quantity, and none is there twice: applying old, repeated and reordered
\* lookups neither invents an execution nor counts one again.
FillsComeFromVenue ==
    \A o \in Order : \A i \in DOMAIN log[o] :
        log[o][i].type = "FILL_RECORDED" =>
            /\ \E k \in DOMAIN venue[o].fills :
                  log[o][i].exec = <<o, k>> /\ log[o][i].qty = venue[o].fills[k]
            /\ \A j \in DOMAIN log[o] : log[o][j].exec = log[o][i].exec => j = i

\* Each reservation names a lease record under which the order was dispatched
\* while that record was the newest, live and of the process that dispatched.
ReservationBackedByLease ==
    \A o \in Order : IsReserved(o) =>
        LET r == reservation[o]
        IN  /\ r.token <= Len(history[Acct(o)])
            /\ history[Acct(o)][r.token].reason = "lease_acquired"
            /\ r.at < history[Acct(o)][r.token].expires

\* Reservations of an account are written in fence order: once an order was
\* dispatched under some token, no process dispatches under an older one.
DispatchesInFenceOrder ==
    [][\A o, d \in Order :
          /\ IsReserved(o) /\ ~IsReserved(d) /\ IsReserved(d)'
          /\ Acct(o) = Acct(d)
          => reservation[o].token <= reservation'[d].token]_vars

\* The account limit of execution_authority.go activeReservedNotional bounds
\* what the venue may still fill.
ExposureIsCovered == ExposureIsReserved /\ ExposureWithinLimit
=============================================================================
