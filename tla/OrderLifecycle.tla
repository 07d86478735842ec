--------------------------- MODULE OrderLifecycle ---------------------------
(***************************************************************************)
(* The order state machine of internal/orderdomain/order.go: which events  *)
(* an order accepts in which state, and the state each one leads to.  The  *)
(* journal stores events only; every reader rebuilds the state by replay,  *)
(* so this operator is the meaning of the stored data.                     *)
(*                                                                         *)
(* Quantities are whole shares (validOrderInteger).  A state keeps at most *)
(* one provider reference, as bindProviderOrderRef does; NEW and NONE are   *)
(* the zero values of its status and of its pending command.               *)
(***************************************************************************)
EXTENDS Integers

CONSTANTS
    NoRef,      \* no provider order is known yet
    NoExec      \* the event carries no provider execution

EventType ==
    {"INTENT_RECORDED", "RISK_APPROVED", "RISK_REJECTED",
     "SUBMIT_DISPATCHED", "SUBMIT_ACKNOWLEDGED", "SUBMIT_REJECTED",
     "FILL_RECORDED",
     "CANCEL_DISPATCHED", "CANCEL_ACKNOWLEDGED", "CANCEL_REJECTED"}

Status ==
    {"NEW", "RECORDED", "READY", "RISK_REJECTED", "SUBMIT_UNKNOWN", "REJECTED",
     "OPEN", "PARTIALLY_FILLED", "FILLED", "CANCEL_UNKNOWN", "CANCELED"}

Pending == {"NONE", "SUBMIT", "CANCEL"}

NewState == [status |-> "NEW", filled |-> 0, ref |-> NoRef, pending |-> "NONE"]

Binds(s, ref) == s.ref \in {NoRef, ref}

Fillable ==
    {"SUBMIT_UNKNOWN", "OPEN", "PARTIALLY_FILLED", "CANCEL_UNKNOWN", "CANCELED"}

\* The error returns of Transition: does state s of an order for q shares
\* accept event e?
Accepts(q, s, e) ==
    \/ e.type = "INTENT_RECORDED" /\ s.status = "NEW"
    \/ e.type \in {"RISK_APPROVED", "RISK_REJECTED"} /\ s.status = "RECORDED"
    \/ e.type = "SUBMIT_DISPATCHED" /\ s.status = "READY" /\ s.pending = "NONE"
    \/ /\ e.type = "SUBMIT_ACKNOWLEDGED"
       /\ s.status = "SUBMIT_UNKNOWN" /\ s.pending = "SUBMIT"
       /\ Binds(s, e.ref)
    \/ /\ e.type = "SUBMIT_REJECTED"
       /\ s.status = "SUBMIT_UNKNOWN" /\ s.pending = "SUBMIT"
    \/ /\ e.type = "FILL_RECORDED"
       /\ s.status \in Fillable
       /\ e.qty > 0
       /\ Binds(s, e.ref)
       /\ s.filled + e.qty <= q
    \/ /\ e.type = "CANCEL_DISPATCHED"
       /\ s.status \in {"OPEN", "PARTIALLY_FILLED"} /\ s.pending = "NONE"
    \/ /\ e.type \in {"CANCEL_ACKNOWLEDGED", "CANCEL_REJECTED"}
       /\ s.pending = "CANCEL" /\ s.status \in {"CANCEL_UNKNOWN", "FILLED"}

\* Broken StatusAfterFill: the cancel is looked at before the quantity.
CancelBeatsFill(q, status, f) ==
    IF status \in {"CANCEL_UNKNOWN", "CANCELED"} THEN status
    ELSE IF f = q THEN "FILLED" ELSE "PARTIALLY_FILLED"

\* Broken StatusAfterFill: a late fill puts a canceled order back to work.
FillRevivesCanceled(q, status, f) ==
    IF f = q THEN "FILLED"
    ELSE IF status = "CANCEL_UNKNOWN" THEN status ELSE "PARTIALLY_FILLED"

\* The status a fill leaves behind when f of q shares are then filled: a full
\* order is FILLED whatever was asked of it, a cancel outcome is not undone.
StatusAfterFill(q, status, f) ==
    IF f = q THEN "FILLED"
    ELSE IF status \in {"CANCEL_UNKNOWN", "CANCELED"} THEN status
    ELSE "PARTIALLY_FILLED"

\* A refused cancel leaves the order as working as its fills say.
StatusAfterRefusedCancel(q, f) ==
    IF f = q THEN "FILLED" ELSE IF f = 0 THEN "OPEN" ELSE "PARTIALLY_FILLED"

\* The state an accepted event leads to.
Transition(q, s, e) ==
    CASE e.type = "INTENT_RECORDED"     -> [s EXCEPT !.status = "RECORDED"]
      [] e.type = "RISK_APPROVED"       -> [s EXCEPT !.status = "READY"]
      [] e.type = "RISK_REJECTED"       -> [s EXCEPT !.status = "RISK_REJECTED"]
      [] e.type = "SUBMIT_DISPATCHED"   -> [s EXCEPT !.status = "SUBMIT_UNKNOWN",
                                                     !.pending = "SUBMIT"]
      [] e.type = "SUBMIT_ACKNOWLEDGED" -> [s EXCEPT !.status = "OPEN",
                                                     !.pending = "NONE",
                                                     !.ref = e.ref]
      [] e.type = "SUBMIT_REJECTED"     -> [s EXCEPT !.status = "REJECTED",
                                                     !.pending = "NONE"]
      [] e.type = "FILL_RECORDED"       ->
            [status  |-> StatusAfterFill(q, s.status, s.filled + e.qty),
             filled  |-> s.filled + e.qty,
             ref     |-> e.ref,
             pending |-> IF s.pending = "SUBMIT" THEN "NONE" ELSE s.pending]
      [] e.type = "CANCEL_DISPATCHED"   -> [s EXCEPT !.status = "CANCEL_UNKNOWN",
                                                     !.pending = "CANCEL"]
      [] e.type = "CANCEL_ACKNOWLEDGED" ->
            [s EXCEPT !.pending = "NONE",
                      !.status = IF s.filled = q THEN "FILLED" ELSE "CANCELED"]
      [] e.type = "CANCEL_REJECTED"     ->
            [s EXCEPT !.pending = "NONE",
                      !.status = StatusAfterRefusedCancel(q, s.filled)]

\* Broken IsActive: the first fill ends the reservation.
ActiveUntilFirstFill(s) ==
    s.pending # "NONE" \/ s.status \in {"SUBMIT_UNKNOWN", "OPEN", "CANCEL_UNKNOWN"}

\* A reservation still counts against the account limit: reservationIsActive.
IsActive(s) ==
    \/ s.pending # "NONE"
    \/ s.status \in {"SUBMIT_UNKNOWN", "OPEN", "PARTIALLY_FILLED", "CANCEL_UNKNOWN"}

\* The states a dispatched order can be in: validateAuthorizedReservation
\* refuses a reservation whose order is in any other.
PostDispatch ==
    {"SUBMIT_UNKNOWN", "OPEN", "PARTIALLY_FILLED", "CANCEL_UNKNOWN",
     "REJECTED", "FILLED", "CANCELED"}
=============================================================================
