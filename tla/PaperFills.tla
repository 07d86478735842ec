----------------------------- MODULE PaperFills -----------------------------
(***************************************************************************)
(* Paper trading of one account against stored market bars.                *)
(*                                                                         *)
(*    paper_market_data.go    bars are stored; a signal is recorded on the *)
(*                            newest bar of its symbol                     *)
(*    paper_runner.go         a signal becomes at most one order, and an   *)
(*                            order is filled from later bars              *)
(*    paper_accounting.go     cash and positions are never stored: they    *)
(*                            are replayed from the fills                  *)
(*    internal/paperdomain    how much of a bar a fill takes and its price *)
(*                                                                         *)
(* Cash, prices, fees and shares are whole numbers; the volume of a bar is *)
(* already cut to the part of it the policy lets the account take.         *)
(***************************************************************************)
EXTENDS Integers, FiniteSets, Sequences, FiniteSetsExt

CONSTANTS
    Symbol,
    BarKind,        \* the bars the market may bring: [open, capacity]
    Target,         \* the positions a strategy may ask for
    StartingCash, Fee, Slip, Tax,
    DelayBars,      \* the bar after the signal that is filled first
    MaxBars,        \* bound on the bars of a symbol
    MaxOrders       \* bound on the signals recorded

ASSUME PaperAssumption ==
    /\ BarKind \subseteq [open: Nat \ {0}, capacity: Nat]
    /\ Target \subseteq Nat
    /\ {StartingCash, Fee, Tax, MaxBars, MaxOrders} \subseteq Nat
    /\ DelayBars \in Nat \ {0}
    /\ Slip \in Nat /\ \A k \in BarKind : Slip < k.open

VARIABLES
    bars,       \* the stored bars in the order of their sequence
    signals,    \* the recorded signals
    orders,     \* the orders, each for one signal
    fills       \* the fills of all orders in the order of their sequence

paperVars == <<bars, signals, orders, fills>>

Side == {"BUY", "SELL"}

Bar == [symbol: Symbol, close: Nat, open: Nat, capacity: Nat]
Signal == [bar: Nat, symbol: Symbol, target: Nat, selection: Nat, cutoff: Nat]
Order == [signal: Nat, symbol: Symbol, side: Side, quantity: Nat \ {0}, after: Nat]
Fill == [order: Nat, bar: Nat, quantity: Nat \ {0}, cash: Int, fence: Nat]

FillsTypeOK ==
    /\ bars \in Seq(Bar)
    /\ signals \in Seq(Signal)
    /\ orders \in Seq(Order)
    /\ fills \in Seq(Fill)
    /\ \A f \in DOMAIN fills : fills[f].order \in DOMAIN orders /\ fills[f].bar \in DOMAIN bars

-----------------------------------------------------------------------------
(* The account as it is replayed from the fills fs *)

SharesIn(fs, F) == MapThenSumSet(LAMBDA f : fs[f].quantity, F)

Filled(fs, o) == SharesIn(fs, {f \in DOMAIN fs : fs[f].order = o})

\* What the orders of the account have taken from bar b.
Consumed(fs, b) == SharesIn(fs, {f \in DOMAIN fs : fs[f].bar = b})

Traded(fs, s, side) ==
    SharesIn(fs, {f \in DOMAIN fs : orders[fs[f].order].symbol = s /\ orders[fs[f].order].side = side})

Position(fs, s) == Traded(fs, s, "BUY") - Traded(fs, s, "SELL")

Cash(fs) == StartingCash + MapThenSumSet(LAMBDA f : fs[f].cash, DOMAIN fs)

IsOpen(o) == Filled(fills, o) < orders[o].quantity

OpenOrders(s) == {o \in DOMAIN orders : orders[o].symbol = s /\ IsOpen(o)}

\* What the account will hold when its open order is done.
Projected(s) ==
    Position(fills, s) + MapThenSumSet(
        LAMBDA o : (IF orders[o].side = "BUY" THEN 1 ELSE -1) * (orders[o].quantity - Filled(fills, o)),
        OpenOrders(s))

-----------------------------------------------------------------------------
(* One fill *)

Series(s) == {b \in DOMAIN bars : bars[b].symbol = s}

\* The bars of its symbol that came after the signal was recorded, from the
\* DelayBars-th on.
FillBars(o) ==
    LET later == {b \in Series(orders[o].symbol) : b > signals[orders[o].signal].cutoff}
    IN  {b \in later : Cardinality({c \in later : c < b}) >= DelayBars - 1}

UsedBars(fs, o) == {fs[f].bar : f \in {g \in DOMAIN fs : fs[g].order = o}}

Price(o, b) == IF orders[o].side = "BUY" THEN bars[b].open + Slip ELSE bars[b].open - Slip

\* Broken Affordable: the fee is forgotten.
AffordableWithoutFee(cash, price) == cash \div price

Affordable(cash, price) == IF cash < Fee THEN 0 ELSE (cash - Fee) \div price

\* The shares order o can take from bar b after the fills fs.
FillQuantity(fs, o, b) ==
    Min({bars[b].capacity - Consumed(fs, b),
         orders[o].quantity - Filled(fs, o),
         IF orders[o].side = "BUY" THEN Affordable(Cash(fs), Price(o, b))
                                   ELSE Position(fs, orders[o].symbol)})

\* What a fill of q shares does to the cash.
CashDelta(o, b, q) ==
    IF orders[o].side = "BUY" THEN -(q * Price(o, b) + Fee)
    ELSE q * Price(o, b) - Fee - q * Tax

\* The bars of B that would fill something of order o after the fills fs.
Candidates(fs, o, B) == {b \in B \ UsedBars(fs, o) : FillQuantity(fs, o, b) > 0}

\* Broken Choice: the newest bar is taken.
ChoiceOfNewest(C) == Max(C)

\* The bar that is filled: the oldest.
Choice(C) == Min(C)

FillAt(fs, o, B, token) ==
    LET b == Choice(Candidates(fs, o, B))
        q == FillQuantity(fs, o, b)
    IN  [order |-> o, bar |-> b, quantity |-> q, cash |-> CashDelta(o, b, q), fence |-> token]

\* A sale that costs more than it brings is an error and not a smaller fill.
IsPayable(fill) == orders[fill.order].side = "SELL" => fill.cash >= 0

BarsThrough(o, close) == {b \in FillBars(o) : bars[b].close <= close}

\* runPaperOrderThroughCloseWithClaim has something to fill.
CanFill(o, close) == IsOpen(o) /\ Candidates(fills, o, BarsThrough(o, close)) # {}

\* Its fill, written under the execution lease with this token.  The proposed
\* journal is replayed before the commit.
FillOrder(o, close, token) ==
    /\ CanFill(o, close)
    /\ LET fill == FillAt(fills, o, BarsThrough(o, close), token)
       IN  /\ IsPayable(fill)
           /\ fills' = Append(fills, fill)
    /\ UNCHANGED <<bars, signals, orders>>

-----------------------------------------------------------------------------
(* Bars and signals *)

LastClose(s) == Max({0} \cup {bars[b].close : b \in Series(s)})

\* importPaperSnapshot stores only bars newer than the series has.
ImportBar(s, kind) ==
    /\ LastClose(s) < MaxBars
    /\ bars' = Append(bars, [symbol |-> s, close |-> LastClose(s) + 1,
                             open |-> kind.open, capacity |-> kind.capacity])
    /\ UNCHANGED <<signals, orders, fills>>

IsNewestBar(b) == \A c \in Series(bars[b].symbol) : c <= b

\* The signals recorded on bar b under one strategy selection.
SignalsFor(b, sel) == {i \in DOMAIN signals : signals[i].bar = b /\ signals[i].selection = sel}

\* What has to be traded to reach the target.
TargetDelta(s, target) == target - Projected(s)

\* An open order may stay, but not be crossed or replaced.
MayOrder(s, target) == OpenOrders(s) # {} => TargetDelta(s, target) = 0

\* recordPaperSignalEventTx: a new signal is recorded on the newest bar of its
\* symbol, with the bars it could have seen; a strategy says one thing about a
\* bar.
RecordSignal(b, target, sel) ==
    /\ SignalsFor(b, sel) = {}
    /\ Len(signals) < MaxOrders
    /\ IsNewestBar(b)
    /\ signals' = Append(signals, [bar |-> b, symbol |-> bars[b].symbol, target |-> target,
                                   selection |-> sel, cutoff |-> Len(bars)])

\* authorizePaperDispatchOnceTx: the order is authorized and open at once.
PlaceOrder(s, delta) ==
    orders' = Append(orders, [signal |-> Len(signals) + 1, symbol |-> s,
                              side |-> IF delta > 0 THEN "BUY" ELSE "SELL",
                              quantity |-> IF delta > 0 THEN delta ELSE -delta,
                              after |-> Len(fills)])

\* admitPaperSignalTx for a signal that is not there yet: a target that is not
\* reached becomes an order in the same transaction.
AdmitSignal(b, target, sel) ==
    LET s == bars[b].symbol
        delta == TargetDelta(s, target)
    IN  /\ RecordSignal(b, target, sel)
        /\ MayOrder(s, target)
        /\ IF delta = 0 THEN UNCHANGED orders ELSE PlaceOrder(s, delta)
        /\ UNCHANGED <<bars, fills>>

-----------------------------------------------------------------------------
(* The proof of recovery *)

\* replayPaperAccountingState accepts fill f: after the fills before it the
\* same bar comes first, with the same amounts.
FillReplays(f) ==
    LET before == SubSeq(fills, 1, f - 1)
        o == fills[f].order
    IN  /\ Candidates(before, o, FillBars(o)) # {}
        /\ fills[f] = FillAt(before, o, FillBars(o), fills[f].fence)

\* validatePaperIntentDeltas accepts order o: no other order of the symbol was
\* open, and it trades exactly what was missing to the target.
OrderReplays(o) ==
    LET before == SubSeq(fills, 1, orders[o].after)
        s == orders[o].symbol
    IN  /\ \A p \in 1..(o - 1) :
              orders[p].symbol = s => Filled(before, p) = orders[p].quantity
        /\ (IF orders[o].side = "BUY" THEN 1 ELSE -1) * orders[o].quantity
             = signals[orders[o].signal].target - Position(before, s)

PaperInit == bars = <<>> /\ signals = <<>> /\ orders = <<>> /\ fills = <<>>

PaperNext ==
    \/ \E s \in Symbol, kind \in BarKind : ImportBar(s, kind)
    \/ \E b \in DOMAIN bars, target \in Target : AdmitSignal(b, target, 1)
    \/ \E o \in DOMAIN orders, close \in 1..MaxBars : FillOrder(o, close, 1)

PaperSpec == PaperInit /\ [][PaperNext]_paperVars

-----------------------------------------------------------------------------
(* Properties *)

\* The journal is accepted by its replay: every fill and every order is what
\* the code would have written, although the replay knows all the bars stored
\* since and no close to stop at.
JournalReplays ==
    /\ \A f \in DOMAIN fills : FillReplays(f)
    /\ \A o \in DOMAIN orders : OrderReplays(o)

\* A bar fills one order of the account, once, so that what the policy lets
\* the account take of its volume is never taken twice.
OneFillPerBar ==
    \A f, g \in DOMAIN fills : fills[f].bar = fills[g].bar => f = g

\* Orders of several symbols spend the same cash, and no sequence of fills
\* makes the cash or a position negative, whatever the bars cost.
AccountIsSolvent ==
    /\ Cash(fills) >= 0
    /\ \A s \in Symbol : Position(fills, s) >= 0

\* The newest signal of symbol s.
NewestSignal(s) == Max({i \in DOMAIN signals : signals[i].symbol = s})

\* A symbol with no open order holds exactly what the last of its signals
\* asked for, and one with an open order is on its way there.
TargetIsReached ==
    \A s \in {signals[i].symbol : i \in DOMAIN signals} :
        /\ Cardinality(OpenOrders(s)) <= 1
        /\ Projected(s) = signals[NewestSignal(s)].target

\* No fill looks ahead: its bar was not known when the signal was recorded, and
\* it is not the bar of the signal.
NoFillFromKnownBar ==
    \A f \in DOMAIN fills :
        LET signal == signals[orders[fills[f].order].signal]
        IN  /\ fills[f].bar > signal.bar
            /\ bars[fills[f].bar].close > bars[signal.bar].close

\* What an account trades is what it was told and could pay for, at bars it
\* could not know (paper_runner.go paperFillUntil, internal/paperdomain
\* CalculateFill).
FillsAreFair == AccountIsSolvent /\ OneFillPerBar /\ TargetIsReached /\ NoFillFromKnownBar
=============================================================================
