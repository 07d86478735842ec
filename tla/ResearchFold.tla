---------------------------- MODULE ResearchFold ----------------------------
(***************************************************************************)
(* SimulateFold of internal/researchdomain/fold.go: one strategy, or buy   *)
(* and hold, is played bar by bar over a window.  A bar first fills the    *)
(* order that is due, then the account is valued at its close, then the    *)
(* closes up to it may give the next order.                                *)
(*                                                                         *)
(* Prices, cash and shares are whole numbers; a bar is the part of its     *)
(* volume the policy lets the account take.  The metrics are derived from  *)
(* the fills.                                                              *)
(***************************************************************************)
EXTENDS Integers, FiniteSets, FiniteSetsExt, SequencesExt

CONSTANTS
    BarKind,                    \* the bars: [open, close, capacity]
    Warmup,                     \* bars that are only looked back at
    Length,                     \* all bars of the fold
    FastWindow, SlowWindow,
    Quantity,
    OpeningCash,                \* the starting cash
    Fee, Slip, Tax,
    DelayBars                   \* from a signal to the first bar that fills it

ASSUME FoldAssumption ==
    /\ BarKind \subseteq [open: Nat \ {0}, close: Nat \ {0}, capacity: Nat]
    /\ {Warmup, Fee, Slip, Tax} \subseteq Nat
    /\ {Length, FastWindow, SlowWindow, Quantity, OpeningCash, DelayBars} \subseteq Nat \ {0}
    /\ \A k \in BarKind : Slip < k.open
    /\ FastWindow < SlowWindow
    /\ Warmup < Length
    /\ Length - SlowWindow - 2 >= DelayBars

VARIABLES
    series,     \* the bars so far
    hold,       \* whether this is the buy-and-hold reference
    cash, position,
    pending,    \* the one order that may be open, or NoOrder
    peak,       \* the highest equity
    drawdown,   \* the largest loss from a peak: [loss, peak]
    trips,      \* completedRoundTrips
    trace,      \* the fills
    failed      \* whether a fill was refused with an error

foldVars == <<series, hold, cash, position, pending, peak, drawdown, trips, trace, failed>>

NoOrder == [side |-> "NONE", signal |-> 0, remaining |-> 0]

Order == [side: {"BUY", "SELL"}, signal: 1..Length, remaining: 1..Quantity]

Fill == [signal: 1..Length, at: 1..Length, side: {"BUY", "SELL"}, quantity: Nat \ {0}, price: Nat]

FoldTypeOK ==
    /\ series \in Seq(BarKind) /\ Len(series) <= Length
    /\ hold \in BOOLEAN /\ failed \in BOOLEAN
    /\ cash \in Nat /\ position \in 0..Quantity
    /\ pending \in Order \cup {NoOrder}
    /\ trace \in Seq(Fill)
    /\ drawdown.loss <= drawdown.peak

-----------------------------------------------------------------------------
(* SMACrossover *)

SumOf(bars, first, last) ==
    FoldLeft(LAMBDA sum, bar : sum + bar.close, 0, SubSeq(bars, first, last))

\* The sign of the fast average minus the slow one, both ending at bar i.
Spread(bars, i) ==
    SumOf(bars, i - FastWindow + 1, i) * SlowWindow - SumOf(bars, i - SlowWindow + 1, i) * FastWindow

Crossover(bars, i) ==
    CASE Spread(bars, i - 1) <= 0 /\ Spread(bars, i) > 0 -> "golden_cross"
      [] Spread(bars, i - 1) >= 0 /\ Spread(bars, i) < 0 -> "death_cross"
      [] OTHER -> "none"

-----------------------------------------------------------------------------
(* One bar *)

\* Broken IsDue: the bar that gave the signal fills it.
IsDueAtOnce(order, i) == order # NoOrder /\ i >= order.signal

IsDue(order, i) == order # NoOrder /\ i >= order.signal + DelayBars

Price(order, bar) == IF order.side = "BUY" THEN bar.open + Slip ELSE bar.open - Slip

\* CalculateFill of paperdomain: what `order' takes from `bar'.
FillQuantity(order, bar) ==
    Min({bar.capacity, order.remaining,
         IF order.side = "SELL" THEN position
         ELSE IF cash < Fee THEN 0 ELSE (cash - Fee) \div Price(order, bar)})

CashDelta(fill) ==
    IF fill.side = "BUY" THEN -(fill.quantity * fill.price + Fee)
    ELSE fill.quantity * fill.price - Fee - fill.quantity * Tax

\* The order that is left when q shares of it are filled.
Rest(order, q) ==
    IF q = order.remaining THEN NoOrder ELSE [order EXCEPT !.remaining = @ - q]

\* The last bar whose order still has a bar to fill it.
LiquidationBar == Length - DelayBars

\* The order after bar i, when `open' is what filling left of the one before
\* and `held' the position.
NextOrder(bars, i, open, held) ==
    LET Place(side, q) == [side |-> side, signal |-> i, remaining |-> q]
    IN  IF open # NoOrder \/ i > LiquidationBar THEN open
        ELSE CASE i = LiquidationBar -> IF held > 0 THEN Place("SELL", held) ELSE NoOrder
               [] i < LiquidationBar /\ hold ->
                     IF i = Warmup + 1 /\ held = 0 THEN Place("BUY", Quantity) ELSE NoOrder
               [] i < LiquidationBar /\ ~hold /\ i > SlowWindow ->
                     (CASE held = 0 /\ Crossover(bars, i) = "golden_cross" -> Place("BUY", Quantity)
                        [] held > 0 /\ Crossover(bars, i) = "death_cross" -> Place("SELL", held)
                        [] OTHER -> NoOrder)
               [] OTHER -> NoOrder

Peak(equity) == IF equity > peak THEN equity ELSE peak

\* The rest of the bar: value the account and give the next order.
CloseBar(bar, bars, open, money, held) ==
    LET i == Len(bars)
        equity == money + held * bar.close
        top == Peak(equity)
    IN  /\ peak' = top
        /\ drawdown' = IF (top - equity) * drawdown.peak > drawdown.loss * top
                       THEN [loss |-> top - equity, peak |-> top] ELSE drawdown
        /\ pending' = NextOrder(bars, i, open, held)

Warm(bar) ==
    /\ Len(series) < Warmup
    /\ series' = Append(series, bar)
    /\ UNCHANGED <<hold, cash, position, pending, peak, drawdown, trips, trace, failed>>

\* A bar without a fill.
PlayBar(bar) ==
    LET bars == Append(series, bar)
    IN  /\ Len(series) \in Warmup..(Length - 1)
        /\ ~failed
        /\ IsDue(pending, Len(bars)) => FillQuantity(pending, bar) = 0
        /\ series' = bars
        /\ CloseBar(bar, bars, pending, cash, position)
        /\ UNCHANGED <<hold, cash, position, trips, trace, failed>>

\* A bar that fills something; a sale that costs more than it brings ends the
\* fold with an error.
FillBar(bar) ==
    LET bars == Append(series, bar)
        fill == [signal |-> pending.signal, at |-> Len(bars), side |-> pending.side,
                 quantity |-> FillQuantity(pending, bar), price |-> Price(pending, bar)]
        rest == Rest(pending, fill.quantity)
        held == position + (IF fill.side = "BUY" THEN fill.quantity ELSE -fill.quantity)
    IN  /\ Len(series) \in Warmup..(Length - 1)
        /\ ~failed
        /\ IsDue(pending, Len(bars)) /\ fill.quantity > 0
        /\ series' = bars
        /\ IF fill.side = "SELL" /\ CashDelta(fill) < 0
           THEN /\ failed' = TRUE
                /\ UNCHANGED <<cash, position, pending, peak, drawdown, trips, trace>>
           ELSE /\ cash' = cash + CashDelta(fill)
                /\ position' = held
                /\ trips' = IF rest = NoOrder /\ fill.side = "BUY" THEN trips + 1 ELSE trips
                /\ trace' = Append(trace, fill)
                /\ CloseBar(bar, bars, rest, cash + CashDelta(fill), held)
                /\ UNCHANGED failed
        /\ UNCHANGED hold

FoldInit ==
    /\ series = <<>> /\ trace = <<>>
    /\ hold \in BOOLEAN
    /\ cash = OpeningCash /\ position = 0
    /\ pending = NoOrder
    /\ peak = OpeningCash /\ drawdown = [loss |-> 0, peak |-> OpeningCash]
    /\ trips = 0
    /\ failed = FALSE

FoldNext == \E bar \in BarKind : Warm(bar) \/ PlayBar(bar) \/ FillBar(bar)

FoldSpec == FoldInit /\ [][FoldNext]_foldVars

IsOver == Len(series) = Length

\* A fold that cannot complete every order has no score.
IsScored == IsOver /\ ~failed /\ pending = NoOrder /\ position = 0

-----------------------------------------------------------------------------
(* Properties *)

\* No fill looks ahead: the closes up to its signal alone say which side is
\* traded, the fill takes a later bar at its open, and no other order was
\* open in between.  The metrics report no violation without counting any.
NoLookahead ==
    \A f \in DOMAIN trace :
        LET seen == SubSeq(series, 1, trace[f].signal)
            cross == Crossover(seen, Len(seen))
        IN  /\ trace[f].at >= trace[f].signal + DelayBars
            /\ trace[f].side = "BUY" =>
                  IF hold THEN Len(seen) = Warmup + 1 ELSE cross = "golden_cross"
            /\ trace[f].side = "SELL" =>
                  Len(seen) = LiquidationBar \/ (~hold /\ cross = "death_cross")
            /\ \A g \in DOMAIN trace :
                  trace[g].signal < trace[f].signal => trace[g].at <= trace[f].signal

\* The trade count of a scored fold counts round trips although it is counted
\* when a buy completes: each of them was sold again in full.
RoundTripsClosed ==
    IsScored =>
        LET signals(side) == {trace[f].signal : f \in {g \in DOMAIN trace : trace[g].side = side}}
        IN  /\ trips = Cardinality(signals("BUY"))
            /\ trips = Cardinality(signals("SELL"))

Total(amount, S) == MapThenSumSet(LAMBDA f : amount[f], S)

\* What each fill adds to the cash and to the shares.
CashOf(fills) == [f \in DOMAIN fills |-> CashDelta(fills[f])]

SharesOf(fills) ==
    [f \in DOMAIN fills |-> IF fills[f].side = "BUY" THEN fills[f].quantity ELSE -fills[f].quantity]

\* The account after the bars 1..i, as the fills tell it.
EquityAfter(i) ==
    LET past == {f \in DOMAIN trace : trace[f].at <= i}
    IN  OpeningCash + Total(CashOf(trace), past) + Total(SharesOf(trace), past) * series[i].close

\* The drawdown found bar by bar is the worst loss between any two moments of
\* the fold, the start included, in proportion to the equity it fell from.
DrawdownIsWorst ==
    LET moments == Warmup..Len(series)
        equity(i) == IF i = Warmup THEN OpeningCash ELSE EquityAfter(i)
        above(i, j) == (equity(i) - equity(j)) * drawdown.peak - drawdown.loss * equity(i)
    IN  ~failed /\ Len(series) > Warmup =>
          /\ \A i, j \in moments : i <= j => above(i, j) <= 0
          /\ \E i, j \in moments : i <= j /\ above(i, j) = 0

\* The metrics of a fold are those of an account that traded as it could have
\* at the time: no fill looks ahead, what is counted happened, and the drawdown
\* is the worst there was (internal/researchdomain/fold.go).
FoldIsHonest == FoldTypeOK /\ NoLookahead /\ RoundTripsClosed /\ DrawdownIsWorst
=============================================================================
