----------------------------- MODULE LedgerReplay -----------------------------
(***************************************************************************)
(* How the ledger of src/services/core turns its events into a portfolio:  *)
(* what a canonical row is (core.go normalize), in which order a replay    *)
(* policy reads the events, and what posting each of them does to the cash *)
(* and the FIFO lots (core.go snapshotFromPolicy, internal/exact).         *)
(*                                                                         *)
(* A time is twice the second it falls in, plus one when the stored text   *)
(* carries a fraction of a second ("...:00Z" is even, "...:00.5Z" is odd). *)
(* An amount of money is a whole number of units of 10^-10, a Quantum of   *)
(* which is the policy's eighth decimal.  The code knows one account and   *)
(* one instrument, every other one is "unresolved".                        *)
(***************************************************************************)
EXTENDS Integers, Sequences, FiniteSets, SequencesExt

CONSTANTS Currency,     \* the currencies rows may name
          NoCurrency    \* the empty counter_currency column

ASSUME CurrencyAssumption == NoCurrency \notin Currency

Quantum == 100

Fifo == "fifo_utc_nanosecond"
Legacy == "fifo_text_order"

CashTypes == {"DEPOSIT", "WITHDRAWAL", "DIVIDEND", "FEE", "TAX"}
TradeTypes == {"BUY", "SELL"}

EventType == CashTypes \cup TradeTypes \cup {"CASH_VOID", "FX_EXCHANGE", "SPLIT"}

LedgerRow ==
    [source: STRING \ {""}, known: BOOLEAN, type: EventType, at: Nat, currency: Currency,
     quantity: Int, price: Int, fee: Int, amount: Int,
     counter: Currency \cup {NoCurrency}, counterAmount: Int, corrects: STRING]

-----------------------------------------------------------------------------
(* The rows a file may hold. *)

HasNoTrade(row) == row.quantity = 0 /\ row.price = 0 /\ row.fee = 0

IsCanonicalTrade(row) ==
    /\ row.quantity > 0 /\ row.price > 0 /\ row.fee >= 0
    /\ row.amount = IF row.type = "BUY" THEN -(row.quantity * row.price + row.fee)
                                        ELSE row.quantity * row.price - row.fee

IsCanonical(row) ==
    /\ (row.corrects # "") <=> (row.type = "CASH_VOID")
    /\ row.type # "FX_EXCHANGE" => row.counter = NoCurrency /\ row.counterAmount = 0
    /\ CASE row.type \in {"DEPOSIT", "DIVIDEND"} -> row.amount > 0 /\ HasNoTrade(row)
         [] row.type \in {"WITHDRAWAL", "FEE", "TAX"} -> row.amount < 0 /\ HasNoTrade(row)
         [] row.type = "CASH_VOID" -> row.amount # 0 /\ HasNoTrade(row)
         [] row.type = "SPLIT" -> row.quantity > 0 /\ row.price = 0 /\ row.fee = 0 /\ row.amount = 0
         [] row.type = "FX_EXCHANGE" -> /\ row.amount < 0 /\ HasNoTrade(row)
                                        /\ row.counter \in Currency \ {row.currency}
                                        /\ row.counterAmount > 0
         [] row.type \in TradeTypes -> IsCanonicalTrade(row)

-----------------------------------------------------------------------------
(* The order of a replay. *)

\* Compared as text "...:00.5Z" precedes "...:00Z"; without the Z it follows.
SortKey(policy, at) ==
    IF policy = Fifo THEN at ELSE 2 * (at \div 2) + 1 - (at % 2)

\* The positions S by their keys, those with the same key as they are stored.
InOrder(S, key) ==
    LET upTo(i) == {j \in S : key[j] < key[i] \/ (key[j] = key[i] /\ j <= i)}
        ranks == {<<Cardinality(upTo(i)), i>> : i \in S}
    IN  [k \in 1..Cardinality(S) |-> CHOOSE i \in S : <<k, i>> \in ranks]

Chronology(policy, events) ==
    InOrder(DOMAIN events, [i \in DOMAIN events |-> SortKey(policy, events[i].at)])

-----------------------------------------------------------------------------
(* Costs. *)

Smaller(a, b) == IF a < b THEN a ELSE b

\* The unit the allocation of a cost is rounded to: eight decimals, or as many
\* as the cost itself has.
RoundingUnit(cost) ==
    IF cost % Quantum = 0 THEN Quantum ELSE IF cost % 10 = 0 THEN 10 ELSE 1

\* numerator / (denominator * unit) to the nearest integer, ties to even.
HalfEven(numerator, denominator, unit) ==
    LET q == numerator \div (denominator * unit)
        r == numerator % (denominator * unit)
    IN  unit * (IF 2 * r > denominator * unit \/ (2 * r = denominator * unit /\ q % 2 = 1)
                THEN q + 1 ELSE q)

\* A fraction is a finite decimal when, reduced, its denominator divides a
\* power of ten; quantities here are small enough for the third.
IsFinite(numerator, denominator) ==
    \E k \in {1, 10, 100, 1000} : (numerator * k) % denominator = 0

\* Broken FIFOAllocation: every allocation is rounded to eight decimals.
RoundedAllocation(cost, take, quantity) == HalfEven(cost * take, quantity, Quantum)

\* What of a lot's cost goes with a part of its quantity.
FIFOAllocation(cost, take, quantity) ==
    IF take = quantity THEN cost
    ELSE IF IsFinite(cost * take, quantity) THEN (cost * take) \div quantity
    ELSE HalfEven(cost * take, quantity, RoundingUnit(cost))

-----------------------------------------------------------------------------
(* Posting. *)

EmptyAccount == [ok |-> TRUE,
                 cash |-> [c \in Currency |-> 0],
                 realized |-> [c \in Currency |-> 0],
                 lots |-> [c \in Currency |-> <<>>]]

\* What a sale takes from one lot.
Take(sale, lot) ==
    LET take == Smaller(sale.left, lot.quantity)
        part == FIFOAllocation(lot.cost, take, lot.quantity)
    IN  [left |-> sale.left - take,
         cost |-> sale.cost + part,
         kept |-> IF take = lot.quantity THEN sale.kept
                  ELSE Append(sale.kept, [quantity |-> lot.quantity - take, cost |-> lot.cost - part])]

\* What a sale takes from the open lots, oldest first.
SellLots(lots, quantity) ==
    LET sale[n \in 0..Len(lots)] ==
          IF n = 0 THEN [left |-> quantity, cost |-> 0, kept |-> <<>>] ELSE Take(sale[n - 1], lots[n])
    IN  sale[Len(lots)]

PostCash(account, event) ==
    LET cash == [account.cash EXCEPT ![event.currency] = @ + event.amount]
    IN  [account EXCEPT !.cash = IF event.type = "FX_EXCHANGE"
                                 THEN [cash EXCEPT ![event.counter] = @ + event.counterAmount]
                                 ELSE cash]

PostBuy(account, event) ==
    [account EXCEPT !.lots[event.currency] =
        Append(@, [quantity |-> event.quantity, cost |-> event.quantity * event.price + event.fee])]

PostSell(account, event) ==
    LET sale == SellLots(account.lots[event.currency], event.quantity)
    IN  [account EXCEPT !.ok = sale.left = 0,
                        !.lots[event.currency] = sale.kept,
                        !.realized[event.currency] = @ + event.amount - sale.cost]

PostSplit(account, event) ==
    LET lots == account.lots[event.currency]
    IN  [account EXCEPT !.ok = lots # <<>>,
                        !.lots[event.currency] =
                            [i \in DOMAIN lots |-> [lots[i] EXCEPT !.quantity = @ * event.quantity]]]

\* The first event that does not post ends the replay with its error.
Post(account, event) ==
    LET paid == PostCash(account, event)
    IN  IF ~account.ok THEN account
        ELSE CASE event.type = "BUY"    -> PostBuy(paid, event)
               [] event.type = "SELL"   -> PostSell(paid, event)
               [] event.type = "SPLIT"  -> PostSplit(paid, event)
               [] OTHER                 -> paid

Replay(policy, events) ==
    LET order == Chronology(policy, events)
        account[n \in 0..Len(events)] ==
          IF n = 0 THEN EmptyAccount ELSE Post(account[n - 1], events[order[n]])
    IN  account[Len(events)]

Snapshot(policy, events, revision) == Replay(policy, SubSeq(events, 1, revision))

=============================================================================
