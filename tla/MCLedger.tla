------------------------------- MODULE MCLedger -------------------------------
(* A small ledger: the files an owner may import, by the story they tell. *)
EXTENDS Ledger, TLC

Row(source, type, at, amount) ==
    [source |-> source, known |-> TRUE, type |-> type, at |-> at, currency |-> "USD",
     quantity |-> 0, price |-> 0, fee |-> 0, amount |-> amount,
     counter |-> NoCurrency, counterAmount |-> 0, corrects |-> ""]

Buy(source, at, quantity, price, fee) ==
    [Row(source, "BUY", at, -(quantity * price + fee)) EXCEPT !.quantity = quantity, !.price = price, !.fee = fee]

Sell(source, at, quantity, price) ==
    [Row(source, "SELL", at, quantity * price) EXCEPT !.quantity = quantity, !.price = price]

Void(source, at, amount, corrects) == [Row(source, "CASH_VOID", at, amount) EXCEPT !.corrects = corrects]

\* Three shares for four quanta, so that a third of the cost is no decimal.
BuyThree == Buy("b3", 0, 3, 100, 100)
\* Two shares, at a price finer than a quantum, half a second after the early sale.
BuyLate == Buy("b1", 3, 2, 205, 0)
SellEarly == Sell("s1", 2, 1, 300)
SellLate == Sell("s2", 3, 1, 300)
SellMany == [Sell("s3", 4, 3, 100) EXCEPT !.fee = 100, !.amount = 200]
Split == [Row("sp", "SPLIT", 2, 0) EXCEPT !.quantity = 2]

Deposit == Row("d", "DEPOSIT", 0, 300)
OtherDeposit == Row("d", "DEPOSIT", 0, 200)
Tax == Row("t", "TAX", 1, -100)
VoidTax == Void("v1", 2, 100, "t")
VoidTaxAgain == Void("v2", 3, 100, "t")
VoidVoid == Void("v3", 3, -100, "v1")
VoidEarly == Void("v4", 0, 100, "t")
Exchange == [Row("x", "FX_EXCHANGE", 2, -100) EXCEPT !.counter = "EUR", !.counterAmount = 80]
Elsewhere == [Row("e", "DEPOSIT", 0, 100) EXCEPT !.known = FALSE]
Unbalanced == [BuyLate EXCEPT !.amount = 0]

TradeFiles == {<<BuyThree>>, <<BuyLate>>, <<SellEarly, SellMany>>, <<SellLate>>, <<Split>>}

CashFiles == {<<Deposit, Tax>>, <<OtherDeposit>>, <<VoidTax>>, <<VoidTaxAgain>>, <<VoidVoid>>,
              <<VoidTax, VoidTaxAgain>>, <<VoidEarly>>, <<Exchange, Deposit>>, <<Elsewhere>>, <<Unbalanced>>}

WalkFiles == {<<Deposit, Tax>>, <<VoidTax, Exchange>>, <<BuyThree>>}

AnyFile == TradeFiles \cup CashFiles \cup WalkFiles

\* Histories stored under the old order, the last legal only under it.
OldLedgers == {<<BuyThree, SellLate>>, <<Deposit, Tax, VoidTax>>, <<BuyLate, SellEarly>>}

\* One story per behaviour: the trades, the cash, or an upgraded ledger that is
\* read while it grows; the last two with one preview less.
OneStory ==
    LET files == {previews[i].file : i \in DOMAIN previews}
        told == Len(previews) < MaxPreviews
    IN  \/ files \subseteq TradeFiles /\ legacyRevision = 0 /\ walks = 0
        \/ files \subseteq CashFiles /\ legacyRevision = 0 /\ walks = 0 /\ told
        \/ files \subseteq WalkFiles /\ told

KeySymmetry == Permutations(Key)

=============================================================================
