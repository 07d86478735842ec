---------------------------- MODULE ListedCapture ----------------------------
(***************************************************************************)
(* The one-shot capture of a Kiwoom trade (captureKiwoomLatestTradeObser-  *)
(* vation, recordKiwoomLatestTradeObservation) beside the owner who        *)
(* declares and revokes which instrument a listed symbol stands for        *)
(* (instrument_listing.go).  A capture resolves the symbol, asks the       *)
(* broker, resolves again and writes: four steps between which the         *)
(* registry, the clock and the other captures move.  One venue and one     *)
(* currency, as the capture has them.                                      *)
(***************************************************************************)
EXTENDS OwnerSeries

CONSTANTS Captures,      \* captures that may run at the same time
          NoValue,       \* nothing resolved, nothing answered
          MaxEvents,     \* bound of the registry
          MaxCaptures    \* bound of the captures ever started

ASSUME ListedCaptureAssumption ==
    /\ MaxEvents \in Nat /\ MaxCaptures \in Nat
    /\ NoValue \notin Instruments

VARIABLES listings,      \* instrument_listing_events, in sequence order
          capture,       \* what every capture is about to do, and with what
          started

captureVars == <<listings, capture, started>>
allVars == <<now, fx, fxVersions, prices, priceVersions, benchmarks, admitted,
             listings, capture, started>>

Idle == [at |-> "idle", symbol |-> NoValue, value |-> NoValue,
         observed |-> 0, fetched |-> 0, instrument |-> NoValue]

\* The latest event of a symbol, none or one.
LatestEvent(symbol) ==
    {listings[i] : i \in {j \in DOMAIN listings :
        /\ listings[j].symbol = symbol
        /\ \A k \in DOMAIN listings : listings[k].symbol = symbol => k <= j}}

\* resolveInstrumentListing: the instrument declared now.
Active(symbol) == {e.instrument : e \in {l \in LatestEvent(symbol) : l.type = "DECLARE"}}

\* replayInstrumentListingRegistry: each symbol's events name the one before
\* them and alternate, and a revocation names the declared instrument.
ListingsReplay ==
    \A i \in DOMAIN listings :
        LET earlier == {j \in 1 .. (i - 1) : listings[j].symbol = listings[i].symbol}
            previous == {listings[j] : j \in {k \in earlier : \A l \in earlier : l <= k}}
        IN  /\ listings[i].previous = {p.event : p \in previous}
            /\ IF listings[i].type = "DECLARE"
               THEN \A p \in previous : p.type = "REVOKE"
               ELSE \E p \in previous :
                        p.type = "DECLARE" /\ p.instrument = listings[i].instrument

AppendEvent(type, instrument, symbol) ==
    /\ Len(listings) < MaxEvents
    /\ listings' = Append(listings,
            [event |-> Len(listings) + 1, type |-> type, instrument |-> instrument,
             symbol |-> symbol, previous |-> {e.event : e \in LatestEvent(symbol)}])
    /\ UNCHANGED <<vars, capture, started>>

\* A declaration of what is declared is answered, one of another instrument
\* refused.
Declare(instrument, symbol) ==
    /\ Active(symbol) = {}
    /\ AppendEvent("DECLARE", instrument, symbol)

\* Only the instrument that is declared can be revoked.
Revoke(instrument, symbol) ==
    /\ instrument \in Active(symbol)
    /\ AppendEvent("REVOKE", instrument, symbol)

\* A capture begins for a listed symbol only.
Ask(c, symbol) ==
    /\ capture[c].at \in {"idle", "stored", "failed"}
    /\ started < MaxCaptures
    /\ started' = started + 1
    /\ capture' = [capture EXCEPT ![c] = [Idle EXCEPT
            !.at = IF Active(symbol) = {} THEN "failed" ELSE "asking", !.symbol = symbol]]
    /\ UNCHANGED <<vars, listings>>

\* The broker answers with its latest trade, or the call fails.
Trade(c, value, observed) ==
    /\ capture[c].at = "asking"
    /\ observed <= now
    /\ capture' = [capture EXCEPT ![c].at = "traded", ![c].value = value,
                                  ![c].observed = observed, ![c].fetched = now]
    /\ UNCHANGED <<vars, listings, started>>

TradeFails(c) ==
    /\ capture[c].at = "asking"
    /\ capture' = [capture EXCEPT ![c].at = "failed"]
    /\ UNCHANGED <<vars, listings, started>>

\* The observation is of the instrument declared now, whatever was declared
\* when the capture began.
Resolve(c) ==
    /\ capture[c].at = "traded"
    /\ \/ \E i \in Active(capture[c].symbol) :
             capture' = [capture EXCEPT ![c].at = "writing", ![c].instrument = i]
       \/ /\ Active(capture[c].symbol) = {}
          /\ capture' = [capture EXCEPT ![c].at = "failed"]
    /\ UNCHANGED <<vars, listings, started>>

\* The identity of a captured trade is its source, instrument, symbol and
\* time: what the table already holds of it.
Captured(c) ==
    {o \in Rows(prices) : /\ o.source = "kiwoom" /\ o.symbol = capture[c].symbol
                          /\ o.instrument = capture[c].instrument
                          /\ o.observed = capture[c].observed}

\* The row the capture would insert.
CapturedRow(c, id, venue) ==
    [source |-> "kiwoom", id |-> id, instrument |-> capture[c].instrument,
     symbol |-> capture[c].symbol, venue |-> venue, value |-> capture[c].value,
     observed |-> capture[c].observed, fetched |-> capture[c].fetched, recorded |-> now]

Ends(c, at) == capture' = [capture EXCEPT ![c].at = at]

\* Broken Owned: the write trusts the listing resolved before it.
Resolved(c) == capture[c].instrument # NoValue

\* The write transaction resolves the listing once more.
Owned(c) == capture[c].instrument \in Active(capture[c].symbol)

\* A trade fetched again is the trade: only the price must be the same.
SameTrade(c, o) == o.value = capture[c].value

Store(c, id, venue) ==
    /\ capture[c].at = "writing"
    /\ Captured(c) = {} /\ Owned(c)
    /\ StorePrice(CapturedRow(c, id, venue))
    /\ Ends(c, "stored")
    /\ UNCHANGED <<now, fx, fxVersions, priceVersions, benchmarks, admitted, listings, started>>

\* A stored trade is returned before the listing is looked at.
Known(c) ==
    /\ capture[c].at = "writing"
    /\ \E o \in Captured(c) : SameTrade(c, o)
    /\ Ends(c, "stored")
    /\ UNCHANGED <<vars, listings, started>>

\* Another price under the identity, a listing that changed hands, a series of
\* the owner and a clock before the fetch all refuse the write.
Refused(c) ==
    /\ capture[c].at = "writing"
    /\ \/ \E o \in Captured(c) : ~SameTrade(c, o)
       \/ /\ Captured(c) = {}
          /\ \/ ~Owned(c)
             \/ \E v \in Rows(priceVersions) : v.key = capture[c].instrument
             \/ now < capture[c].fetched
    /\ Ends(c, "failed")
    /\ UNCHANGED <<vars, listings, started>>

-----------------------------------------------------------------------------
CaptureInit ==
    /\ Init
    /\ listings = <<>>
    /\ capture = [c \in Captures |-> Idle]
    /\ started = 0

\* The owner declares and revokes, and the captures go on.
CaptureMoves ==
    \/ \E i \in Instruments, s \in Symbols : Declare(i, s) \/ Revoke(i, s)
    \/ \E c \in Captures :
          \/ \E s \in Symbols : Ask(c, s)
          \/ \E v \in Values, o \in Times : Trade(c, v, o)
          \/ TradeFails(c) \/ Resolve(c) \/ Known(c) \/ Refused(c)
          \/ \E id \in Ids, w \in Venues : Store(c, id, w)

\* Beside them the marks move as in OwnerSeries.
CaptureNext == CaptureMoves \/ (Next /\ UNCHANGED captureVars)

CaptureSpec == CaptureInit /\ [][CaptureNext]_allVars

-----------------------------------------------------------------------------
\* A registry of alternating events, captures somewhere in their four steps.
CaptureTypeOK ==
    /\ SeriesTypeOK
    /\ \A i \in DOMAIN listings :
          /\ listings[i].event = i
          /\ listings[i].instrument \in Instruments /\ listings[i].symbol \in Symbols
    /\ \A c \in Captures :
          /\ capture[c].at \in {"idle", "asking", "traded", "writing", "stored", "failed"}
          /\ capture[c].at = "writing" => capture[c].instrument \in Instruments
    /\ started \in 0 .. MaxCaptures

\* A trade enters the table under the instrument the owner has declared for
\* its symbol at that moment, although the symbol was resolved twice before,
\* once on each side of the call to the broker
\* (recordSecurityPriceObservation).
CapturesAreListed ==
    [][\A i \in DOMAIN prices' :
          (i \notin DOMAIN prices /\ prices'[i].source = "kiwoom")
             => prices'[i].instrument \in Active(prices'[i].symbol)]_allVars

\* Two captures of one trade, one after or beside the other, both end with
\* the one stored observation: no capture is refused a trade that is stored at
\* its own price (the fetch time of a Kiwoom observation is not part of its
\* identity).
RetakenTradeIsStored ==
    [][\A c \in Captures :
          (/\ capture[c].at = "writing" /\ capture'[c].at = "failed")
             => \A o \in Captured(c) : o.value # capture[c].value]_allVars

\* The registry and the prices are readable whatever is captured, declared and
\* imported, and the two readers of the prices agree (instrument_listing.go
\* replayInstrumentListingRegistry, holding_valuation.go, watchlist.go).
ReadsSucceedAndAgree ==
    CaptureTypeOK /\ ListingsReplay /\ PricesReadable /\ QuoteAgreesWithValuation

\* A capture stores the trade of an instrument its owner has listed, and a
\* trade that is stored already is no failure
\* (security_price_observation.go recordSecurityPriceObservation).
CapturesAreSound == CapturesAreListed /\ RetakenTradeIsStored
=============================================================================
