----------------------------- MODULE OwnerSeries -----------------------------
(***************************************************************************)
(* Stored market marks: the fixture tables (fx_observation.go,             *)
(* security_price_observation.go), the series an owner declares as whole   *)
(* versions (owner_fx_series.go, owner_price_series.go,                    *)
(* benchmark_series.go), the guards of migrations 024 and 025 that keep    *)
(* fixtures and owners apart, and what a valuation, a comparison with an   *)
(* index and the watchlist select from them at a cutoff.                   *)
(*                                                                         *)
(* A time is a number of half seconds: an even one is printed without a    *)
(* fraction ("...:00Z"), an odd one with it ("...:00.5Z").  Code that      *)
(* parses a time, or trims the Z before it compares, orders the numbers;   *)
(* code that compares the stored text orders TextRank.  An instrument      *)
(* stands for instrument and currency, and hashes are left out: a row is   *)
(* the data its hash seals.                                                *)
(***************************************************************************)
EXTENDS Naturals, Sequences, FiniteSets, SequencesExt

CONSTANTS Pairs,          \* base and quote currency of a rate
          Instruments,    \* instrument and currency
          Symbols,
          SymbolOf,       \* the symbol an instrument's identity is derived from
          Venues,
          Benchmarks,     \* indices
          Definitions,    \* currency, return basis, reference and sample of an index
          Values,         \* rates, prices and levels
          Ids,            \* identities a fixture gives its observations
          Names,          \* names an owner gives the versions of a series
          MaxTime,        \* bound of the clock
          MaxFixtures,    \* bound of each fixture table
          MaxVersions,    \* bound of each table of versions
          MaxPoints       \* bound of a version's points

ASSUME OwnerSeriesAssumption ==
    /\ MaxTime \in Nat /\ MaxFixtures \in Nat
    /\ MaxVersions \in Nat /\ MaxPoints \in Nat
    /\ SymbolOf \in [Instruments -> Symbols]

VARIABLES now,            \* the service's clock: it may be set back
          fx,             \* fx_observations, in sequence order
          fxVersions,     \* owner_fx_series_versions
          prices,         \* security_price_observations
          priceVersions,  \* owner_price_series_versions
          benchmarks,     \* benchmark_series_versions
          admitted        \* instruments with an event in the ledger

vars == <<now, fx, fxVersions, prices, priceVersions, benchmarks, admitted>>

Times == 0 .. MaxTime

\* Where the text of a time stands among the texts of the same length of
\* clock: "...:00.5Z" sorts before "...:00Z".
TextRank(t) == IF t % 2 = 0 THEN t + 1 ELSE t - 1

Points == [observed : Times, value : Values]

\* The points a version may hold: in the order of their times, none after
\* the fetch.  A rate or price version without points withdraws the series.
PointSeqs(fetched) ==
    {s \in BoundedSeq([observed : 0 .. fetched, value : Values], MaxPoints) :
        \A i, j \in DOMAIN s : i < j => s[i].observed < s[j].observed}

Rows(table) == {table[i] : i \in DOMAIN table}

-----------------------------------------------------------------------------
(* The proofs every read and every write of a kind begins with.            *)

\* Versions are recorded in the order of the clock and after their fetch.
InRecordOrder(versions) ==
    /\ \A i \in DOMAIN versions : versions[i].fetched <= versions[i].recorded
    /\ \A i, j \in DOMAIN versions :
          i < j => versions[i].recorded <= versions[j].recorded

ReplayOwnerFX ==
    /\ InRecordOrder(fxVersions)
    /\ \A v \in Rows(fxVersions), o \in Rows(fx) : v.key # o.pair

ReplayOwnerPrice ==
    /\ InRecordOrder(priceVersions)
    /\ \A v \in Rows(priceVersions) : v.key \in admitted
    /\ \A v \in Rows(priceVersions), o \in Rows(prices) : v.key # o.instrument

\* A benchmark is one index for good: what it measures, and in which currency.
ReplayBenchmarks ==
    /\ InRecordOrder(benchmarks)
    /\ \A v, w \in Rows(benchmarks) : v.key = w.key => v.definition = w.definition

\* ownerDataRecordTime: the clock may stand before neither the newest
\* version of the kind nor the fetch.
RecordTime(versions, fetched) ==
    /\ versions # <<>> => Last(versions).recorded <= now
    /\ fetched <= now

-----------------------------------------------------------------------------
(* The operations.                                                         *)

\* A known identity is answered from the table or refused, the same pair and
\* time is refused, and so is a pair with a series of its owner.  Neither the
\* order of the two times nor the clock is checked.
RecordFXObservation(id, pair, value, observed, fetched) ==
    /\ Len(fx) < MaxFixtures
    /\ \A o \in Rows(fx) : o.id # id
    /\ \A o \in Rows(fx) : ~(o.pair = pair /\ o.observed = observed)
    /\ \A v \in Rows(fxVersions) : v.key # pair
    /\ fx' = Append(fx, [id |-> id, pair |-> pair, value |-> value,
                         observed |-> observed, fetched |-> fetched, recorded |-> now])
    /\ UNCHANGED <<now, fxVersions, prices, priceVersions, benchmarks, admitted>>

\* Broken StorePrice: the trigger of migration 025 is missing.
StorePriceBeside(row) ==
    /\ Len(prices) < MaxFixtures
    /\ row.observed <= row.fetched /\ row.fetched <= now
    /\ \A o \in Rows(prices) :
          ~(/\ o.source = row.source /\ o.instrument = row.instrument
            /\ o.symbol = row.symbol /\ o.venue = row.venue
            /\ o.observed = row.observed)
    /\ prices' = Append(prices, row)

\* The insert of recordSecurityPriceObservation: the times of an observation
\* follow each other, one observation per source, listing and time, and none
\* of an instrument with a series of its owner.
StorePrice(row) ==
    /\ Len(prices) < MaxFixtures
    /\ row.observed <= row.fetched /\ row.fetched <= now
    /\ \A o \in Rows(prices) :
          ~(/\ o.source = row.source /\ o.instrument = row.instrument
            /\ o.symbol = row.symbol /\ o.venue = row.venue
            /\ o.observed = row.observed)
    /\ \A v \in Rows(priceVersions) : v.key # row.instrument
    /\ prices' = Append(prices, row)

\* A local fixture observation; its identity is bound as a rate's is.
RecordPriceObservation(id, instrument, symbol, venue, value, observed, fetched) ==
    /\ \A o \in Rows(prices) : ~(o.source = "local_fixture" /\ o.id = id)
    /\ StorePrice([source |-> "local_fixture", id |-> id, instrument |-> instrument,
                   symbol |-> symbol, venue |-> venue, value |-> value,
                   observed |-> observed, fetched |-> fetched, recorded |-> now])
    /\ UNCHANGED <<now, fx, fxVersions, priceVersions, benchmarks, admitted>>

\* A version under a name of the series is stored once: the same input again
\* is answered from the table, another is refused.
ImportOwnerFX(pair, name, points, fetched) ==
    /\ Len(fxVersions) < MaxVersions
    /\ ReplayOwnerFX
    /\ \A v \in Rows(fxVersions) : ~(v.key = pair /\ v.name = name)
    /\ \A o \in Rows(fx) : o.pair # pair
    /\ RecordTime(fxVersions, fetched)
    /\ fxVersions' = Append(fxVersions,
            [key |-> pair, name |-> name, points |-> points,
             fetched |-> fetched, recorded |-> now])
    /\ UNCHANGED <<now, fx, prices, priceVersions, benchmarks, admitted>>

\* The same for prices; the instrument must have an event in the ledger.
ImportOwnerPrice(instrument, name, venue, points, fetched) ==
    /\ Len(priceVersions) < MaxVersions
    /\ instrument \in admitted
    /\ ReplayOwnerPrice
    /\ \A v \in Rows(priceVersions) : ~(v.key = instrument /\ v.name = name)
    /\ \A o \in Rows(prices) : o.instrument # instrument
    /\ RecordTime(priceVersions, fetched)
    /\ priceVersions' = Append(priceVersions,
            [key |-> instrument, name |-> name, venue |-> venue, points |-> points,
             fetched |-> fetched, recorded |-> now])
    /\ UNCHANGED <<now, fx, fxVersions, prices, benchmarks, admitted>>

\* The same for the levels of an index, of which there must be one; its newest
\* version defines it.
ImportBenchmark(benchmark, definition, name, points, fetched) ==
    /\ Len(benchmarks) < MaxVersions
    /\ points # <<>>
    /\ ReplayBenchmarks
    /\ \A v \in Rows(benchmarks) : ~(v.key = benchmark /\ v.name = name)
    /\ \A i \in DOMAIN benchmarks :
          (/\ benchmarks[i].key = benchmark
           /\ \A j \in DOMAIN benchmarks : benchmarks[j].key = benchmark => j <= i)
             => benchmarks[i].definition = definition
    /\ RecordTime(benchmarks, fetched)
    /\ benchmarks' = Append(benchmarks,
            [key |-> benchmark, definition |-> definition, name |-> name,
             points |-> points, fetched |-> fetched, recorded |-> now])
    /\ UNCHANGED <<now, fx, fxVersions, prices, priceVersions, admitted>>

\* The ledger gets the first event of an instrument; events are never removed.
Admit(instrument) ==
    /\ instrument \notin admitted
    /\ admitted' = admitted \cup {instrument}
    /\ UNCHANGED <<now, fx, fxVersions, prices, priceVersions, benchmarks>>

\* Time passes, or the clock is set back.
SetClock(t) ==
    /\ t # now
    /\ now' = t
    /\ UNCHANGED <<fx, fxVersions, prices, priceVersions, benchmarks, admitted>>

-----------------------------------------------------------------------------
(* What is selected at a cutoff.                                           *)

\* Broken KnownVersions: the newest version, whenever it was recorded.
NewestVersions(versions, knownAt) ==
    {versions[i] : i \in {j \in DOMAIN versions :
        \A k \in DOMAIN versions : versions[k].key = versions[j].key => k <= j}}

\* The newest version of every series recorded by the cutoff.
KnownVersions(versions, knownAt) ==
    {versions[i] : i \in {j \in DOMAIN versions :
        /\ versions[j].recorded <= knownAt
        /\ \A k \in DOMAIN versions :
              (versions[k].key = versions[j].key /\ versions[k].recorded <= knownAt) => k <= j}}

\* The marks of fixtures and of versions.
RateMarks(rows) ==
    {[key |-> o.pair, value |-> o.value, observed |-> o.observed,
      fetched |-> o.fetched, recorded |-> o.recorded] : o \in rows}

VersionRates(versions) ==
    UNION {{[key |-> v.key, value |-> p.value, observed |-> p.observed,
             fetched |-> v.fetched, recorded |-> v.recorded] : p \in Rows(v.points)} :
           v \in versions}

PriceMarks(rows) ==
    {[key |-> o.instrument, symbol |-> o.symbol, venue |-> o.venue, value |-> o.value,
      observed |-> o.observed, fetched |-> o.fetched, recorded |-> o.recorded] : o \in rows}

VersionPrices(versions) ==
    UNION {{[key |-> v.key, symbol |-> SymbolOf[v.key], venue |-> v.venue,
             value |-> p.value, observed |-> p.observed,
             fetched |-> v.fetched, recorded |-> v.recorded] : p \in Rows(v.points)} :
           v \in versions}

\* valuationFXObservations: every fixture, and the points of those versions.
ValuationFX(knownAt) ==
    RateMarks(Rows(fx)) \cup VersionRates(KnownVersions(fxVersions, knownAt))

\* valuationPriceObservations; marks of other sources are not used.
ValuationPrices(knownAt) ==
    PriceMarks({o \in Rows(prices) : o.source = "local_fixture"})
        \cup VersionPrices(KnownVersions(priceVersions, knownAt))

\* The marks observed last.
Latest(marks) == {m \in marks : \A n \in marks : n.observed <= m.observed}

\* currentObservationTimes: the reads of a kind fail altogether while one of
\* its marks was fetched before it was observed or recorded before it was
\* fetched.
TimesConsistent(marks) ==
    \A m \in marks : m.observed <= m.fetched /\ m.fetched <= m.recorded

\* latestEligibleCashFX.
LatestCashFX(pair, asOf) ==
    Latest({m \in ValuationFX(asOf) :
        m.key = pair /\ m.observed <= asOf /\ m.fetched <= asOf /\ m.recorded <= asOf})

\* latestEligibleHoldingPriceAt for a holding of the instrument whose symbol
\* names it: marks at more than one venue are ambiguous.
HoldingPrice(instrument, economicAt, knownAt) ==
    LET eligible == {m \in ValuationPrices(knownAt) :
                        /\ m.key = instrument /\ m.symbol = SymbolOf[instrument]
                        /\ m.observed <= economicAt
                        /\ m.fetched <= knownAt /\ m.recorded <= knownAt}
    IN  IF Cardinality({m.venue : m \in eligible}) = 1 THEN Latest(eligible) ELSE {}

\* latestBenchmarkPoint of the version a comparison known at the cutoff uses.
BenchmarkPoint(benchmark, at, knownAt) ==
    Latest({p \in UNION {Rows(v.points) : v \in {u \in KnownVersions(benchmarks, knownAt) :
                                                  u.key = benchmark}} : p.observed <= at})

\* Broken WatchlistQuote: marks of several instruments are not told apart.
AnyInstrumentQuote(symbol, venue, at) ==
    Latest({m \in ValuationPrices(at) :
        /\ m.symbol = symbol /\ m.venue = venue
        /\ m.observed <= at /\ m.fetched <= at /\ m.recorded <= at})

\* watchlistQuote: marks of several instruments under one symbol and venue,
\* or two different last ones, are ambiguous.
WatchlistQuote(symbol, venue, at) ==
    LET eligible == {m \in ValuationPrices(at) :
                        /\ m.symbol = symbol /\ m.venue = venue
                        /\ m.observed <= at /\ m.fetched <= at /\ m.recorded <= at}
    IN  IF Cardinality({m.key : m \in eligible}) = 1 /\ Cardinality(Latest(eligible)) = 1
        THEN Latest(eligible) ELSE {}

\* latestDirectFXObservation: SQL compares and orders the stored texts.
LatestDirectFX(pair, asOf) ==
    LET eligible == {o \in Rows(fx) : /\ o.pair = pair
                                      /\ TextRank(o.observed) <= TextRank(asOf)
                                      /\ TextRank(o.fetched) <= TextRank(asOf)}
    IN  {o \in eligible : \A n \in eligible : TextRank(n.observed) <= TextRank(o.observed)}

-----------------------------------------------------------------------------
Init ==
    /\ now \in Times
    /\ fx = <<>> /\ fxVersions = <<>>
    /\ prices = <<>> /\ priceVersions = <<>> /\ benchmarks = <<>>
    /\ admitted = {}

Next ==
    \/ \E id \in Ids, p \in Pairs, v \in Values, o, f \in Times :
          RecordFXObservation(id, p, v, o, f)
    \/ \E id \in Ids, i \in Instruments, s \in Symbols, w \in Venues,
          v \in Values, o, f \in Times : RecordPriceObservation(id, i, s, w, v, o, f)
    \/ \E p \in Pairs, n \in Names, f \in Times :
          \E s \in PointSeqs(f) : ImportOwnerFX(p, n, s, f)
    \/ \E i \in Instruments, n \in Names, w \in Venues, f \in Times :
          \E s \in PointSeqs(f) : ImportOwnerPrice(i, n, w, s, f)
    \/ \E b \in Benchmarks, d \in Definitions, n \in Names, f \in Times :
          \E s \in PointSeqs(f) : ImportBenchmark(b, d, n, s, f)
    \/ \E i \in Instruments : Admit(i)
    \/ \E t \in Times : SetClock(t)

Spec == Init /\ [][Next]_vars

-----------------------------------------------------------------------------
FXRows == [id : Ids, pair : Pairs, value : Values,
           observed : Times, fetched : Times, recorded : Times]

PriceRows == [source : {"local_fixture", "kiwoom"}, id : Ids, instrument : Instruments,
              symbol : Symbols, venue : Venues, value : Values,
              observed : Times, fetched : Times, recorded : Times]

FXVersionRows == [key : Pairs, name : Names, points : Seq(Points),
                  fetched : Times, recorded : Times]

PriceVersionRows == [key : Instruments, name : Names, venue : Venues,
                     points : Seq(Points), fetched : Times, recorded : Times]

BenchmarkRows == [key : Benchmarks, definition : Definitions, name : Names,
                  points : Seq(Points), fetched : Times, recorded : Times]

\* The tables hold rows of their columns.
SeriesTypeOK ==
    /\ now \in Times
    /\ fx \in Seq(FXRows) /\ prices \in Seq(PriceRows)
    /\ fxVersions \in Seq(FXVersionRows) /\ priceVersions \in Seq(PriceVersionRows)
    /\ benchmarks \in Seq(BenchmarkRows)
    /\ admitted \subseteq Instruments

\* The proofs that every valuation, every later import and every backup of the
\* three kinds begin with (replayOwnerFXSeries, replayOwnerPriceSeries,
\* replayBenchmarkSeries) accept whatever the service stored, with the clock
\* set back in between and the fixture writers beside it: one row they refuse
\* would close them all.
SeriesReplay == ReplayOwnerFX /\ ReplayOwnerPrice /\ ReplayBenchmarks

\* A version of the kind was recorded after the time.
RecordedBefore(t, versions) == \E i \in DOMAIN versions : t < versions[i].recorded

\* What a series of an owner said at a cutoff before its kind's newest record
\* is settled: no later import, fixture or turn of the clock changes the rate,
\* the price or the level selected there from what the reads return (the whole
\* version of the cutoff: valuationFXObservations, valuationPriceObservations,
\* portfolioBenchmarks).
PastStaysKnown ==
    [][/\ \A p \in Pairs, t \in Times :
             ((\E v \in Rows(fxVersions) : v.key = p) /\ RecordedBefore(t, fxVersions'))
                => LatestCashFX(p, t)' = LatestCashFX(p, t)
       /\ \A i \in Instruments, e, t \in Times :
             ((\E v \in Rows(priceVersions) : v.key = i) /\ RecordedBefore(t, priceVersions'))
                => HoldingPrice(i, e, t)' = HoldingPrice(i, e, t)
       /\ \A b \in Benchmarks, e, t \in Times :
             RecordedBefore(t, benchmarks')
                => BenchmarkPoint(b, e, t)' = BenchmarkPoint(b, e, t)]_vars

\* The watchlist and the portfolio valuation read the same marks their own
\* ways: where both show a price of one instrument at one venue, it is one
\* price.
QuoteAgreesWithValuation ==
    \A i \in Instruments, w \in Venues, t \in Times :
        LET quote == WatchlistQuote(SymbolOf[i], w, t)
            held  == {m \in HoldingPrice(i, t, t) : m.venue = w}
        IN  (quote # {} /\ held # {}) => quote = held

\* No price the service stored, at whatever turn of its clock, makes the reads
\* of the kind fail (currentPriceObservationTimes refuses the whole table for
\* one inconsistent row).
PricesReadable ==
    /\ TimesConsistent(Rows(prices))
    /\ \A t \in Times : TimesConsistent(ValuationPrices(t))

\* "Both observed and fetched time must be at or before the cutoff", says the
\* plan of the latest-rate route (docs/kairos-plan.md, G1.10).
LatestKeepsCutoff ==
    \A p \in Pairs, t \in Times :
        \A o \in LatestDirectFX(p, t) : o.observed <= t /\ o.fetched <= t
=============================================================================
