--------------------------- MODULE MCListedCapture ---------------------------
(* A small instance of ListedCapture: marks of every kind, told as stories. *)
EXTENDS ListedCapture, TLC

CONSTANTS i1, i2, s1, s2, p1, v1, v2, c1, c2, n1, n2, d1, w1, b1, e1, e2

\* i1 is named by s1 and i2 by s2.
MCSymbolOf == [i \in Instruments |-> IF i = i1 THEN s1 ELSE s2]

\* The two instruments with their symbols, and everything else, are
\* interchangeable.
SwapInstruments == (i1 :> i2) @@ (i2 :> i1) @@ (s1 :> s2) @@ (s2 :> s1)

MCSymmetry == Permutations({v1, v2}) \cup Permutations({n1, n2})
              \cup Permutations({c1, c2}) \cup {SwapInstruments}

NoRates == fx = <<>> /\ fxVersions = <<>>
NoPrices == prices = <<>> /\ priceVersions = <<>> /\ admitted = {}
NoLevels == benchmarks = <<>>
NoCaptures == listings = <<>> /\ started = 0

\* The owner keeps a series of one instrument, of which it has two versions,
\* beside a fixture of either.
OneOwned == Cardinality(admitted) <= 1

\* One symbol is listed and asked for, beside series that hold nothing yet.
OneSymbol ==
    /\ Cardinality({l.symbol : l \in Rows(listings)}
                    \cup ({capture[c].symbol : c \in Captures} \ {NoValue})) <= 1
    /\ \A o \in Rows(prices) : o.source = "kiwoom"
    /\ Len(priceVersions) <= 1
    /\ OneOwned /\ (Len(listings) <= 2 \/ admitted = {})
    /\ \A v \in Rows(priceVersions) : v.points = <<>> /\ v.fetched = 0 /\ v.name = n1

\* A behaviour tells one story: rates, levels of an index, prices, captures.
OneStory ==
    \/ NoPrices /\ NoLevels /\ NoCaptures
    \/ NoRates /\ NoPrices /\ NoCaptures
    \/ NoRates /\ NoLevels /\ NoCaptures /\ OneOwned /\ now < MaxTime
    \/ NoRates /\ NoLevels /\ OneSymbol

\* The marks move until the first listing; from then on the captures, beside
\* owners who withdraw their series.
StoryNext ==
    \/ NoCaptures /\ Next /\ UNCHANGED captureVars
    \/ CaptureMoves
    \/ /\ \/ \E i \in Instruments, n \in Names, w \in Venues :
                ImportOwnerPrice(i, n, w, <<>>, 0)
          \/ \E i \in Instruments : Admit(i)
          \/ \E t \in Times : SetClock(t)
       /\ UNCHANGED captureVars

\* Fewer steps than CaptureSpec has.
StorySpec == CaptureInit /\ [][StoryNext]_allVars
=============================================================================
