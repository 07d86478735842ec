------------------------- MODULE ListedCapture_proofs -------------------------
(***************************************************************************)
(* For every number of series, rows, captures and times: the tables of     *)
(* marks stay typed and readable, the past of a series stays what it was,  *)
(* the readers of the prices agree, and captures store the trades of what  *)
(* their owner has listed.                                                 *)
(***************************************************************************)
EXTENDS ListedCapture, FiniteSetTheorems, WellFoundedInduction, TLAPS

-----------------------------------------------------------------------------
(* Rows and appends.                                                       *)

LEMMA AppendIndices ==
    ASSUME NEW S, NEW s \in Seq(S), NEW e \in S
    PROVE  /\ Append(s, e) \in Seq(S)
           /\ DOMAIN s = 1 .. Len(s) /\ Len(s) \in Nat
           /\ DOMAIN Append(s, e) = 1 .. (Len(s) + 1)
           /\ \A i \in 1 .. Len(s) : Append(s, e)[i] = s[i] /\ s[i] \in S
           /\ Append(s, e)[Len(s) + 1] = e
OBVIOUS

LEMMA AppendRows ==
    ASSUME NEW S, NEW s \in Seq(S), NEW e \in S
    PROVE  Rows(Append(s, e)) = Rows(s) \cup {e}
<1> DEFINE a == Append(s, e)
<1>1. /\ DOMAIN s = 1 .. Len(s) /\ Len(s) \in Nat
      /\ DOMAIN a = 1 .. (Len(s) + 1)
      /\ \A i \in 1 .. Len(s) : a[i] = s[i]
      /\ a[Len(s) + 1] = e
    BY AppendIndices
<1> HIDE DEF a
<1>2. ASSUME NEW x \in Rows(a) PROVE x \in Rows(s) \cup {e}
    <2>1. PICK i \in DOMAIN a : x = a[i]
        BY <1>2 DEF Rows
    <2>2. i = Len(s) + 1 \/ i \in 1 .. Len(s)
        BY <2>1, <1>1
    <2> QED BY <2>1, <2>2, <1>1 DEF Rows
<1>3. ASSUME NEW x \in Rows(s) PROVE x \in Rows(a)
    <2>1. PICK i \in DOMAIN s : x = s[i]
        BY <1>3 DEF Rows
    <2>2. i \in DOMAIN a /\ a[i] = x
        BY <2>1, <1>1
    <2> QED BY <2>2 DEF Rows
<1>4. e \in Rows(a)
    <2>1. Len(s) + 1 \in DOMAIN a
        BY <1>1
    <2> QED BY <2>1, <1>1 DEF Rows
<1> QED BY <1>2, <1>3, <1>4 DEF a

\* Whatever is typed is in the rows, and the rows are typed.
LEMMA RowsTyped ==
    ASSUME NEW S, NEW s \in Seq(S)
    PROVE  Rows(s) \subseteq S
BY DEF Rows

\* The points a version may hold are a sequence of points.
LEMMA PointsTyped ==
    ASSUME NEW f \in Times, NEW s \in PointSeqs(f)
    PROVE  s \in Seq(Points)
<1> DEFINE P == [observed : 0 .. f, value : Values]
<1>1. P \subseteq Points
    BY OwnerSeriesAssumption DEF Times, Points
<1>2. PICK m \in 0 .. MaxPoints : s \in [1 .. m -> P]
    BY DEF PointSeqs, BoundedSeq, SeqOf
<1>3. m \in Nat
    BY OwnerSeriesAssumption
<1> QED BY <1>1, <1>2, <1>3

-----------------------------------------------------------------------------
(* The order of the versions of a kind.                                    *)

Timed(versions) ==
    \A i \in DOMAIN versions : versions[i].recorded \in Nat /\ versions[i].fetched \in Nat

\* A version recorded now goes behind all the others.
LEMMA AppendInOrder ==
    ASSUME NEW S, NEW s \in Seq(S), NEW e \in S, Timed(s), InRecordOrder(s),
           e.recorded \in Nat, e.fetched \in Nat, e.fetched <= e.recorded,
           s # <<>> => Last(s).recorded <= e.recorded
    PROVE  InRecordOrder(Append(s, e)) /\ Timed(Append(s, e))
<1> DEFINE a == Append(s, e)
<1>1. /\ DOMAIN s = 1 .. Len(s) /\ Len(s) \in Nat
      /\ DOMAIN a = 1 .. (Len(s) + 1)
      /\ \A i \in 1 .. Len(s) : a[i] = s[i]
      /\ a[Len(s) + 1] = e
    BY AppendIndices
<1> HIDE DEF a
<1>2. ASSUME NEW i \in 1 .. Len(s) PROVE s[i].recorded <= e.recorded
    <2>1. s # <<>> /\ Len(s) \in DOMAIN s /\ i \in DOMAIN s
        BY <1>1, <1>2
    <2>2. s[Len(s)].recorded <= e.recorded
        BY <2>1 DEF Last
    <2>3. s[i].recorded <= s[Len(s)].recorded
        <3>1. CASE i = Len(s)
            BY <3>1, <2>1 DEF Timed
        <3>2. CASE i < Len(s)
            BY <3>2, <2>1 DEF InRecordOrder
        <3>3. Len(s) \in Nat
            BY <1>1
        <3>4. i = Len(s) \/ i < Len(s)
            BY <3>3
        <3> QED BY <3>1, <3>2, <3>4
    <2> QED BY <2>1, <2>2, <2>3 DEF Timed
<1>3. Timed(a)
    <2> SUFFICES ASSUME NEW i \in DOMAIN a
                 PROVE  a[i].recorded \in Nat /\ a[i].fetched \in Nat
        BY DEF Timed
    <2>1. i = Len(s) + 1 \/ i \in 1 .. Len(s)
        BY <1>1
    <2> QED BY <2>1, <1>1 DEF Timed
<1>4. ASSUME NEW i \in DOMAIN a PROVE a[i].fetched <= a[i].recorded
    <2>1. i = Len(s) + 1 \/ i \in 1 .. Len(s)
        BY <1>1
    <2> QED BY <2>1, <1>1 DEF InRecordOrder
<1>5. ASSUME NEW i \in DOMAIN a, NEW j \in DOMAIN a, i < j
      PROVE  a[i].recorded <= a[j].recorded
    <2>1. i \in 1 .. Len(s)
        BY <1>1, <1>5
    <2>2. CASE j = Len(s) + 1
        BY <2>1, <2>2, <1>1, <1>2
    <2>3. CASE j \in 1 .. Len(s)
        BY <2>1, <2>3, <1>1, <1>5 DEF InRecordOrder
    <2> QED BY <2>2, <2>3, <1>1
<1>6. InRecordOrder(a)
    BY <1>4, <1>5 DEF InRecordOrder
<1> QED BY <1>3, <1>6 DEF a

\* In record order, a time before some version is before the newest one.
LEMMA BeforeNewest ==
    ASSUME NEW S, NEW s \in Seq(S), NEW e \in S, NEW t \in Nat,
           InRecordOrder(Append(s, e)), Timed(Append(s, e)),
           RecordedBefore(t, Append(s, e))
    PROVE  t < e.recorded
<1> DEFINE a == Append(s, e)
<1>1. /\ Len(s) \in Nat /\ DOMAIN a = 1 .. (Len(s) + 1) /\ a[Len(s) + 1] = e
    BY AppendIndices
<1> HIDE DEF a
<1>2. InRecordOrder(a) /\ Timed(a) /\ RecordedBefore(t, a)
    BY DEF a
<1>3. PICK i \in DOMAIN a : t < a[i].recorded
    BY <1>2 DEF RecordedBefore
<1>4. Len(s) + 1 \in DOMAIN a
    BY <1>1
<1>5. CASE i = Len(s) + 1
    BY <1>5, <1>3, <1>1
<1>6. CASE i < Len(s) + 1
    <2>1. a[i].recorded <= a[Len(s) + 1].recorded
        BY <1>2, <1>4, <1>6 DEF InRecordOrder
    <2>2. a[i].recorded \in Nat /\ a[Len(s) + 1].recorded \in Nat
        BY <1>2, <1>4 DEF Timed
    <2> QED BY <2>1, <2>2, <1>3, <1>1
<1> QED BY <1>5, <1>6, <1>1

\* A version recorded after the cutoff does not change what was known at it.
LEMMA KnownBefore ==
    ASSUME NEW S, NEW s \in Seq(S), NEW e \in S, NEW t \in Nat,
           e.recorded \in Nat, t < e.recorded
    PROVE  KnownVersions(Append(s, e), t) = KnownVersions(s, t)
<1> DEFINE a == Append(s, e)
           I(v) == {j \in DOMAIN v :
                      /\ v[j].recorded <= t
                      /\ \A k \in DOMAIN v :
                            (v[k].key = v[j].key /\ v[k].recorded <= t) => k <= j}
<1>1. /\ DOMAIN s = 1 .. Len(s) /\ Len(s) \in Nat
      /\ DOMAIN a = 1 .. (Len(s) + 1)
      /\ \A i \in 1 .. Len(s) : a[i] = s[i]
      /\ a[Len(s) + 1] = e
    BY AppendIndices
<1> HIDE DEF a
<1>2. ~(a[Len(s) + 1].recorded <= t)
    BY <1>1
<1>3. \A j \in I(a) : j \in I(s)
    <2> SUFFICES ASSUME NEW j \in I(a) PROVE j \in I(s)
        OBVIOUS
    <2>1. j \in 1 .. Len(s)
        BY <1>1, <1>2
    <2> QED BY <2>1, <1>1
<1>4. \A j \in I(s) : j \in I(a)
    <2> SUFFICES ASSUME NEW j \in I(s) PROVE j \in I(a)
        OBVIOUS
    <2>1. j \in 1 .. Len(s) /\ j \in DOMAIN a /\ a[j] = s[j]
        BY <1>1
    <2>2. ASSUME NEW k \in DOMAIN a, a[k].key = a[j].key, a[k].recorded <= t
          PROVE  k <= j
        <3>1. k \in 1 .. Len(s)
            BY <2>2, <1>1, <1>2
        <3> QED BY <3>1, <2>1, <2>2, <1>1
    <2> QED BY <2>1, <2>2
<1>5. I(a) = I(s) /\ \A j \in I(s) : a[j] = s[j]
    BY <1>1, <1>3, <1>4
<1>6. KnownVersions(a, t) = {a[j] : j \in I(a)} /\ KnownVersions(s, t) = {s[j] : j \in I(s)}
    BY DEF KnownVersions
<1> HIDE DEF I
<1>7. {a[j] : j \in I(a)} = {s[j] : j \in I(s)}
    BY <1>5
<1> QED BY <1>6, <1>7 DEF a
-----------------------------------------------------------------------------
(* The steps of the marks: those of OwnerSeries, and the store of a trade. *)

StoreRow(row) ==
    /\ StorePrice(row) /\ row.recorded = now
    /\ UNCHANGED <<now, fx, fxVersions, priceVersions, benchmarks, admitted>>

Moves == Next \/ \E row \in PriceRows : StoreRow(row)

LEMMA RecordedIsStored ==
    ASSUME now \in Times, NEW id \in Ids, NEW i \in Instruments, NEW y \in Symbols,
           NEW w \in Venues, NEW v \in Values, NEW o \in Times, NEW f \in Times,
           RecordPriceObservation(id, i, y, w, v, o, f)
    PROVE  \E row \in PriceRows : StoreRow(row) /\ row.source = "local_fixture"
<1> DEFINE row == [source |-> "local_fixture", id |-> id, instrument |-> i,
                   symbol |-> y, venue |-> w, value |-> v,
                   observed |-> o, fetched |-> f, recorded |-> now]
<1>1. row \in PriceRows /\ row.recorded = now /\ row.source = "local_fixture"
    BY DEF PriceRows
<1>2. StorePrice(row) /\ UNCHANGED <<now, fx, fxVersions, priceVersions, benchmarks, admitted>>
    BY DEF RecordPriceObservation
<1> HIDE DEF row
<1> QED BY <1>1, <1>2 DEF StoreRow

-----------------------------------------------------------------------------
(* Types.                                                                  *)

LEMMA InitTyped == Init => SeriesTypeOK
<1> SUFFICES ASSUME Init PROVE SeriesTypeOK
    OBVIOUS
<1> QED BY DEF Init, SeriesTypeOK

LEMMA NextTyped == SeriesTypeOK /\ [Moves]_vars => SeriesTypeOK'
<1> SUFFICES ASSUME SeriesTypeOK, [Moves]_vars PROVE SeriesTypeOK'
    OBVIOUS
<1> USE DEF SeriesTypeOK
<1>1. ASSUME NEW id \in Ids, NEW p \in Pairs, NEW v \in Values, NEW o \in Times,
             NEW f \in Times, RecordFXObservation(id, p, v, o, f)
      PROVE  SeriesTypeOK'
    <2> DEFINE row == [id |-> id, pair |-> p, value |-> v,
                       observed |-> o, fetched |-> f, recorded |-> now]
    <2>1. row \in FXRows
        BY DEF FXRows
    <2>2. fx' = Append(fx, row) /\ UNCHANGED <<now, fxVersions, prices, priceVersions, benchmarks, admitted>>
        BY <1>1 DEF RecordFXObservation
    <2> HIDE DEF row
    <2>3. fx' \in Seq(FXRows)
        BY <2>1, <2>2
    <2> QED BY <2>2, <2>3
<1>2. ASSUME NEW row \in PriceRows, StoreRow(row) PROVE SeriesTypeOK'
    <2>1. /\ prices' = Append(prices, row)
          /\ UNCHANGED <<now, fx, fxVersions, priceVersions, benchmarks, admitted>>
        BY <1>2 DEF StoreRow, StorePrice
    <2>2. prices' \in Seq(PriceRows)
        BY <2>1
    <2> QED BY <2>1, <2>2
<1>3. ASSUME NEW p \in Pairs, NEW n \in Names, NEW f \in Times, NEW s \in PointSeqs(f),
             ImportOwnerFX(p, n, s, f)
      PROVE  SeriesTypeOK'
    <2> DEFINE row == [key |-> p, name |-> n, points |-> s, fetched |-> f, recorded |-> now]
    <2>1. row \in FXVersionRows
        BY PointsTyped DEF FXVersionRows
    <2>2. fxVersions' = Append(fxVersions, row) /\ UNCHANGED <<now, fx, prices, priceVersions, benchmarks, admitted>>
        BY <1>3 DEF ImportOwnerFX
    <2> HIDE DEF row
    <2>3. fxVersions' \in Seq(FXVersionRows)
        BY <2>1, <2>2
    <2> QED BY <2>2, <2>3
<1>4. ASSUME NEW i \in Instruments, NEW n \in Names, NEW w \in Venues, NEW f \in Times,
             NEW s \in PointSeqs(f), ImportOwnerPrice(i, n, w, s, f)
      PROVE  SeriesTypeOK'
    <2> DEFINE row == [key |-> i, name |-> n, venue |-> w, points |-> s,
                       fetched |-> f, recorded |-> now]
    <2>1. row \in PriceVersionRows
        BY PointsTyped DEF PriceVersionRows
    <2>2. priceVersions' = Append(priceVersions, row) /\ UNCHANGED <<now, fx, fxVersions, prices, benchmarks, admitted>>
        BY <1>4 DEF ImportOwnerPrice
    <2> HIDE DEF row
    <2>3. priceVersions' \in Seq(PriceVersionRows)
        BY <2>1, <2>2
    <2> QED BY <2>2, <2>3
<1>5. ASSUME NEW b \in Benchmarks, NEW d \in Definitions, NEW n \in Names, NEW f \in Times,
             NEW s \in PointSeqs(f), ImportBenchmark(b, d, n, s, f)
      PROVE  SeriesTypeOK'
    <2> DEFINE row == [key |-> b, definition |-> d, name |-> n, points |-> s,
                       fetched |-> f, recorded |-> now]
    <2>1. row \in BenchmarkRows
        BY PointsTyped DEF BenchmarkRows
    <2>2. benchmarks' = Append(benchmarks, row) /\ UNCHANGED <<now, fx, fxVersions, prices, priceVersions, admitted>>
        BY <1>5 DEF ImportBenchmark
    <2> HIDE DEF row
    <2>3. benchmarks' \in Seq(BenchmarkRows)
        BY <2>1, <2>2
    <2> QED BY <2>2, <2>3
<1>6. ASSUME NEW i \in Instruments, Admit(i) PROVE SeriesTypeOK'
    BY <1>6 DEF Admit
<1>7. ASSUME NEW t \in Times, SetClock(t) PROVE SeriesTypeOK'
    BY <1>7 DEF SetClock
<1>8. CASE UNCHANGED vars
    BY <1>8 DEF vars
<1>9. CASE Next
    <2>1. ASSUME NEW id \in Ids, NEW i \in Instruments, NEW y \in Symbols, NEW w \in Venues,
                 NEW v \in Values, NEW o \in Times, NEW f \in Times,
                 RecordPriceObservation(id, i, y, w, v, o, f)
          PROVE  SeriesTypeOK'
        BY <1>2, <2>1, RecordedIsStored DEF SeriesTypeOK
    <2> QED BY <1>1, <1>3, <1>4, <1>5, <1>6, <1>7, <1>9, <2>1 DEF Next
<1> QED BY <1>2, <1>8, <1>9 DEF Moves

\* The times of a typed table of versions are numbers.
LEMMA VersionsTimed ==
    ASSUME SeriesTypeOK
    PROVE  /\ now \in Nat
           /\ Timed(fxVersions) /\ Timed(priceVersions) /\ Timed(benchmarks)
<1>1. Times \subseteq Nat
    BY OwnerSeriesAssumption DEF Times
<1>2. \A i \in DOMAIN fxVersions : fxVersions[i] \in FXVersionRows
    BY DEF SeriesTypeOK
<1>3. \A i \in DOMAIN priceVersions : priceVersions[i] \in PriceVersionRows
    BY DEF SeriesTypeOK
<1>4. \A i \in DOMAIN benchmarks : benchmarks[i] \in BenchmarkRows
    BY DEF SeriesTypeOK
<1> QED BY <1>1, <1>2, <1>3, <1>4
        DEF SeriesTypeOK, Timed, FXVersionRows, PriceVersionRows, BenchmarkRows

-----------------------------------------------------------------------------
(* What is stored can be read.                                             *)

LEMMA InitReplays == Init => SeriesReplay
BY DEF Init, SeriesReplay, ReplayOwnerFX, ReplayOwnerPrice, ReplayBenchmarks,
       InRecordOrder, Rows

\* A set of indices below a bound has a largest one.
LEMMA LargestIndex ==
    ASSUME NEW n \in Nat, NEW M, M \subseteq 0 .. n, M # {}
    PROVE  \E i \in M : \A j \in M : j <= i
<1> DEFINE Gaps == {g \in Nat : n - g \in M}
           Less == {pair \in Nat \X Nat : pair[1] < pair[2]}
<1>0. IsWellFoundedOn(Less, Nat)
    BY NatLessThanWellFounded, Zenon DEF OpToRel
<1>1. PICK g \in Gaps : \A h \in Gaps : <<h, g>> \notin Less
    <2>1. Gaps # {}
        <3>1. PICK j \in M : TRUE
            OBVIOUS
        <3>2. j \in 0 .. n
            BY <3>1
        <3>3. n - j \in Nat /\ n - (n - j) = j
            BY <3>2
        <3> QED BY <3>1, <3>3
    <2>2. Gaps \subseteq Nat
        OBVIOUS
    <2> HIDE DEF Gaps, Less
    <2> QED BY <2>1, <2>2, <1>0, WFMin
<1>2. ASSUME NEW h \in Gaps PROVE g <= h
    <2>1. g \in Nat /\ h \in Nat /\ <<h, g>> \notin Less
        BY <1>1
    <2>2. <<h, g>>[1] = h /\ <<h, g>>[2] = g /\ <<h, g>> \in Nat \X Nat
        BY <2>1
    <2>3. ~(h < g)
        BY <2>1, <2>2, Zenon
    <2> QED BY <2>1, <2>3
<1>3. ASSUME NEW j \in M PROVE j <= n - g
    <2>1. j \in Nat /\ n - j \in Nat /\ n - (n - j) = j
        BY <1>3
    <2>2. n - j \in Gaps
        BY <2>1, <1>3
    <2>3. g <= n - j
        BY <2>2, <1>2
    <2>4. g \in Nat
        BY <1>1
    <2> QED BY <2>1, <2>3, <2>4
<1> QED BY <1>1, <1>3

\* The rows of one key agree, so what the newest of them defines they all do:
\* a finite set of indices has a largest one.
LEMMA NewestDefines ==
    ASSUME benchmarks \in Seq(BenchmarkRows), ReplayBenchmarks, NEW b, NEW d,
           \A i \in DOMAIN benchmarks :
              (/\ benchmarks[i].key = b
               /\ \A j \in DOMAIN benchmarks : benchmarks[j].key = b => j <= i)
                 => benchmarks[i].definition = d
    PROVE  \A u \in Rows(benchmarks) : u.key = b => u.definition = d
<1> DEFINE Mine == {i \in DOMAIN benchmarks : benchmarks[i].key = b}
<1>1. SUFFICES ASSUME Mine # {}
               PROVE  \A u \in Rows(benchmarks) : u.key = b => u.definition = d
    BY DEF Rows
<1>2. DOMAIN benchmarks = 1 .. Len(benchmarks) /\ Len(benchmarks) \in Nat
    OBVIOUS
<1>3. PICK i \in Mine : \A j \in Mine : j <= i
    <2>1. Mine \subseteq 0 .. Len(benchmarks)
        BY <1>2
    <2> HIDE DEF Mine
    <2> QED BY <1>1, <1>2, <2>1, LargestIndex
<1>4. benchmarks[i].definition = d
    BY <1>3
<1>5. benchmarks[i] \in Rows(benchmarks)
    BY DEF Rows
<1> QED BY <1>4, <1>5 DEF ReplayBenchmarks

LEMMA NextReplays ==
    SeriesTypeOK /\ SeriesReplay /\ [Moves]_vars => SeriesReplay'
<1> SUFFICES ASSUME SeriesTypeOK, SeriesReplay, [Moves]_vars PROVE SeriesReplay'
    OBVIOUS
<1>0. /\ Timed(fxVersions) /\ Timed(priceVersions) /\ Timed(benchmarks)
      /\ now \in Nat /\ \A f \in Times : f \in Nat
    BY VersionsTimed, OwnerSeriesAssumption DEF Times
<1> DEFINE StaysFX == UNCHANGED <<fx, fxVersions>>
           StaysPrice == UNCHANGED <<prices, priceVersions>> /\ admitted \subseteq admitted'
           StaysBenchmark == UNCHANGED benchmarks
<1>a. StaysFX => ReplayOwnerFX'
    BY DEF SeriesReplay, ReplayOwnerFX, InRecordOrder, Rows
<1>b. StaysPrice => ReplayOwnerPrice'
    BY DEF SeriesReplay, ReplayOwnerPrice, InRecordOrder, Rows
<1>c. StaysBenchmark => ReplayBenchmarks'
    BY DEF SeriesReplay, ReplayBenchmarks, InRecordOrder, Rows
<1>1. ASSUME NEW id \in Ids, NEW p \in Pairs, NEW v \in Values, NEW o \in Times,
             NEW f \in Times, RecordFXObservation(id, p, v, o, f)
      PROVE  SeriesReplay'
    <2> DEFINE row == [id |-> id, pair |-> p, value |-> v,
                       observed |-> o, fetched |-> f, recorded |-> now]
    <2>1. row \in FXRows /\ row.pair = p
        BY DEF FXRows, SeriesTypeOK
    <2>2. /\ fx' = Append(fx, row) /\ fxVersions' = fxVersions
          /\ StaysPrice /\ StaysBenchmark
          /\ \A u \in Rows(fxVersions) : u.key # p
        BY <1>1 DEF RecordFXObservation
    <2> HIDE DEF row
    <2>3. Rows(fx') = Rows(fx) \cup {row}
        BY <2>1, <2>2, AppendRows DEF SeriesTypeOK
    <2>4. ReplayOwnerFX'
        <3>1. InRecordOrder(fxVersions')
            BY <2>2 DEF SeriesReplay, ReplayOwnerFX
        <3>2. \A u \in Rows(fxVersions'), m \in Rows(fx') : u.key # m.pair
            BY <2>1, <2>2, <2>3 DEF SeriesReplay, ReplayOwnerFX
        <3> QED BY <3>1, <3>2 DEF ReplayOwnerFX
    <2> QED BY <2>2, <2>4, <1>b, <1>c DEF SeriesReplay
<1>2. ASSUME NEW row \in PriceRows, StoreRow(row) PROVE SeriesReplay'
    <2>1. /\ prices' = Append(prices, row) /\ priceVersions' = priceVersions
          /\ admitted' = admitted /\ StaysFX /\ StaysBenchmark
          /\ \A u \in Rows(priceVersions) : u.key # row.instrument
        BY <1>2 DEF StoreRow, StorePrice
    <2>2. Rows(prices') = Rows(prices) \cup {row}
        BY <2>1, AppendRows DEF SeriesTypeOK
    <2>3. ReplayOwnerPrice'
        <3>1. InRecordOrder(priceVersions') /\ \A u \in Rows(priceVersions') : u.key \in admitted'
            BY <2>1 DEF SeriesReplay, ReplayOwnerPrice
        <3>2. \A u \in Rows(priceVersions'), m \in Rows(prices') : u.key # m.instrument
            BY <2>1, <2>2 DEF SeriesReplay, ReplayOwnerPrice
        <3> QED BY <3>1, <3>2 DEF ReplayOwnerPrice
    <2> QED BY <2>1, <2>3, <1>a, <1>c DEF SeriesReplay
<1>3. ASSUME NEW p \in Pairs, NEW n \in Names, NEW f \in Times, NEW s \in PointSeqs(f),
             ImportOwnerFX(p, n, s, f)
      PROVE  SeriesReplay'
    <2> DEFINE row == [key |-> p, name |-> n, points |-> s, fetched |-> f, recorded |-> now]
    <2>1. row \in FXVersionRows /\ row.key = p /\ row.fetched = f /\ row.recorded = now
        BY PointsTyped DEF FXVersionRows, SeriesTypeOK
    <2>2. /\ fxVersions' = Append(fxVersions, row) /\ fx' = fx
          /\ StaysPrice /\ StaysBenchmark
          /\ \A m \in Rows(fx) : m.pair # p
          /\ fxVersions # <<>> => Last(fxVersions).recorded <= now
          /\ f <= now
        BY <1>3 DEF ImportOwnerFX, RecordTime
    <2> HIDE DEF row
    <2>3. Rows(fxVersions') = Rows(fxVersions) \cup {row}
        BY <2>1, <2>2, AppendRows DEF SeriesTypeOK
    <2>4. InRecordOrder(fxVersions)
        BY DEF SeriesReplay, ReplayOwnerFX
    <2>5. InRecordOrder(fxVersions')
        BY <2>1, <2>2, <2>4, <1>0, AppendInOrder DEF SeriesTypeOK
    <2>6. \A u \in Rows(fxVersions'), m \in Rows(fx') : u.key # m.pair
        BY <2>1, <2>2, <2>3 DEF SeriesReplay, ReplayOwnerFX
    <2>7. ReplayOwnerFX'
        BY <2>5, <2>6 DEF ReplayOwnerFX
    <2> QED BY <2>2, <2>7, <1>b, <1>c DEF SeriesReplay
<1>4. ASSUME NEW i \in Instruments, NEW n \in Names, NEW w \in Venues, NEW f \in Times,
             NEW s \in PointSeqs(f), ImportOwnerPrice(i, n, w, s, f)
      PROVE  SeriesReplay'
    <2> DEFINE row == [key |-> i, name |-> n, venue |-> w, points |-> s,
                       fetched |-> f, recorded |-> now]
    <2>1. row \in PriceVersionRows /\ row.key = i /\ row.fetched = f /\ row.recorded = now
        BY PointsTyped DEF PriceVersionRows, SeriesTypeOK
    <2>2. /\ priceVersions' = Append(priceVersions, row) /\ prices' = prices
          /\ admitted' = admitted /\ i \in admitted /\ StaysFX /\ StaysBenchmark
          /\ \A m \in Rows(prices) : m.instrument # i
          /\ priceVersions # <<>> => Last(priceVersions).recorded <= now
          /\ f <= now
        BY <1>4 DEF ImportOwnerPrice, RecordTime
    <2> HIDE DEF row
    <2>3. Rows(priceVersions') = Rows(priceVersions) \cup {row}
        BY <2>1, <2>2, AppendRows DEF SeriesTypeOK
    <2>4. InRecordOrder(priceVersions)
        BY DEF SeriesReplay, ReplayOwnerPrice
    <2>5. InRecordOrder(priceVersions')
        BY <2>1, <2>2, <2>4, <1>0, AppendInOrder DEF SeriesTypeOK
    <2>6. \A u \in Rows(priceVersions'), m \in Rows(prices') : u.key # m.instrument
        BY <2>1, <2>2, <2>3 DEF SeriesReplay, ReplayOwnerPrice
    <2>7. \A u \in Rows(priceVersions') : u.key \in admitted'
        BY <2>1, <2>2, <2>3 DEF SeriesReplay, ReplayOwnerPrice
    <2>8. ReplayOwnerPrice'
        BY <2>5, <2>6, <2>7 DEF ReplayOwnerPrice
    <2> QED BY <2>2, <2>8, <1>a, <1>c DEF SeriesReplay
<1>5. ASSUME NEW b \in Benchmarks, NEW d \in Definitions, NEW n \in Names, NEW f \in Times,
             NEW s \in PointSeqs(f), ImportBenchmark(b, d, n, s, f)
      PROVE  SeriesReplay'
    <2> DEFINE row == [key |-> b, definition |-> d, name |-> n, points |-> s,
                       fetched |-> f, recorded |-> now]
    <2>1. /\ row \in BenchmarkRows /\ row.key = b /\ row.definition = d
          /\ row.fetched = f /\ row.recorded = now
        BY PointsTyped DEF BenchmarkRows, SeriesTypeOK
    <2>2. /\ benchmarks' = Append(benchmarks, row)
          /\ StaysFX /\ StaysPrice
          /\ \A i \in DOMAIN benchmarks :
                (/\ benchmarks[i].key = b
                 /\ \A j \in DOMAIN benchmarks : benchmarks[j].key = b => j <= i)
                   => benchmarks[i].definition = d
          /\ benchmarks # <<>> => Last(benchmarks).recorded <= now
          /\ f <= now
        BY <1>5 DEF ImportBenchmark, RecordTime
    <2> HIDE DEF row
    <2>3. Rows(benchmarks') = Rows(benchmarks) \cup {row}
        BY <2>1, <2>2, AppendRows DEF SeriesTypeOK
    <2>4. InRecordOrder(benchmarks)
        BY DEF SeriesReplay, ReplayBenchmarks
    <2>5. InRecordOrder(benchmarks')
        BY <2>1, <2>2, <2>4, <1>0, AppendInOrder DEF SeriesTypeOK
    <2>6. \A u \in Rows(benchmarks) : u.key = b => u.definition = d
        BY <2>2, NewestDefines DEF SeriesReplay, SeriesTypeOK
    <2>7. \A u, v \in Rows(benchmarks') : u.key = v.key => u.definition = v.definition
        BY <2>1, <2>3, <2>6 DEF SeriesReplay, ReplayBenchmarks
    <2>8. ReplayBenchmarks'
        BY <2>5, <2>7 DEF ReplayBenchmarks
    <2> QED BY <2>2, <2>8, <1>a, <1>b DEF SeriesReplay
<1>6. ASSUME NEW i \in Instruments, Admit(i) PROVE SeriesReplay'
    <2>1. StaysFX /\ StaysPrice /\ StaysBenchmark
        BY <1>6 DEF Admit
    <2> QED BY <2>1, <1>a, <1>b, <1>c DEF SeriesReplay
<1>7. ASSUME NEW t \in Times, SetClock(t) PROVE SeriesReplay'
    <2>1. StaysFX /\ StaysPrice /\ StaysBenchmark
        BY <1>7 DEF SetClock
    <2> QED BY <2>1, <1>a, <1>b, <1>c DEF SeriesReplay
<1>8. CASE UNCHANGED vars
    <2>1. StaysFX /\ StaysPrice /\ StaysBenchmark
        BY <1>8 DEF vars
    <2> QED BY <2>1, <1>a, <1>b, <1>c DEF SeriesReplay
<1>9. CASE Next
    <2>1. ASSUME NEW id \in Ids, NEW i \in Instruments, NEW y \in Symbols, NEW w \in Venues,
                 NEW v \in Values, NEW o \in Times, NEW f \in Times,
                 RecordPriceObservation(id, i, y, w, v, o, f)
          PROVE  SeriesReplay'
        BY <1>2, <2>1, RecordedIsStored DEF SeriesTypeOK
    <2> QED BY <1>1, <1>3, <1>4, <1>5, <1>6, <1>7, <1>9, <2>1 DEF Next
<1> QED BY <1>2, <1>8, <1>9 DEF Moves

-----------------------------------------------------------------------------
(* The past of a series.                                                   *)

\* Where the tables of rates stay, so do the rates.
LEMMA SameRates ==
    ASSUME NEW p, NEW t, UNCHANGED <<fx, fxVersions>>
    PROVE  LatestCashFX(p, t)' = LatestCashFX(p, t)
BY DEF LatestCashFX, ValuationFX

LEMMA SamePrices ==
    ASSUME NEW i, NEW e, NEW t, UNCHANGED <<prices, priceVersions>>
    PROVE  HoldingPrice(i, e, t)' = HoldingPrice(i, e, t)
BY DEF HoldingPrice, ValuationPrices

LEMMA SameLevels ==
    ASSUME NEW b, NEW e, NEW t, UNCHANGED benchmarks
    PROVE  BenchmarkPoint(b, e, t)' = BenchmarkPoint(b, e, t)
BY DEF BenchmarkPoint

\* Fixtures of other pairs do not change the rate of a pair.
LEMMA RatesOfOthers ==
    ASSUME NEW p \in Pairs, NEW t, NEW row \in FXRows, row.pair # p,
           Rows(fx') = Rows(fx) \cup {row}, UNCHANGED fxVersions
    PROVE  LatestCashFX(p, t)' = LatestCashFX(p, t)
<1> DEFINE Mine(M) == {m \in M : m.key = p /\ m.observed <= t /\ m.fetched <= t /\ m.recorded <= t}
           mark == [key |-> row.pair, value |-> row.value, observed |-> row.observed,
                    fetched |-> row.fetched, recorded |-> row.recorded]
<1>1. ValuationFX(t)' = ValuationFX(t) \cup {mark}
    <2>1. RateMarks(Rows(fx')) = RateMarks(Rows(fx)) \cup {mark}
        BY DEF RateMarks
    <2> HIDE DEF mark
    <2> QED BY <2>1 DEF ValuationFX
<1>2. mark.key # p
    OBVIOUS
<1> HIDE DEF mark
<1>3. Mine(ValuationFX(t)') = Mine(ValuationFX(t))
    BY <1>1, <1>2
<1>4. /\ LatestCashFX(p, t) = Latest(Mine(ValuationFX(t)))
      /\ LatestCashFX(p, t)' = Latest(Mine(ValuationFX(t)'))
    BY DEF LatestCashFX
<1> HIDE DEF Mine
<1> QED BY <1>3, <1>4

LEMMA PricesOfOthers ==
    ASSUME NEW i \in Instruments, NEW e, NEW t, NEW row \in PriceRows, row.instrument # i,
           Rows(prices') = Rows(prices) \cup {row}, UNCHANGED priceVersions
    PROVE  HoldingPrice(i, e, t)' = HoldingPrice(i, e, t)
<1> DEFINE Mine(M) == {m \in M : /\ m.key = i /\ m.symbol = SymbolOf[i]
                                 /\ m.observed <= e
                                 /\ m.fetched <= t /\ m.recorded <= t}
           Shown(M) == IF Cardinality({m.venue : m \in M}) = 1 THEN Latest(M) ELSE {}
           Local == {o \in Rows(prices) : o.source = "local_fixture"}
           LocalNext == {o \in Rows(prices') : o.source = "local_fixture"}
           mark == [key |-> row.instrument, symbol |-> row.symbol, venue |-> row.venue,
                    value |-> row.value, observed |-> row.observed,
                    fetched |-> row.fetched, recorded |-> row.recorded]
<1>1. /\ ValuationPrices(t) \subseteq ValuationPrices(t)'
      /\ ValuationPrices(t)' \subseteq ValuationPrices(t) \cup {mark}
    <2>1. Local \subseteq LocalNext /\ LocalNext \subseteq Local \cup {row}
        OBVIOUS
    <2>2. /\ ValuationPrices(t) =
                 PriceMarks(Local) \cup VersionPrices(KnownVersions(priceVersions, t))
          /\ ValuationPrices(t)' =
                 PriceMarks(LocalNext) \cup VersionPrices(KnownVersions(priceVersions, t))
        BY DEF ValuationPrices
    <2> HIDE DEF Local, LocalNext
    <2>3. /\ PriceMarks(Local) \subseteq PriceMarks(LocalNext)
          /\ PriceMarks(LocalNext) \subseteq PriceMarks(Local) \cup {mark}
        BY <2>1 DEF PriceMarks
    <2> HIDE DEF mark
    <2> QED BY <2>2, <2>3
<1>2. mark.key # i
    OBVIOUS
<1> HIDE DEF mark
<1>3. Mine(ValuationPrices(t)') = Mine(ValuationPrices(t))
    BY <1>1, <1>2
<1>4. /\ HoldingPrice(i, e, t) = Shown(Mine(ValuationPrices(t)))
      /\ HoldingPrice(i, e, t)' = Shown(Mine(ValuationPrices(t)'))
    BY DEF HoldingPrice
<1> HIDE DEF Mine, Shown
<1> QED BY <1>3, <1>4

\* A version recorded after the cutoff changes nothing selected at it.
LEMMA ImportAfterCutoff ==
    ASSUME NEW S, NEW s \in Seq(S), NEW row \in S, NEW t \in Nat,
           row.recorded \in Nat, Timed(s), row.fetched \in Nat,
           InRecordOrder(Append(s, row)), RecordedBefore(t, Append(s, row))
    PROVE  KnownVersions(Append(s, row), t) = KnownVersions(s, t)
<1>1. Timed(Append(s, row))
    <2>1. /\ DOMAIN s = 1 .. Len(s) /\ Len(s) \in Nat
          /\ DOMAIN Append(s, row) = 1 .. (Len(s) + 1)
          /\ \A i \in 1 .. Len(s) : Append(s, row)[i] = s[i]
          /\ Append(s, row)[Len(s) + 1] = row
        BY AppendIndices
    <2> DEFINE a == Append(s, row)
    <2> HIDE DEF a
    <2>2. ASSUME NEW i \in DOMAIN a PROVE a[i].recorded \in Nat /\ a[i].fetched \in Nat
        <3>1. i = Len(s) + 1 \/ i \in 1 .. Len(s)
            BY <2>1 DEF a
        <3> QED BY <3>1, <2>1 DEF Timed, a
    <2> QED BY <2>2 DEF Timed, a
<1>2. t < row.recorded
    BY <1>1, BeforeNewest
<1> QED BY <1>2, KnownBefore

Past ==
    /\ \A p \in Pairs, t \in Times :
          ((\E v \in Rows(fxVersions) : v.key = p) /\ RecordedBefore(t, fxVersions'))
             => LatestCashFX(p, t)' = LatestCashFX(p, t)
    /\ \A i \in Instruments, e, t \in Times :
          ((\E v \in Rows(priceVersions) : v.key = i) /\ RecordedBefore(t, priceVersions'))
             => HoldingPrice(i, e, t)' = HoldingPrice(i, e, t)
    /\ \A b \in Benchmarks, e, t \in Times :
          RecordedBefore(t, benchmarks')
             => BenchmarkPoint(b, e, t)' = BenchmarkPoint(b, e, t)

LEMMA NextKeepsPast ==
    SeriesTypeOK /\ SeriesReplay /\ SeriesReplay' /\ [Moves]_vars => Past
<1> SUFFICES ASSUME SeriesTypeOK, SeriesReplay, SeriesReplay', [Moves]_vars PROVE Past
    OBVIOUS
<1> DEFINE KeepFX == UNCHANGED <<fx, fxVersions>>
           KeepPrice == UNCHANGED <<prices, priceVersions>>
           KeepBenchmark == UNCHANGED benchmarks
           PastFX == \A p \in Pairs, t \in Times :
                        ((\E v \in Rows(fxVersions) : v.key = p) /\ RecordedBefore(t, fxVersions'))
                           => LatestCashFX(p, t)' = LatestCashFX(p, t)
           PastPrice == \A i \in Instruments, e, t \in Times :
                           ((\E v \in Rows(priceVersions) : v.key = i) /\ RecordedBefore(t, priceVersions'))
                              => HoldingPrice(i, e, t)' = HoldingPrice(i, e, t)
           PastBenchmark == \A b \in Benchmarks, e, t \in Times :
                               RecordedBefore(t, benchmarks')
                                  => BenchmarkPoint(b, e, t)' = BenchmarkPoint(b, e, t)
<1>0. /\ Timed(fxVersions) /\ Timed(priceVersions) /\ Timed(benchmarks)
      /\ now \in Nat /\ \A f \in Times : f \in Nat
    BY VersionsTimed, OwnerSeriesAssumption DEF Times
<1>a. KeepFX => PastFX
    BY SameRates
<1>b. KeepPrice => PastPrice
    BY SamePrices
<1>c. KeepBenchmark => PastBenchmark
    BY SameLevels
<1>d. PastFX /\ PastPrice /\ PastBenchmark => Past
    BY DEF Past
<1> HIDE DEF PastFX, PastPrice, PastBenchmark
<1>1. ASSUME NEW id \in Ids, NEW q \in Pairs, NEW x \in Values, NEW o \in Times,
             NEW f \in Times, RecordFXObservation(id, q, x, o, f)
      PROVE  Past
    <2> DEFINE row == [id |-> id, pair |-> q, value |-> x,
                       observed |-> o, fetched |-> f, recorded |-> now]
    <2>1. row \in FXRows /\ row.pair = q
        BY DEF FXRows, SeriesTypeOK
    <2>2. /\ fx' = Append(fx, row) /\ fxVersions' = fxVersions
          /\ KeepPrice /\ KeepBenchmark
          /\ \A u \in Rows(fxVersions) : u.key # q
        BY <1>1 DEF RecordFXObservation
    <2> HIDE DEF row
    <2>3. Rows(fx') = Rows(fx) \cup {row}
        BY <2>1, <2>2, AppendRows DEF SeriesTypeOK
    <2>4. ASSUME NEW p \in Pairs, NEW t \in Times, \E v \in Rows(fxVersions) : v.key = p
          PROVE  LatestCashFX(p, t)' = LatestCashFX(p, t)
        <3>1. row.pair # p
            BY <2>1, <2>2, <2>4
        <3> QED BY <3>1, <2>1, <2>2, <2>3, RatesOfOthers
    <2>5. PastFX
        BY <2>4 DEF PastFX
    <2> QED BY <2>2, <2>5, <1>b, <1>c, <1>d
<1>2. ASSUME NEW row \in PriceRows, StoreRow(row) PROVE Past
    <2>1. /\ prices' = Append(prices, row) /\ priceVersions' = priceVersions
          /\ KeepFX /\ KeepBenchmark
          /\ \A u \in Rows(priceVersions) : u.key # row.instrument
        BY <1>2 DEF StoreRow, StorePrice
    <2>2. Rows(prices') = Rows(prices) \cup {row}
        BY <2>1, AppendRows DEF SeriesTypeOK
    <2>3. ASSUME NEW i \in Instruments, NEW e \in Times, NEW t \in Times,
                 \E v \in Rows(priceVersions) : v.key = i
          PROVE  HoldingPrice(i, e, t)' = HoldingPrice(i, e, t)
        <3>1. row.instrument # i
            BY <2>1, <2>3
        <3> QED BY <3>1, <2>1, <2>2, PricesOfOthers
    <2>4. PastPrice
        BY <2>3 DEF PastPrice
    <2> QED BY <2>1, <2>4, <1>a, <1>c, <1>d
<1>3. ASSUME NEW q \in Pairs, NEW n \in Names, NEW f \in Times, NEW s \in PointSeqs(f),
             ImportOwnerFX(q, n, s, f)
      PROVE  Past
    <2> DEFINE row == [key |-> q, name |-> n, points |-> s, fetched |-> f, recorded |-> now]
    <2>1. row \in FXVersionRows /\ row.fetched = f /\ row.recorded = now
        BY PointsTyped DEF FXVersionRows, SeriesTypeOK
    <2>2. /\ fxVersions' = Append(fxVersions, row) /\ fx' = fx
          /\ KeepPrice /\ KeepBenchmark
        BY <1>3 DEF ImportOwnerFX
    <2> HIDE DEF row
    <2>3. InRecordOrder(fxVersions')
        BY DEF SeriesReplay, ReplayOwnerFX
    <2>4. ASSUME NEW p \in Pairs, NEW t \in Times, RecordedBefore(t, fxVersions')
          PROVE  LatestCashFX(p, t)' = LatestCashFX(p, t)
        <3>1. KnownVersions(fxVersions', t) = KnownVersions(fxVersions, t)
            BY <2>1, <2>2, <2>3, <2>4, <1>0, ImportAfterCutoff DEF SeriesTypeOK
        <3>2. ValuationFX(t)' = ValuationFX(t)
            BY <3>1, <2>2 DEF ValuationFX
        <3> QED BY <3>2 DEF LatestCashFX
    <2>5. PastFX
        BY <2>4 DEF PastFX
    <2> QED BY <2>2, <2>5, <1>b, <1>c, <1>d
<1>4. ASSUME NEW j \in Instruments, NEW n \in Names, NEW w \in Venues, NEW f \in Times,
             NEW s \in PointSeqs(f), ImportOwnerPrice(j, n, w, s, f)
      PROVE  Past
    <2> DEFINE row == [key |-> j, name |-> n, venue |-> w, points |-> s,
                       fetched |-> f, recorded |-> now]
    <2>1. row \in PriceVersionRows /\ row.fetched = f /\ row.recorded = now
        BY PointsTyped DEF PriceVersionRows, SeriesTypeOK
    <2>2. /\ priceVersions' = Append(priceVersions, row) /\ prices' = prices
          /\ KeepFX /\ KeepBenchmark
        BY <1>4 DEF ImportOwnerPrice
    <2> HIDE DEF row
    <2>3. InRecordOrder(priceVersions')
        BY DEF SeriesReplay, ReplayOwnerPrice
    <2>4. ASSUME NEW i \in Instruments, NEW e \in Times, NEW t \in Times,
                 RecordedBefore(t, priceVersions')
          PROVE  HoldingPrice(i, e, t)' = HoldingPrice(i, e, t)
        <3>1. KnownVersions(priceVersions', t) = KnownVersions(priceVersions, t)
            BY <2>1, <2>2, <2>3, <2>4, <1>0, ImportAfterCutoff DEF SeriesTypeOK
        <3>2. ValuationPrices(t)' = ValuationPrices(t)
            BY <3>1, <2>2 DEF ValuationPrices
        <3> QED BY <3>2 DEF HoldingPrice
    <2>5. PastPrice
        BY <2>4 DEF PastPrice
    <2> QED BY <2>2, <2>5, <1>a, <1>c, <1>d
<1>5. ASSUME NEW c \in Benchmarks, NEW d \in Definitions, NEW n \in Names, NEW f \in Times,
             NEW s \in PointSeqs(f), ImportBenchmark(c, d, n, s, f)
      PROVE  Past
    <2> DEFINE row == [key |-> c, definition |-> d, name |-> n, points |-> s,
                       fetched |-> f, recorded |-> now]
    <2>1. row \in BenchmarkRows /\ row.fetched = f /\ row.recorded = now
        BY PointsTyped DEF BenchmarkRows, SeriesTypeOK
    <2>2. benchmarks' = Append(benchmarks, row) /\ KeepFX /\ KeepPrice
        BY <1>5 DEF ImportBenchmark
    <2> HIDE DEF row
    <2>3. InRecordOrder(benchmarks')
        BY DEF SeriesReplay, ReplayBenchmarks
    <2>4. ASSUME NEW b \in Benchmarks, NEW e \in Times, NEW t \in Times,
                 RecordedBefore(t, benchmarks')
          PROVE  BenchmarkPoint(b, e, t)' = BenchmarkPoint(b, e, t)
        <3>1. KnownVersions(benchmarks', t) = KnownVersions(benchmarks, t)
            BY <2>1, <2>2, <2>3, <2>4, <1>0, ImportAfterCutoff DEF SeriesTypeOK
        <3> QED BY <3>1 DEF BenchmarkPoint
    <2>5. PastBenchmark
        BY <2>4 DEF PastBenchmark
    <2> QED BY <2>2, <2>5, <1>a, <1>b, <1>d
<1>6. ASSUME KeepFX, KeepPrice, KeepBenchmark PROVE Past
    BY <1>6, <1>a, <1>b, <1>c, <1>d
<1>7. ASSUME NEW i \in Instruments, Admit(i) PROVE Past
    BY <1>6, <1>7 DEF Admit
<1>8. ASSUME NEW t \in Times, SetClock(t) PROVE Past
    BY <1>6, <1>8 DEF SetClock
<1>9. CASE UNCHANGED vars
    BY <1>6, <1>9 DEF vars
<1>10. CASE Next
    <2>1. ASSUME NEW id \in Ids, NEW i \in Instruments, NEW y \in Symbols, NEW w \in Venues,
                 NEW v \in Values, NEW o \in Times, NEW f \in Times,
                 RecordPriceObservation(id, i, y, w, v, o, f)
          PROVE  Past
        BY <1>2, <2>1, RecordedIsStored DEF SeriesTypeOK
    <2> QED BY <1>1, <1>3, <1>4, <1>5, <1>7, <1>8, <1>10, <2>1 DEF Next
<1> QED BY <1>2, <1>9, <1>10 DEF Moves

-----------------------------------------------------------------------------
(* The registry and the captures.                                          *)

ListingRows ==
    [event : Nat, type : {"DECLARE", "REVOKE"}, instrument : Instruments, symbol : Symbols,
     previous : SUBSET Nat]

CaptureRows ==
    [at : {"idle", "asking", "traded", "writing", "stored", "failed"},
     symbol : Symbols \cup {NoValue}, value : Values \cup {NoValue},
     observed : Times, fetched : Times, instrument : Instruments \cup {NoValue}]

ListingsTyped ==
    listings \in Seq(ListingRows) /\ \A i \in DOMAIN listings : listings[i].event = i

\* A capture has what its next step needs.
CaptureKnows(d) ==
    /\ d.at \in {"asking", "traded", "writing"} => d.symbol \in Symbols
    /\ d.at \in {"traded", "writing"} => d.value \in Values
    /\ d.at = "writing" => d.instrument \in Instruments

CapturesTyped ==
    /\ capture \in [Captures -> CaptureRows]
    /\ \A c \in Captures : CaptureKnows(capture[c])
    /\ started \in 0 .. MaxCaptures

\* What a fixture or a version says was observed before it was fetched.
PricesInOrder ==
    /\ \A o \in Rows(prices) : o.observed <= o.fetched /\ o.fetched <= o.recorded
    /\ \A v \in Rows(priceVersions), i \in Nat :
          i \in DOMAIN v.points => v.points[i].observed <= v.fetched

\* A captured trade is stored once, whatever venue it is stored with.
TradesOnce ==
    \A i, j \in DOMAIN prices :
        (/\ prices[i].source = "kiwoom" /\ prices[j].source = "kiwoom"
         /\ prices[i].instrument = prices[j].instrument
         /\ prices[i].symbol = prices[j].symbol /\ prices[i].observed = prices[j].observed)
            => i = j

\* The inductive invariant of marks, registry and captures together.
CaptureInv ==
    /\ SeriesTypeOK /\ SeriesReplay
    /\ ListingsTyped /\ ListingsReplay /\ CapturesTyped
    /\ PricesInOrder /\ TradesOnce

LEMMA RowFields ==
    ASSUME NEW d \in CaptureRows
    PROVE  /\ d.at \in {"idle", "asking", "traded", "writing", "stored", "failed"}
           /\ d.symbol \in Symbols \cup {NoValue} /\ d.value \in Values \cup {NoValue}
           /\ d.observed \in Times /\ d.fetched \in Times
           /\ d.instrument \in Instruments \cup {NoValue}
BY DEF CaptureRows

LEMMA CaptureChanged ==
    ASSUME CapturesTyped, NEW c \in Captures, NEW to \in CaptureRows, CaptureKnows(to),
           capture' = [capture EXCEPT ![c] = to], started' \in 0 .. MaxCaptures
    PROVE  CapturesTyped'
<1>1. capture' \in [Captures -> CaptureRows]
    BY DEF CapturesTyped
<1>2. ASSUME NEW d \in Captures PROVE CaptureKnows(capture'[d])
    <2>1. capture'[d] = to \/ capture'[d] = capture[d]
        BY DEF CapturesTyped
    <2>2. CASE capture'[d] = to
        BY <2>2
    <2>3. CASE capture'[d] = capture[d]
        BY <2>3 DEF CapturesTyped
    <2> QED BY <2>1, <2>2, <2>3
<1> QED BY <1>1, <1>2 DEF CapturesTyped, CaptureKnows

\* The row of a capture is a row of the table, recorded now.
LEMMA StoreIsMove ==
    ASSUME SeriesTypeOK, CapturesTyped, NEW c \in Captures, NEW id \in Ids, NEW w \in Venues,
           Store(c, id, w)
    PROVE  /\ CapturedRow(c, id, w) \in PriceRows /\ StoreRow(CapturedRow(c, id, w))
           /\ UNCHANGED <<listings, started>>
<1>1. /\ capture[c] \in CaptureRows /\ capture[c].symbol \in Symbols
      /\ capture[c].value \in Values /\ capture[c].instrument \in Instruments
    BY DEF CapturesTyped, CaptureKnows, Store
<1>2. capture[c].observed \in Times /\ capture[c].fetched \in Times /\ now \in Times
    BY <1>1, RowFields DEF SeriesTypeOK
<1>3. CapturedRow(c, id, w) \in PriceRows /\ CapturedRow(c, id, w).recorded = now
    BY <1>1, <1>2 DEF CapturedRow, PriceRows
<1>4. /\ StorePrice(CapturedRow(c, id, w))
      /\ UNCHANGED <<now, fx, fxVersions, priceVersions, benchmarks, admitted, listings, started>>
    BY DEF Store
<1> QED BY <1>3, <1>4 DEF StoreRow

\* What a step does: it leaves the marks, stores a captured trade, or moves the
\* marks beside the captures.
LEMMA StepKinds ==
    ASSUME SeriesTypeOK, CapturesTyped, [CaptureNext]_allVars
    PROVE  \/ UNCHANGED vars
           \/ \E c \in Captures, id \in Ids, w \in Venues :
                 /\ Store(c, id, w)
                 /\ CapturedRow(c, id, w) \in PriceRows /\ StoreRow(CapturedRow(c, id, w))
                 /\ UNCHANGED <<listings, started>>
           \/ Next /\ UNCHANGED captureVars
<1>1. CASE CaptureMoves
    <2>1. ASSUME NEW c \in Captures, NEW id \in Ids, NEW w \in Venues, Store(c, id, w)
          PROVE  /\ CapturedRow(c, id, w) \in PriceRows /\ StoreRow(CapturedRow(c, id, w))
                 /\ UNCHANGED <<listings, started>>
        BY <2>1, StoreIsMove
    <2>2. CASE UNCHANGED vars
        BY <2>2
    <2>3. CASE \E c \in Captures, id \in Ids, w \in Venues : Store(c, id, w)
        BY <2>1, <2>3
    <2>4. \/ UNCHANGED vars
          \/ \E c \in Captures, id \in Ids, w \in Venues : Store(c, id, w)
        BY <1>1 DEF CaptureMoves, Declare, Revoke, AppendEvent, Ask, Trade, TradeFails,
                    Resolve, Known, Refused
    <2> QED BY <2>2, <2>3, <2>4
<1>2. CASE Next /\ UNCHANGED captureVars
    BY <1>2
<1>3. CASE UNCHANGED allVars
    BY <1>3 DEF allVars, vars
<1> QED BY <1>1, <1>2, <1>3 DEF CaptureNext

LEMMA CaptureMovesMarks ==
    ASSUME SeriesTypeOK, CapturesTyped, [CaptureNext]_allVars
    PROVE  [Moves]_vars
BY StepKinds DEF Moves

-----------------------------------------------------------------------------
(* The registry.                                                           *)

Earlier(L, i) == {j \in 1 .. (i - 1) : L[j].symbol = L[i].symbol}

Previous(L, i) == {L[j] : j \in {k \in Earlier(L, i) : \A l \in Earlier(L, i) : l <= k}}

EventReplays(L, i) ==
    /\ L[i].previous = {p.event : p \in Previous(L, i)}
    /\ IF L[i].type = "DECLARE"
       THEN \A p \in Previous(L, i) : p.type = "REVOKE"
       ELSE \E p \in Previous(L, i) : p.type = "DECLARE" /\ p.instrument = L[i].instrument

LEMMA ReplaysByEvent == ListingsReplay <=> \A i \in DOMAIN listings : EventReplays(listings, i)
BY DEF ListingsReplay, EventReplays, Previous, Earlier

\* The event before the next one of a symbol is the latest one.
LEMMA PreviousIsLatest ==
    ASSUME ListingsTyped, NEW e \in ListingRows
    PROVE  /\ \A i \in DOMAIN listings :
                 Previous(Append(listings, e), i) = Previous(listings, i)
           /\ Previous(Append(listings, e), Len(listings) + 1) = LatestEvent(e.symbol)
<1> DEFINE L == listings
           M == Append(listings, e)
           n == Len(listings)
<1>1. /\ DOMAIN L = 1 .. n /\ n \in Nat /\ DOMAIN M = 1 .. (n + 1)
      /\ \A i \in 1 .. n : M[i] = L[i]
      /\ M[n + 1] = e
    BY AppendIndices DEF ListingsTyped
<1> HIDE DEF L, M, n
<1>2. ASSUME NEW i \in DOMAIN L PROVE Previous(M, i) = Previous(L, i)
    <2>1. i \in 1 .. n /\ \A j \in 1 .. (i - 1) : j \in 1 .. n /\ M[j] = L[j]
        BY <1>1
    <2>2. Earlier(M, i) = Earlier(L, i) /\ \A j \in Earlier(L, i) : M[j] = L[j]
        BY <1>1, <2>1 DEF Earlier
    <2> QED BY <2>2 DEF Previous
<1>3. Previous(M, n + 1) = LatestEvent(e.symbol)
    <2> DEFINE K == {k \in 1 .. n : L[k].symbol = e.symbol}
               Top == {k \in K : \A l \in K : l <= k}
    <2>1. (n + 1) - 1 = n
        BY <1>1
    <2>2. Earlier(M, n + 1) = K
        BY <1>1, <2>1 DEF Earlier
    <2>3. Top = {j \in DOMAIN L : /\ L[j].symbol = e.symbol
                                  /\ \A k \in DOMAIN L : L[k].symbol = e.symbol => k <= j}
        BY <1>1
    <2>4. LatestEvent(e.symbol) = {L[j] : j \in Top}
        BY <2>3 DEF LatestEvent, L
    <2>5. Previous(M, n + 1) = {M[j] : j \in Top}
        BY <2>2 DEF Previous
    <2>6. \A j \in Top : M[j] = L[j]
        BY <1>1
    <2> HIDE DEF Top, K
    <2> QED BY <2>4, <2>5, <2>6
<1> QED BY <1>2, <1>3 DEF L, M, n

\* Declarations and revocations of a symbol take turns.
LEMMA EventAppended ==
    ASSUME ListingsTyped, ListingsReplay,
           NEW type \in {"DECLARE", "REVOKE"}, NEW i \in Instruments, NEW s \in Symbols,
           AppendEvent(type, i, s),
           type = "DECLARE" => Active(s) = {}, type = "REVOKE" => i \in Active(s)
    PROVE  ListingsTyped' /\ ListingsReplay'
<1> DEFINE e == [event |-> Len(listings) + 1, type |-> type, instrument |-> i, symbol |-> s,
                 previous |-> {l.event : l \in LatestEvent(s)}]
           M == Append(listings, e)
<1>1. /\ Len(listings) \in Nat /\ listings \in Seq(ListingRows)
      /\ DOMAIN listings = 1 .. Len(listings)
    BY DEF ListingsTyped
<1>2. LatestEvent(s) \subseteq ListingRows
    BY <1>1 DEF LatestEvent
<1>3. \A l \in ListingRows : l.event \in Nat /\ l.type \in {"DECLARE", "REVOKE"}
    BY DEF ListingRows
<1>4. {l.event : l \in LatestEvent(s)} \in SUBSET Nat
    BY <1>2, <1>3
<1>5. e \in ListingRows
    BY <1>1, <1>4 DEF ListingRows
<1>6. /\ e.event = Len(listings) + 1 /\ e.type = type /\ e.instrument = i /\ e.symbol = s
      /\ e.previous = {l.event : l \in LatestEvent(s)}
    OBVIOUS
<1>7. listings' = M
    BY DEF AppendEvent
<1>8. /\ \A j \in DOMAIN listings : Previous(M, j) = Previous(listings, j)
      /\ Previous(M, Len(listings) + 1) = LatestEvent(s)
    <2> HIDE DEF e
    <2> QED BY <1>5, <1>6, PreviousIsLatest
<1>9. /\ M \in Seq(ListingRows) /\ DOMAIN M = 1 .. (Len(listings) + 1)
      /\ \A j \in 1 .. Len(listings) : M[j] = listings[j]
      /\ M[Len(listings) + 1] = e
    BY <1>1, <1>5, AppendIndices
<1> HIDE DEF M, e
<1>10. ASSUME NEW j \in DOMAIN M PROVE EventReplays(M, j) /\ M[j].event = j
    <2>1. CASE j \in 1 .. Len(listings)
        <3>1. EventReplays(listings, j) /\ listings[j].event = j
            BY <1>1, <2>1, ReplaysByEvent DEF ListingsTyped
        <3>2. M[j] = listings[j] /\ Previous(M, j) = Previous(listings, j)
            BY <1>1, <1>8, <1>9, <2>1
        <3> QED BY <3>1, <3>2 DEF EventReplays
    <2>2. CASE j = Len(listings) + 1
        <3>1. M[j] = e /\ Previous(M, j) = LatestEvent(s)
            BY <1>8, <1>9, <2>2
        <3>2. CASE type = "DECLARE"
            <4>1. \A p \in LatestEvent(s) : p.type # "DECLARE"
                BY <3>2 DEF Active
            <4>2. \A p \in LatestEvent(s) : p.type = "REVOKE"
                BY <4>1, <1>2, <1>3
            <4> QED BY <1>6, <2>2, <3>1, <3>2, <4>2 DEF EventReplays
        <3>3. CASE type = "REVOKE"
            <4>1. \E p \in LatestEvent(s) : p.type = "DECLARE" /\ p.instrument = i
                BY <3>3 DEF Active
            <4> QED BY <1>6, <2>2, <3>1, <3>3, <4>1 DEF EventReplays
        <3> QED BY <3>2, <3>3
    <2> QED BY <2>1, <2>2, <1>1, <1>9
<1>11. ListingsTyped'
    BY <1>7, <1>9, <1>10 DEF ListingsTyped
<1>12. ListingsReplay'
    <2>1. ASSUME NEW L, L = listings', \A j \in DOMAIN L : EventReplays(L, j)
          PROVE  ListingsReplay'
        BY <2>1 DEF ListingsReplay, EventReplays, Previous, Earlier
    <2> QED BY <1>7, <1>10, <2>1
<1> QED BY <1>11, <1>12

LEMMA RegistryKept ==
    ASSUME ListingsTyped, ListingsReplay, [CaptureNext]_allVars
    PROVE  ListingsTyped' /\ ListingsReplay'
<1>1. CASE UNCHANGED listings
    <2>1. ListingsTyped'
        BY <1>1 DEF ListingsTyped
    <2>2. ListingsReplay'
        BY ONLY <1>1, ListingsReplay, SMTT(60) DEF ListingsReplay
    <2> QED BY <2>1, <2>2
<1>2. CASE \E i \in Instruments, s \in Symbols : Declare(i, s) \/ Revoke(i, s)
    <2>1. PICK i \in Instruments, s \in Symbols : Declare(i, s) \/ Revoke(i, s)
        BY <1>2
    <2>2. CASE Declare(i, s)
        BY <2>2, EventAppended DEF Declare
    <2>3. CASE Revoke(i, s)
        BY <2>3, EventAppended DEF Revoke
    <2> QED BY <2>1, <2>2, <2>3
<1>3. \/ UNCHANGED listings
      \/ \E i \in Instruments, s \in Symbols : Declare(i, s) \/ Revoke(i, s)
    BY DEF CaptureNext, CaptureMoves, Ask, Trade, TradeFails, Resolve, Known, Refused, Store,
           captureVars, allVars
<1> QED BY <1>1, <1>2, <1>3

-----------------------------------------------------------------------------
(* The captures.                                                           *)

LEMMA CapturesKept ==
    ASSUME SeriesTypeOK, ListingsTyped, CapturesTyped, [CaptureNext]_allVars
    PROVE  CapturesTyped'
<1>1. /\ capture \in [Captures -> CaptureRows] /\ started \in 0 .. MaxCaptures
      /\ \A c \in Captures : capture[c] \in CaptureRows /\ CaptureKnows(capture[c])
      /\ now \in Times /\ 0 \in Times
    BY OwnerSeriesAssumption DEF CapturesTyped, SeriesTypeOK, Times
<1>2. ASSUME NEW c \in Captures, NEW s \in Symbols, Ask(c, s) PROVE CapturesTyped'
    <2> DEFINE to == [Idle EXCEPT !.at = IF Active(s) = {} THEN "failed" ELSE "asking",
                                  !.symbol = s]
    <2>1. /\ to \in CaptureRows /\ to.symbol \in Symbols /\ to.at \in {"failed", "asking"}
        BY <1>1 DEF CaptureRows, Idle
    <2>2. capture' = [capture EXCEPT ![c] = to] /\ started' \in 0 .. MaxCaptures
        BY <1>1, <1>2, ListedCaptureAssumption DEF Ask
    <2> HIDE DEF to
    <2>3. CaptureKnows(to)
        BY <2>1 DEF CaptureKnows
    <2> QED BY <2>1, <2>2, <2>3, CaptureChanged
<1>3. ASSUME NEW c \in Captures, NEW v \in Values, NEW o \in Times, Trade(c, v, o)
      PROVE  CapturesTyped'
    <2> DEFINE to == [capture[c] EXCEPT !.at = "traded", !.value = v, !.observed = o,
                                        !.fetched = now]
    <2>1. /\ to \in CaptureRows /\ to.symbol = capture[c].symbol /\ to.at = "traded"
          /\ to.value = v
        BY <1>1 DEF CaptureRows
    <2>2. /\ capture' = [capture EXCEPT ![c] = to] /\ started' \in 0 .. MaxCaptures
          /\ capture[c].at = "asking"
        BY <1>1, <1>3 DEF Trade
    <2> HIDE DEF to
    <2>3. CaptureKnows(to)
        BY <1>1, <2>1, <2>2 DEF CaptureKnows
    <2> QED BY <2>1, <2>2, <2>3, CaptureChanged
<1>4. ASSUME NEW c \in Captures, NEW at \in {"stored", "failed"}, Ends(c, at),
             UNCHANGED started
      PROVE  CapturesTyped'
    <2> DEFINE to == [capture[c] EXCEPT !.at = at]
    <2>1. to \in CaptureRows /\ to.at = at
        BY <1>1 DEF CaptureRows
    <2>2. capture' = [capture EXCEPT ![c] = to]
        BY <1>1, <1>4 DEF Ends
    <2> HIDE DEF to
    <2>3. CaptureKnows(to)
        BY <2>1 DEF CaptureKnows
    <2> QED BY <1>1, <1>4, <2>1, <2>2, <2>3, CaptureChanged
<1>5. ASSUME NEW c \in Captures, Resolve(c) PROVE CapturesTyped'
    <2>1. CASE Active(capture[c].symbol) = {}
        BY <1>4, <1>5, <2>1 DEF Resolve, Ends
    <2>2. CASE Active(capture[c].symbol) # {}
        <3>1. PICK i \in Active(capture[c].symbol) :
                  capture' = [capture EXCEPT ![c].at = "writing", ![c].instrument = i]
            BY <1>5, <2>2 DEF Resolve
        <3>2. i \in Instruments
            <4>1. PICK e \in LatestEvent(capture[c].symbol) : i = e.instrument
                BY <3>1 DEF Active
            <4>2. e \in ListingRows
                BY <4>1 DEF LatestEvent, ListingsTyped
            <4> QED BY <4>1, <4>2 DEF ListingRows
        <3> DEFINE to == [capture[c] EXCEPT !.at = "writing", !.instrument = i]
        <3>3. /\ to \in CaptureRows /\ to.symbol = capture[c].symbol /\ to.at = "writing"
              /\ to.value = capture[c].value /\ to.instrument = i
            BY <1>1, <3>2 DEF CaptureRows
        <3>4. /\ capture' = [capture EXCEPT ![c] = to] /\ started' = started
              /\ capture[c].at = "traded"
            BY <1>1, <1>5, <3>1 DEF Resolve
        <3> HIDE DEF to
        <3>5. CaptureKnows(to)
            BY <1>1, <3>2, <3>3, <3>4 DEF CaptureKnows
        <3> QED BY <1>1, <3>3, <3>4, <3>5, CaptureChanged
    <2> QED BY <2>1, <2>2
<1>6. ASSUME UNCHANGED <<capture, started>> PROVE CapturesTyped'
    BY <1>6 DEF CapturesTyped
<1>7. CASE CaptureMoves
    <2>1. ASSUME NEW c \in Captures, TradeFails(c) \/ Known(c) \/ Refused(c)
          PROVE  CapturesTyped'
        BY <2>1, <1>4 DEF TradeFails, Known, Refused, Ends
    <2>2. ASSUME NEW c \in Captures, NEW id \in Ids, NEW w \in Venues, Store(c, id, w)
          PROVE  CapturesTyped'
        BY <2>2, <1>4 DEF Store
    <2>3. ASSUME NEW i \in Instruments, NEW s \in Symbols, Declare(i, s) \/ Revoke(i, s)
          PROVE  CapturesTyped'
        BY <2>3, <1>6 DEF Declare, Revoke, AppendEvent
    <2> QED BY <1>2, <1>3, <1>5, <1>7, <2>1, <2>2, <2>3 DEF CaptureMoves
<1>8. CASE UNCHANGED allVars \/ (Next /\ UNCHANGED captureVars)
    BY <1>6, <1>8 DEF allVars, captureVars
<1> QED BY <1>7, <1>8 DEF CaptureNext

-----------------------------------------------------------------------------
(* The prices.                                                             *)

\* What a step of the marks does to the prices.
LEMMA PriceSteps ==
    ASSUME SeriesTypeOK, Next
    PROVE  \/ UNCHANGED <<prices, priceVersions>>
           \/ \E row \in PriceRows : StoreRow(row) /\ row.source = "local_fixture"
           \/ /\ UNCHANGED prices
              /\ \E i \in Instruments, n \in Names, w \in Venues, f \in Times :
                    \E s \in PointSeqs(f) : ImportOwnerPrice(i, n, w, s, f)
<1>1. ASSUME NEW id \in Ids, NEW i \in Instruments, NEW y \in Symbols, NEW w \in Venues,
             NEW v \in Values, NEW o \in Times, NEW f \in Times,
             RecordPriceObservation(id, i, y, w, v, o, f)
      PROVE  \E row \in PriceRows : StoreRow(row) /\ row.source = "local_fixture"
    BY <1>1, RecordedIsStored DEF SeriesTypeOK
<1>2. CASE \E id \in Ids, i \in Instruments, s \in Symbols, w \in Venues, v \in Values,
              o, f \in Times : RecordPriceObservation(id, i, s, w, v, o, f)
    BY <1>1, <1>2
<1>3. CASE \E i \in Instruments, n \in Names, w \in Venues, f \in Times :
              \E s \in PointSeqs(f) : ImportOwnerPrice(i, n, w, s, f)
    BY <1>3 DEF ImportOwnerPrice
<1>4. CASE \/ \E id \in Ids, p \in Pairs, v \in Values, o, f \in Times :
                 RecordFXObservation(id, p, v, o, f)
           \/ \E p \in Pairs, n \in Names, f \in Times :
                 \E s \in PointSeqs(f) : ImportOwnerFX(p, n, s, f)
           \/ \E b \in Benchmarks, d \in Definitions, n \in Names, f \in Times :
                 \E s \in PointSeqs(f) : ImportBenchmark(b, d, n, s, f)
           \/ \E i \in Instruments : Admit(i)
           \/ \E t \in Times : SetClock(t)
    BY <1>4 DEF RecordFXObservation, ImportOwnerFX, ImportBenchmark, Admit, SetClock
<1> QED BY <1>2, <1>3, <1>4 DEF Next

\* No trade is stored twice: rows of another source do not count, and a capture
\* looks for its trade first.
LEMMA OnceMore ==
    ASSUME SeriesTypeOK, TradesOnce, NEW row \in PriceRows, prices' = Append(prices, row),
           \A o \in Rows(prices) :
              ~(/\ o.source = "kiwoom" /\ row.source = "kiwoom"
                /\ o.instrument = row.instrument
                /\ o.symbol = row.symbol /\ o.observed = row.observed)
    PROVE  TradesOnce'
<1>1. /\ DOMAIN prices = 1 .. Len(prices) /\ Len(prices) \in Nat
      /\ DOMAIN prices' = 1 .. (Len(prices) + 1)
      /\ \A i \in 1 .. Len(prices) : prices'[i] = prices[i]
      /\ prices'[Len(prices) + 1] = row
    BY AppendIndices DEF SeriesTypeOK
<1>2. \A i \in 1 .. Len(prices) :
         ~(/\ prices[i].source = "kiwoom" /\ row.source = "kiwoom"
           /\ prices[i].instrument = row.instrument
           /\ prices[i].symbol = row.symbol /\ prices[i].observed = row.observed)
    BY <1>1 DEF Rows
<1> SUFFICES ASSUME NEW i \in DOMAIN prices', NEW j \in DOMAIN prices',
                    prices'[i].source = "kiwoom", prices'[j].source = "kiwoom",
                    prices'[i].instrument = prices'[j].instrument,
                    prices'[i].symbol = prices'[j].symbol,
                    prices'[i].observed = prices'[j].observed
             PROVE  i = j
    BY DEF TradesOnce
<1>3. CASE i \in 1 .. Len(prices) /\ j \in 1 .. Len(prices)
    BY <1>1, <1>3 DEF TradesOnce
<1>4. CASE i \in 1 .. Len(prices) /\ j = Len(prices) + 1
    BY <1>1, <1>2, <1>4
<1>5. CASE i = Len(prices) + 1 /\ j \in 1 .. Len(prices)
    BY <1>1, <1>2, <1>5
<1> QED BY <1>1, <1>3, <1>4, <1>5

LEMMA TradesStayOnce ==
    ASSUME SeriesTypeOK, CapturesTyped, TradesOnce, [CaptureNext]_allVars
    PROVE  TradesOnce'
<1>1. CASE UNCHANGED prices
    BY <1>1 DEF TradesOnce
<1>2. ASSUME NEW row \in PriceRows, StoreRow(row), row.source = "local_fixture"
      PROVE  TradesOnce'
    BY <1>2, OnceMore DEF StoreRow, StorePrice
<1>3. ASSUME NEW c \in Captures, NEW id \in Ids, NEW w \in Venues, Store(c, id, w)
      PROVE  TradesOnce'
    <2>1. PICK row \in PriceRows : row = CapturedRow(c, id, w)
        BY <1>3, StoreIsMove
    <2>2. /\ row.instrument = capture[c].instrument /\ row.symbol = capture[c].symbol
          /\ row.observed = capture[c].observed
        BY <2>1 DEF CapturedRow
    <2>3. prices' = Append(prices, row) /\ Captured(c) = {}
        BY <1>3, <2>1 DEF Store, StorePrice
    <2>4. \A o \in Rows(prices) :
              ~(/\ o.source = "kiwoom" /\ o.instrument = row.instrument
                /\ o.symbol = row.symbol /\ o.observed = row.observed)
        BY <2>2, <2>3 DEF Captured
    <2> QED BY <2>3, <2>4, OnceMore
<1> QED BY <1>1, <1>2, <1>3, StepKinds, PriceSteps DEF vars

LEMMA PricesStayInOrder ==
    ASSUME SeriesTypeOK, CapturesTyped, PricesInOrder, [CaptureNext]_allVars
    PROVE  PricesInOrder'
<1>1. ASSUME UNCHANGED <<prices, priceVersions>> PROVE PricesInOrder'
    BY <1>1 DEF PricesInOrder, Rows
<1>2. ASSUME NEW row \in PriceRows, StoreRow(row) PROVE PricesInOrder'
    <2>1. /\ prices' = Append(prices, row) /\ UNCHANGED priceVersions
          /\ row.observed <= row.fetched /\ row.fetched <= row.recorded
        BY <1>2 DEF StoreRow, StorePrice
    <2>2. Rows(prices') = Rows(prices) \cup {row}
        BY <2>1, AppendRows DEF SeriesTypeOK
    <2>3. \A o \in Rows(prices') : o.observed <= o.fetched /\ o.fetched <= o.recorded
        BY <2>1, <2>2 DEF PricesInOrder
    <2> QED BY <2>1, <2>3 DEF PricesInOrder
<1>3. ASSUME UNCHANGED prices,
             NEW i \in Instruments, NEW n \in Names, NEW w \in Venues, NEW f \in Times,
             NEW s \in PointSeqs(f), ImportOwnerPrice(i, n, w, s, f)
      PROVE  PricesInOrder'
    <2> DEFINE row == [key |-> i, name |-> n, venue |-> w, points |-> s,
                       fetched |-> f, recorded |-> now]
    <2>1. row \in PriceVersionRows /\ row.points = s /\ row.fetched = f
        BY PointsTyped DEF PriceVersionRows, SeriesTypeOK
    <2>2. priceVersions' = Append(priceVersions, row)
        BY <1>3 DEF ImportOwnerPrice
    <2> HIDE DEF row
    <2>3. Rows(priceVersions') = Rows(priceVersions) \cup {row}
        BY <2>1, <2>2, AppendRows DEF SeriesTypeOK
    <2>4. \A k \in DOMAIN s : s[k].observed <= f
        <3> DEFINE P == [observed : 0 .. f, value : Values]
        <3>1. PICK m \in 0 .. MaxPoints : s \in [1 .. m -> P]
            BY DEF PointSeqs, BoundedSeq, SeqOf
        <3>2. \A k \in DOMAIN s : s[k] \in P
            BY <3>1
        <3>3. \A q \in P : q.observed \in 0 .. f
            OBVIOUS
        <3>4. f \in Nat
            BY OwnerSeriesAssumption DEF Times
        <3> QED BY <3>2, <3>3, <3>4
    <2>5. \A v \in Rows(priceVersions'), k \in Nat :
             k \in DOMAIN v.points => v.points[k].observed <= v.fetched
        BY <2>1, <2>3, <2>4 DEF PricesInOrder
    <2> QED BY <1>3, <2>5 DEF PricesInOrder
<1> QED BY <1>1, <1>2, <1>3, StepKinds, PriceSteps DEF vars

-----------------------------------------------------------------------------
(* The readers of the prices.                                              *)

LEMMA ImageFinite ==
    ASSUME NEW S, IsFiniteSet(S), NEW T, NEW g \in [S -> T], \A t \in T : \E s \in S : g[s] = t
    PROVE  IsFiniteSet(T)
<1>1. g \in Surjection(S, T)
    BY DEF Surjection
<1> QED BY <1>1, FS_Surjection

LEMMA RowsFinite ==
    ASSUME NEW S, NEW s \in Seq(S)
    PROVE  IsFiniteSet(Rows(s))
<1>1. DOMAIN s = 1 .. Len(s) /\ Len(s) \in Nat
    OBVIOUS
<1>2. IsFiniteSet(DOMAIN s)
    BY <1>1, FS_Interval
<1>3. s \in [DOMAIN s -> Rows(s)] /\ \A r \in Rows(s) : \E i \in DOMAIN s : s[i] = r
    BY DEF Rows
<1> QED BY <1>2, <1>3, ImageFinite

\* A mark of a valuation is that of a fixture, or of a point of a version.
VersionMark(v, p) ==
    [key |-> v.key, symbol |-> SymbolOf[v.key], venue |-> v.venue,
     value |-> p.value, observed |-> p.observed,
     fetched |-> v.fetched, recorded |-> v.recorded]

PointMarks(v) == {VersionMark(v, p) : p \in Rows(v.points)}

LEMMA VersionPricesByPoint ==
    ASSUME NEW V
    PROVE  VersionPrices(V) = UNION {PointMarks(v) : v \in V}
BY DEF VersionPrices, PointMarks, VersionMark

LEMMA KnownAreVersions ==
    ASSUME NEW t
    PROVE  KnownVersions(priceVersions, t) \subseteq Rows(priceVersions)
BY DEF KnownVersions, Rows

LEMMA VersionOfPrice ==
    ASSUME SeriesTypeOK, NEW v \in Rows(priceVersions)
    PROVE  v \in PriceVersionRows /\ v.points \in Seq(Points)
<1>1. v \in PriceVersionRows
    BY DEF SeriesTypeOK, Rows
<1> QED BY <1>1 DEF PriceVersionRows

LEMMA MarksFinite ==
    ASSUME SeriesTypeOK, NEW t
    PROVE  IsFiniteSet(ValuationPrices(t))
<1> DEFINE V == KnownVersions(priceVersions, t)
           R == {o \in Rows(prices) : o.source = "local_fixture"}
           mark(o) == [key |-> o.instrument, symbol |-> o.symbol, venue |-> o.venue,
                       value |-> o.value, observed |-> o.observed,
                       fetched |-> o.fetched, recorded |-> o.recorded]
           P == {PointMarks(v) : v \in V}
<1>1. IsFiniteSet(V)
    <2>1. IsFiniteSet(Rows(priceVersions)) /\ V \subseteq Rows(priceVersions)
        BY RowsFinite, KnownAreVersions DEF SeriesTypeOK
    <2> HIDE DEF V
    <2> QED BY <2>1, FS_Subset
<1>2. IsFiniteSet(R)
    <2>1. IsFiniteSet(Rows(prices)) /\ R \subseteq Rows(prices)
        BY RowsFinite DEF SeriesTypeOK
    <2> HIDE DEF R
    <2> QED BY <2>1, FS_Subset
<1>3. IsFiniteSet(PriceMarks(R))
    <2>1. PriceMarks(R) = {mark(o) : o \in R}
        BY DEF PriceMarks
    <2> DEFINE g == [o \in R |-> mark(o)]
               T == {mark(o) : o \in R}
    <2> HIDE DEF R, mark
    <2>2. g \in [R -> T] /\ \A x \in T : \E o \in R : g[o] = x
        OBVIOUS
    <2> HIDE DEF g, T
    <2>3. IsFiniteSet(T)
        BY <1>2, <2>2, ImageFinite
    <2> QED BY <2>1, <2>3 DEF T
<1>4. ASSUME NEW v \in V PROVE IsFiniteSet(PointMarks(v))
    <2>1. IsFiniteSet(Rows(v.points))
        BY VersionOfPrice, KnownAreVersions, RowsFinite
    <2> DEFINE g == [p \in Rows(v.points) |-> VersionMark(v, p)]
    <2>2. g \in [Rows(v.points) -> PointMarks(v)]
          /\ \A x \in PointMarks(v) : \E p \in Rows(v.points) : g[p] = x
        BY DEF PointMarks
    <2> HIDE DEF g
    <2> QED BY <2>1, <2>2, ImageFinite
<1> HIDE DEF V, R
<1>5. IsFiniteSet(P)
    <2> DEFINE g == [v \in V |-> PointMarks(v)]
    <2>1. g \in [V -> P] /\ \A x \in P : \E v \in V : g[v] = x
        OBVIOUS
    <2> HIDE DEF g, P
    <2> QED BY <1>1, <2>1, ImageFinite
<1>6. IsFiniteSet(UNION P)
    <2>1. \A M \in P : IsFiniteSet(M)
        BY <1>4
    <2> HIDE DEF P
    <2> QED BY <1>5, <2>1, FS_UNION
<1>7. ValuationPrices(t) = PriceMarks(R) \cup UNION P
    BY VersionPricesByPoint DEF ValuationPrices, V, R
<1> HIDE DEF P
<1> QED BY <1>3, <1>6, <1>7, FS_Union

\* Every mark was observed, then fetched, then recorded.
LEMMA MarksReadable ==
    ASSUME SeriesTypeOK, SeriesReplay, PricesInOrder
    PROVE  PricesReadable
<1>1. TimesConsistent(Rows(prices))
    BY DEF TimesConsistent, PricesInOrder
<1>2. ASSUME NEW t \in Times, NEW m \in ValuationPrices(t)
      PROVE  m.observed <= m.fetched /\ m.fetched <= m.recorded
    <2>1. CASE m \in PriceMarks({o \in Rows(prices) : o.source = "local_fixture"})
        BY <2>1 DEF PriceMarks, PricesInOrder
    <2>2. CASE m \in VersionPrices(KnownVersions(priceVersions, t))
        <3>1. PICK v \in Rows(priceVersions) : m \in PointMarks(v)
            BY <2>2, VersionPricesByPoint, KnownAreVersions
        <3>2. PICK p \in Rows(v.points) : m = VersionMark(v, p)
            BY <3>1 DEF PointMarks
        <3>3. m.observed = p.observed /\ m.fetched = v.fetched /\ m.recorded = v.recorded
            BY <3>2 DEF VersionMark
        <3>4. p.observed <= v.fetched
            <4>1. PICK k \in DOMAIN v.points : p = v.points[k]
                BY DEF Rows
            <4>2. k \in Nat
                BY VersionOfPrice
            <4> QED BY <4>1, <4>2 DEF PricesInOrder
        <3>5. v.fetched <= v.recorded
            BY DEF SeriesReplay, ReplayOwnerPrice, InRecordOrder, Rows
        <3> QED BY <3>3, <3>4, <3>5
    <2> QED BY <2>1, <2>2 DEF ValuationPrices
<1> QED BY <1>1, <1>2 DEF PricesReadable, TimesConsistent

\* The venues, or the instruments, of finitely many marks are one only if all
\* marks have it.
LEMMA OneOfAll ==
    ASSUME NEW M, IsFiniteSet(M), NEW C, NEW f \in [M -> C], \A y \in C : \E m \in M : f[m] = y,
           Cardinality(C) = 1
    PROVE  \A m, x \in M : f[m] = f[x]
<1>1. IsFiniteSet(C)
    BY ImageFinite
<1>2. PICK y : C = {y}
    BY <1>1, FS_Singleton
<1> QED BY <1>2

LEMMA ReadersAgree ==
    ASSUME SeriesTypeOK
    PROVE  QuoteAgreesWithValuation
<1> SUFFICES ASSUME NEW i \in Instruments, NEW w \in Venues, NEW t \in Times,
                    WatchlistQuote(SymbolOf[i], w, t) # {},
                    {m \in HoldingPrice(i, t, t) : m.venue = w} # {}
             PROVE  WatchlistQuote(SymbolOf[i], w, t) = {m \in HoldingPrice(i, t, t) : m.venue = w}
    BY DEF QuoteAgreesWithValuation
<1> DEFINE Q == {m \in ValuationPrices(t) :
                    /\ m.symbol = SymbolOf[i] /\ m.venue = w
                    /\ m.observed <= t /\ m.fetched <= t /\ m.recorded <= t}
           H == {m \in ValuationPrices(t) :
                    /\ m.key = i /\ m.symbol = SymbolOf[i]
                    /\ m.observed <= t /\ m.fetched <= t /\ m.recorded <= t}
           keys == [m \in Q |-> m.key]
           places == [m \in H |-> m.venue]
<1>1. IsFiniteSet(Q) /\ IsFiniteSet(H)
    <2>1. IsFiniteSet(ValuationPrices(t))
        BY MarksFinite
    <2>2. Q \subseteq ValuationPrices(t) /\ H \subseteq ValuationPrices(t)
        OBVIOUS
    <2> HIDE DEF Q, H
    <2> QED BY <2>1, <2>2, FS_Subset
<1>2. /\ WatchlistQuote(SymbolOf[i], w, t) = Latest(Q)
      /\ Cardinality({m.key : m \in Q}) = 1
    BY DEF WatchlistQuote
<1>3. /\ HoldingPrice(i, t, t) = Latest(H)
      /\ Cardinality({m.venue : m \in H}) = 1
    BY DEF HoldingPrice
<1>4. PICK h \in H : h.venue = w
    BY <1>3 DEF Latest
<1>5. h \in Q
    BY <1>4
<1>6. \A m \in Q : m.key = i
    <2> DEFINE C == {m.key : m \in Q}
    <2>1. h.key = i /\ h \in Q
        BY <1>4, <1>5
    <2>2. /\ keys \in [Q -> C] /\ \A y \in C : \E m \in Q : keys[m] = y
          /\ \A m \in Q : keys[m] = m.key
          /\ Cardinality(C) = 1
        BY <1>2
    <2> HIDE DEF C, Q, H, keys
    <2>3. \A m, x \in Q : keys[m] = keys[x]
        BY <1>1, <2>2, OneOfAll
    <2> QED BY <2>1, <2>2, <2>3
<1>7. \A m \in H : m.venue = w
    <2> DEFINE C == {m.venue : m \in H}
    <2>1. h.venue = w /\ h \in H
        BY <1>4, <1>5
    <2>2. /\ places \in [H -> C] /\ \A y \in C : \E m \in H : places[m] = y
          /\ \A m \in H : places[m] = m.venue
          /\ Cardinality(C) = 1
        BY <1>3
    <2> HIDE DEF C, Q, H, places
    <2>3. \A m, x \in H : places[m] = places[x]
        BY <1>1, <2>2, OneOfAll
    <2> QED BY <2>1, <2>2, <2>3
<1>8. Q = H
    BY <1>6, <1>7
<1>9. \A m \in Latest(H) : m.venue = w
    BY <1>7 DEF Latest
<1> HIDE DEF Q, H
<1> QED BY <1>2, <1>3, <1>8, <1>9

-----------------------------------------------------------------------------
(* The theorems.                                                           *)

LEMMA CaptureStarts == CaptureInit => CaptureInv
<1> SUFFICES ASSUME CaptureInit PROVE CaptureInv
    OBVIOUS
<1>1. SeriesTypeOK /\ SeriesReplay
    BY InitTyped, InitReplays DEF CaptureInit
<1>2. ListingsTyped /\ ListingsReplay
    BY DEF CaptureInit, ListingsTyped, ListingsReplay
<1>3. CapturesTyped
    <2>1. Idle \in CaptureRows /\ CaptureKnows(Idle)
        BY OwnerSeriesAssumption DEF Idle, CaptureRows, CaptureKnows, Times
    <2>2. capture = [c \in Captures |-> Idle] /\ started \in 0 .. MaxCaptures
        BY ListedCaptureAssumption DEF CaptureInit
    <2> QED BY <2>1, <2>2 DEF CapturesTyped
<1>4. PricesInOrder /\ TradesOnce
    BY DEF CaptureInit, Init, PricesInOrder, TradesOnce, Rows
<1> QED BY <1>1, <1>2, <1>3, <1>4 DEF CaptureInv

LEMMA CaptureSteps == CaptureInv /\ [CaptureNext]_allVars => CaptureInv'
<1> SUFFICES ASSUME CaptureInv, [CaptureNext]_allVars PROVE CaptureInv'
    OBVIOUS
<1>1. /\ SeriesTypeOK /\ SeriesReplay /\ ListingsTyped /\ ListingsReplay /\ CapturesTyped
      /\ PricesInOrder /\ TradesOnce
    BY DEF CaptureInv
<1>2. [Moves]_vars
    BY <1>1, CaptureMovesMarks
<1>3. SeriesTypeOK' /\ SeriesReplay'
    BY <1>1, <1>2, NextTyped, NextReplays
<1>4. ListingsTyped' /\ ListingsReplay'
    BY <1>1, RegistryKept
<1>5. CapturesTyped'
    BY <1>1, CapturesKept
<1>6. PricesInOrder' /\ TradesOnce'
    BY <1>1, PricesStayInOrder, TradesStayOnce
<1> QED BY <1>3, <1>4, <1>5, <1>6 DEF CaptureInv

LEMMA CaptureAlways == CaptureSpec => []CaptureInv
BY CaptureStarts, CaptureSteps, PTL DEF CaptureSpec

\* The tables hold rows of their columns, whatever is imported and captured
\* when.
THEOREM SeriesTyped == CaptureSpec => []SeriesTypeOK
<1>1. CaptureInv => SeriesTypeOK
    BY DEF CaptureInv
<1> QED BY <1>1, CaptureAlways, PTL

\* Every state of the tables can be read and extended: the proofs that reads,
\* imports and backups begin with accept what was stored.
THEOREM SeriesReplays == CaptureSpec => []SeriesReplay
<1>1. CaptureInv => SeriesReplay
    BY DEF CaptureInv
<1> QED BY <1>1, CaptureAlways, PTL

\* No import, fixture, capture or turn of the clock changes what a series said
\* at a cutoff before the newest record of its kind.
THEOREM PastIsKept == CaptureSpec => PastStaysKnown
<1>1. CaptureInv /\ CaptureInv' /\ [CaptureNext]_allVars => [Past]_vars
    BY CaptureMovesMarks, NextKeepsPast DEF CaptureInv
<1>2. CaptureSpec => [][Past]_vars
    BY <1>1, CaptureAlways, PTL DEF CaptureSpec
<1>3. [][Past]_vars => PastStaysKnown
    BY DEF PastStaysKnown, Past
<1> QED BY <1>2, <1>3

\* The registry replays, no stored price closes the reads, and the watchlist
\* shows the price that the valuation uses, for any number of owners' series,
\* fixtures, listings and captures.
THEOREM ReadsAlwaysAgree == CaptureSpec => []ReadsSucceedAndAgree
<1>1. CaptureInv => ReadsSucceedAndAgree
    <2> SUFFICES ASSUME CaptureInv PROVE ReadsSucceedAndAgree
        OBVIOUS
    <2>1. /\ SeriesTypeOK /\ SeriesReplay /\ ListingsTyped /\ ListingsReplay
          /\ CapturesTyped /\ PricesInOrder
        BY DEF CaptureInv
    <2>2. \A i \in DOMAIN listings :
             /\ listings[i].event = i
             /\ listings[i].instrument \in Instruments /\ listings[i].symbol \in Symbols
        <3>1. ASSUME NEW i \in DOMAIN listings PROVE listings[i] \in ListingRows
            BY <2>1 DEF ListingsTyped
        <3> QED BY <2>1, <3>1 DEF ListingsTyped, ListingRows
    <2>3. /\ \A c \in Captures :
                /\ capture[c].at \in {"idle", "asking", "traded", "writing", "stored", "failed"}
                /\ capture[c].at = "writing" => capture[c].instrument \in Instruments
          /\ started \in 0 .. MaxCaptures
        BY <2>1, RowFields DEF CapturesTyped, CaptureKnows
    <2>4. CaptureTypeOK
        BY <2>1, <2>2, <2>3 DEF CaptureTypeOK
    <2> QED BY <2>1, <2>4, MarksReadable, ReadersAgree DEF ReadsSucceedAndAgree
<1> QED BY <1>1, CaptureAlways, PTL

StoredAsListed ==
    \A i \in DOMAIN prices' :
        (i \notin DOMAIN prices /\ prices'[i].source = "kiwoom")
           => prices'[i].instrument \in Active(prices'[i].symbol)

RetakenStored ==
    \A c \in Captures :
        (/\ capture[c].at = "writing" /\ capture'[c].at = "failed")
           => \A o \in Captured(c) : o.value # capture[c].value

LEMMA StepStoresListed ==
    ASSUME CaptureInv, [CaptureNext]_allVars
    PROVE  StoredAsListed
<1>1. SeriesTypeOK /\ CapturesTyped
    BY DEF CaptureInv
<1>2. CASE UNCHANGED prices
    BY <1>2 DEF StoredAsListed
<1>3. ASSUME NEW row \in PriceRows, StoreRow(row),
             row.source = "kiwoom" => row.instrument \in Active(row.symbol)
      PROVE  StoredAsListed
    <2>1. prices' = Append(prices, row)
        BY <1>3 DEF StoreRow, StorePrice
    <2>2. /\ DOMAIN prices = 1 .. Len(prices) /\ Len(prices) \in Nat
          /\ DOMAIN prices' = 1 .. (Len(prices) + 1) /\ prices'[Len(prices) + 1] = row
        BY <1>1, <2>1, AppendIndices DEF SeriesTypeOK
    <2>3. \A i \in DOMAIN prices' : i \notin DOMAIN prices => prices'[i] = row
        BY <2>2
    <2> QED BY <1>3, <2>3 DEF StoredAsListed
<1>4. ASSUME NEW row \in PriceRows, StoreRow(row), row.source = "local_fixture"
      PROVE  StoredAsListed
    BY <1>3, <1>4
<1>5. ASSUME NEW c \in Captures, NEW id \in Ids, NEW w \in Venues, Store(c, id, w)
      PROVE  StoredAsListed
    <2>1. PICK row \in PriceRows : row = CapturedRow(c, id, w) /\ StoreRow(row)
        BY <1>1, <1>5, StoreIsMove
    <2>2. row.instrument = capture[c].instrument /\ row.symbol = capture[c].symbol
        BY <2>1 DEF CapturedRow
    <2>3. capture[c].instrument \in Active(capture[c].symbol)
        BY <1>5 DEF Store, Owned
    <2> QED BY <1>3, <2>1, <2>2, <2>3
<1> QED BY <1>1, <1>2, <1>4, <1>5, StepKinds, PriceSteps DEF vars

LEMMA StepRetakes ==
    ASSUME CaptureInv, [CaptureNext]_allVars
    PROVE  RetakenStored
<1> SUFFICES ASSUME NEW c \in Captures, capture[c].at = "writing", capture'[c].at = "failed",
                    NEW o \in Captured(c)
             PROVE  o.value # capture[c].value
    BY DEF RetakenStored
<1>1. capture \in [Captures -> CaptureRows] /\ TradesOnce
    BY DEF CaptureInv, CapturesTyped
<1>2. Refused(c)
    <2>1. \A d \in Captures : capture[d] \in CaptureRows
        BY <1>1
    <2>2. ASSUME NEW d \in Captures, capture' = [capture EXCEPT ![d] = capture'[d]],
                 capture[d].at # "writing" \/ capture'[d].at # "failed"
          PROVE  FALSE
        BY <1>1, <2>2
    <2>3. capture'[c] # capture[c]
        OBVIOUS
    <2>4. ~UNCHANGED capture
        BY <2>3
    <2>5. ASSUME NEW d \in Captures, NEW s \in Symbols, Ask(d, s) PROVE FALSE
        BY <1>1, <2>2, <2>5 DEF Ask
    <2>6. ASSUME NEW d \in Captures, NEW v \in Values, NEW x \in Times, Trade(d, v, x)
          PROVE  FALSE
        BY <1>1, <2>2, <2>6 DEF Trade
    <2>7. ASSUME NEW d \in Captures, TradeFails(d) \/ Resolve(d) PROVE FALSE
        BY <1>1, <2>2, <2>7 DEF TradeFails, Resolve
    <2>8. ASSUME NEW d \in Captures, Ends(d, "stored") PROVE FALSE
        <3>1. capture'[d].at = "stored" /\ \A x \in Captures \ {d} : capture'[x] = capture[x]
            BY <1>1, <2>1, <2>8 DEF Ends, CaptureRows
        <3> QED BY <3>1
    <2>9. ASSUME NEW d \in Captures, Refused(d), d # c PROVE FALSE
        BY <1>1, <2>3, <2>9 DEF Refused, Ends
    <2>10. CaptureMoves
        BY <2>4 DEF CaptureNext, captureVars, allVars
    <2>11. \E d \in Captures : Refused(d)
        BY <2>4, <2>5, <2>6, <2>7, <2>8, <2>10
        DEF CaptureMoves, Declare, Revoke, AppendEvent, Known, Store
    <2> QED BY <2>9, <2>11
<1>3. PICK k \in DOMAIN prices : o = prices[k]
    BY DEF Captured, Rows
<1>4. ASSUME NEW u \in Captured(c) PROVE u = o
    <2>1. PICK l \in DOMAIN prices : u = prices[l]
        BY DEF Captured, Rows
    <2>2. /\ o.source = "kiwoom" /\ u.source = "kiwoom" /\ o.instrument = u.instrument
          /\ o.symbol = u.symbol /\ o.observed = u.observed
        BY DEF Captured
    <2>3. k = l
        BY <1>1, <1>3, <2>1, <2>2 DEF TradesOnce
    <2> QED BY <1>3, <2>1, <2>3
<1>5. \E u \in Captured(c) : u.value # capture[c].value
    BY <1>2 DEF Refused, SameTrade
<1> QED BY <1>4, <1>5

\* A capture stores a trade for the instrument that is declared at that moment,
\* and is never refused a trade that is stored at its own price, for any number
\* of captures, declarations and revocations.
THEOREM CapturesAlwaysSound == CaptureSpec => CapturesAreSound
<1>1. CaptureInv /\ [CaptureNext]_allVars => StoredAsListed
    BY StepStoresListed
<1>2. CaptureInv /\ [CaptureNext]_allVars => RetakenStored
    BY StepRetakes
<1>3. CaptureSpec => [][StoredAsListed]_allVars
    BY <1>1, CaptureAlways, PTL DEF CaptureSpec
<1>4. CaptureSpec => [][RetakenStored]_allVars
    BY <1>2, CaptureAlways, PTL DEF CaptureSpec
<1>5. [][StoredAsListed]_allVars => CapturesAreListed
    BY DEF CapturesAreListed, StoredAsListed
<1>6. [][RetakenStored]_allVars => RetakenTradeIsStored
    BY DEF RetakenTradeIsStored, RetakenStored
<1> QED BY <1>3, <1>4, <1>5, <1>6 DEF CapturesAreSound
===============================================================================
