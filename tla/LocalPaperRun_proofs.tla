----------------------- MODULE LocalPaperRun_proofs -----------------------
(***************************************************************************)
(* For any number of processes, symbols, bars, orders, runs, faults and    *)
(* selections: a run of paper-execute keeps to its two leases, the policy  *)
(* of a close comes before what follows the close, what the account trades *)
(* is fair, and what is stored replays.                                    *)
(*                                                                         *)
(* A claim with a newer fence behind it never comes back to life, and      *)
(* neither does one under a selection that has moved on.  So one process   *)
(* at most can write (Live), and what it planned stays true of the tables  *)
(* until it writes itself, because the market only adds later closes.      *)
(*                                                                         *)
(* The account has an invariant of its own, on top of that of the runs: the*)
(* orders of a symbol take turns (TurnsInv), and what a symbol holds and   *)
(* has on order is what its newest signal asked for (TargetsInv).          *)
(***************************************************************************)
EXTENDS LocalPaperRun, FiniteSetTheorems, WellFoundedInduction, TLAPS

-----------------------------------------------------------------------------
(* The inductive invariant of the runs.  It leaves open the sums behind a    *)
(* valuation and a fill.                                                     *)

IsSequence(s) == Len(s) \in Nat /\ s = [i \in 1..Len(s) |-> s[i]]

\* What a stored valuation consists of, whatever its equity.
IsPoint(point) ==
    /\ point = [asOf |-> point.asOf, cutoff |-> point.cutoff, equity |-> point.equity,
                selection |-> point.selection, decision |-> point.decision]
    /\ point.asOf \in Nat /\ point.selection \in Nat
    /\ point.decision \in {"none", "INSUFFICIENT", "HOLD", "HALT_AND_ROLLBACK"}

RunShapes ==
    /\ bars \in Seq(Bar)
    /\ signals \in Seq(Signal)
    /\ IsSequence(orders) /\ IsSequence(fills) /\ IsSequence(points)
    /\ \A i \in DOMAIN points : IsPoint(points[i])
    /\ runner \in [held: BOOLEAN, live: BOOLEAN, fence: Nat, selection: Nat]
    /\ exec \in [armed: BOOLEAN, leased: BOOLEAN, live: BOOLEAN, fence: Nat]
    /\ selection \in [id: Nat, symbol: Symbol, since: Nat, event: Event]
    /\ proc \in [Process -> Proc]
    /\ stop \in [fence: Nat, after: Nat]

\* A lease of the account is newer than the last stop, and so is every fill
\* since that stop.
StopInv ==
    /\ stop.after <= Len(fills)
    /\ stop.fence <= exec.fence
    /\ exec.leased => exec.armed /\ stop.fence < exec.fence
    /\ StopIsRespected

\* A run whose claim is the newest is for the selection of the lease; when an
\* execution lease is held then, it is the one the run knows of, and one that
\* ended has given up both.
LeaseHolds(p) ==
    /\ proc[p].claim <= runner.fence
    /\ proc[p].selection <= selection.id
    /\ proc[p].lease # 0 => proc[p].claim # 0
    /\ proc[p].pc = "acquire" => proc[p].claim = 0
    /\ proc[p].claim = 0 => proc[p].pc \in {"idle", "acquire", "halt", "release"}
    /\ proc[p].claim # 0 /\ proc[p].claim = runner.fence =>
          /\ proc[p].pc = "idle" => ~runner.held
          /\ proc[p].pc # "idle" => runner.selection = proc[p].selection
          /\ proc[p].lease # 0 /\ exec.leased =>
                exec.fence = proc[p].lease /\ proc[p].pc \notin {"idle", "release"}

\* No two processes hold the same claim of the runner lease.
LeasesInv ==
    /\ \A p \in Process : LeaseHolds(p)
    /\ \A p, q \in Process : proc[p].claim # 0 /\ proc[p].claim = proc[q].claim => p = q

\* The closes of the market have no gap, and those of a symbol are in order.
BarsInv ==
    /\ \A b \in DOMAIN bars :
          /\ bars[b].close \in 1..MaxBars
          /\ \A k \in 1..bars[b].close : k \in StoredCloses
    /\ \A b, c \in DOMAIN bars :
          b < c /\ bars[b].symbol = bars[c].symbol => bars[b].close < bars[c].close

\* An order is for a signal of its symbol, which was recorded on a bar that was
\* stored, and no fill looks ahead.
OrdersInv ==
    /\ \A i \in DOMAIN signals :
          /\ signals[i].bar \in DOMAIN bars
          /\ signals[i].bar <= signals[i].cutoff
          /\ bars[signals[i].bar].symbol = signals[i].symbol
    /\ \A o \in DOMAIN orders :
          /\ orders[o].signal \in DOMAIN signals
          /\ orders[o].symbol = signals[orders[o].signal].symbol
    /\ \A f \in DOMAIN fills : fills[f].order \in DOMAIN orders /\ fills[f].bar \in DOMAIN bars
    /\ NoFillFromKnownBar

\* The valuations are in the order of their closes, only the newest may wait
\* for its decision, and the strategy that lost is no longer selected.
PointsInv ==
    /\ \A i, j \in DOMAIN points : i < j =>
          points[i].asOf < points[j].asOf /\ points[i].decision # "none"
    /\ \A i \in DOMAIN points :
          /\ points[i].asOf \in StoredCloses
          /\ points[i].selection <= selection.id
          /\ points[i].decision = "HALT_AND_ROLLBACK" => points[i].selection < selection.id

Live(p) ==
    /\ proc[p].claim # 0 /\ proc[p].claim = runner.fence
    /\ proc[p].selection = selection.id

\* The closes left of a run that may still write are all that the policy owes
\* up to the last one: none of them is before the newest valuation, that one is
\* among them while it is undecided, and none in between is left out.
PlanFits(p) ==
    /\ proc[p].closes # {} /\ proc[p].closes \subseteq StoredCloses
    /\ points = <<>> => \A j, k \in proc[p].closes : j = k
    /\ points # <<>> =>
          /\ \A k \in proc[p].closes : Newest.asOf <= k
          /\ Newest.decision = "none" => Newest.asOf \in proc[p].closes
          /\ \A k \in StoredCloses, j \in proc[p].closes :
                Newest.asOf < k /\ k <= j /\ k >= selection.since => k \in proc[p].closes

Committed(p) ==
    \E i \in DOMAIN signals : /\ signals[i].bar = proc[p].bar
                              /\ signals[i].selection = proc[p].selection

\* The last close is that of the bar a new signal will be about.
EndsAtBar(p) ==
    ~Committed(p) =>
        /\ bars[proc[p].bar].close \in proc[p].closes
        /\ \A k \in proc[p].closes : k <= bars[proc[p].bar].close

\* What the next order waits for.
BarDecided(p) ==
    /\ \A i \in DOMAIN points : points[i].decision # "none"
    /\ ~Committed(p) =>
          \E i \in DOMAIN points : /\ points[i].asOf = bars[proc[p].bar].close
                                   /\ points[i].selection = selection.id

Working == {"close", "fill", "value", "decide"}

PlanHolds(p) ==
    /\ proc[p].pc # "idle" => proc[p].bar \in DOMAIN bars
    /\ proc[p].pc = "fill" => proc[p].todo \subseteq DOMAIN orders
    /\ Live(p) =>
          /\ proc[p].pc \in Working => PlanFits(p) /\ EndsAtBar(p)
          /\ proc[p].pc = "decide" => points # <<>> /\ Newest.asOf \in proc[p].closes
          /\ proc[p].pc = "admit" => BarDecided(p)

PlansInv == \A p \in Process : PlanHolds(p)

RunInv == RunShapes /\ StopInv /\ LeasesInv /\ BarsInv /\ OrdersInv /\ PointsInv /\ PlansInv

-----------------------------------------------------------------------------
(* Numbers and sequences.                                                    *)

\* A set of numbers that is not empty has a least one.
LEMMA MinOf ==
    ASSUME NEW M, M \subseteq Nat, M # {}
    PROVE  Min(M) \in M /\ \A k \in M : Min(M) <= k
<1> DEFINE Less == {pair \in Nat \X Nat : pair[1] < pair[2]}
<1>1. IsWellFoundedOn(Less, Nat)
    BY NatLessThanWellFounded, Zenon DEF OpToRel
<1>2. \A i, j \in Nat : j < i => <<j, i>> \in Less
    OBVIOUS
<1> HIDE DEF Less
<1>3. PICK i \in M : \A j \in M : <<j, i>> \notin Less
    BY <1>1, WFMin
<1>4. ASSUME NEW j \in M PROVE i <= j
    <2>1. i \in Nat /\ j \in Nat /\ <<j, i>> \notin Less
        BY <1>3
    <2>2. ~(j < i)
        BY <1>2, <2>1
    <2> QED BY <2>1, <2>2
<1> QED BY <1>4 DEF Min

\* One below a bound has a largest.
LEMMA MaxOf ==
    ASSUME NEW n \in Nat, NEW M, M \subseteq 0..n, M # {}
    PROVE  Max(M) \in M /\ \A k \in M : k <= Max(M)
<1> DEFINE Gaps == {n - k : k \in M}
<1>1. Gaps \subseteq Nat /\ Gaps # {}
    <2>1. \A k \in M : n - k \in Nat
        OBVIOUS
    <2> QED BY <2>1
<1>2. Min(Gaps) \in Gaps /\ \A g \in Gaps : Min(Gaps) <= g
    <2> HIDE DEF Gaps
    <2> QED BY <1>1, MinOf
<1>3. PICK i \in M : Min(Gaps) = n - i
    BY <1>2
<1>4. ASSUME NEW k \in M PROVE k <= i
    <2>1. n - i <= n - k
        BY <1>2, <1>3
    <2> QED BY <2>1
<1>5. \E j \in M : \A k \in M : j >= k
    BY <1>4
<1> QED BY <1>5 DEF Max

LEMMA SequenceOf ==
    ASSUME NEW n \in Nat, NEW s, s = [i \in 1..n |-> s[i]]
    PROVE  IsSequence(s) /\ Len(s) = n /\ DOMAIN s = 1..n
<1> DEFINE S == {s[i] : i \in 1..n}
<1>1. s \in [1..n -> S]
    OBVIOUS
<1>2. s \in Seq(S) /\ Len(s) = n
    BY <1>1
<1> QED BY <1>2 DEF IsSequence

LEMMA TypedSequence ==
    ASSUME NEW S, NEW s \in Seq(S)
    PROVE  IsSequence(s) /\ DOMAIN s = 1..Len(s) /\ Len(s) \in Nat
BY DEF IsSequence

LEMMA Appended ==
    ASSUME NEW s, IsSequence(s), NEW e
    PROVE  /\ IsSequence(Append(s, e))
           /\ DOMAIN s = 1..Len(s) /\ Len(s) \in Nat
           /\ Len(Append(s, e)) = Len(s) + 1
           /\ DOMAIN Append(s, e) = 1..(Len(s) + 1)
           /\ \A i \in DOMAIN s : Append(s, e)[i] = s[i]
           /\ Append(s, e)[Len(s) + 1] = e
<1> DEFINE S == {s[i] : i \in 1..Len(s)} \cup {e}
<1>1. Len(s) \in Nat /\ s = [i \in 1..Len(s) |-> s[i]]
    BY DEF IsSequence
<1>2. s \in [1..Len(s) -> S]
    BY <1>1
<1>3. s \in Seq(S)
    BY <1>1, <1>2
<1>4. e \in S
    OBVIOUS
<1> HIDE DEF S
<1>5. /\ Append(s, e) \in Seq(S)
      /\ Len(Append(s, e)) = Len(s) + 1
      /\ DOMAIN Append(s, e) = 1..(Len(s) + 1)
      /\ \A i \in 1..Len(s) : Append(s, e)[i] = s[i]
      /\ Append(s, e)[Len(s) + 1] = e
    BY <1>3, <1>4
<1>6. Append(s, e) = [i \in 1..Len(Append(s, e)) |-> Append(s, e)[i]]
    BY <1>5, TypedSequence DEF IsSequence
<1>7. DOMAIN s = 1..Len(s)
    BY <1>1
<1> QED BY <1>1, <1>5, <1>6, <1>7 DEF IsSequence

-----------------------------------------------------------------------------
(* The market.                                                               *)

BarsTyped == bars \in Seq(Bar)

LEMMA ClosesBounded ==
    ASSUME BarsTyped, BarsInv
    PROVE  /\ MaxBars \in Nat
           /\ {0} \cup StoredCloses \subseteq 0..MaxBars
           /\ \A s : {0} \cup {bars[b].close : b \in Series(s)} \subseteq 0..MaxBars
<1>1. MaxBars \in Nat
    BY PaperAssumption
<1>2. \A b \in DOMAIN bars : bars[b].close \in 1..MaxBars
    BY DEF BarsInv
<1> QED BY <1>1, <1>2 DEF StoredCloses, Series

LEMMA LastCloseIs ==
    ASSUME BarsTyped, BarsInv, NEW s
    PROVE  /\ LastClose(s) \in 0..MaxBars /\ LastClose(s) \in {0} \cup StoredCloses
           /\ \A b \in Series(s) : bars[b].close <= LastClose(s)
<1> DEFINE M == {0} \cup {bars[b].close : b \in Series(s)}
<1>1. MaxBars \in Nat /\ M \subseteq 0..MaxBars /\ M # {}
    BY ClosesBounded
<1>2. \A b \in Series(s) : bars[b].close \in M
    OBVIOUS
<1>3. M \subseteq {0} \cup StoredCloses
    BY DEF Series, StoredCloses
<1>4. LastClose(s) = Max(M)
    BY DEF LastClose
<1> HIDE DEF M
<1>5. Max(M) \in M /\ \A k \in M : k <= Max(M)
    BY <1>1, MaxOf
<1> QED BY <1>1, <1>2, <1>3, <1>4, <1>5

LEMMA NewestCloseIs ==
    ASSUME BarsTyped, BarsInv
    PROVE  /\ Max({0} \cup StoredCloses) \in Nat
           /\ bars # <<>> =>
                 /\ Max(StoredCloses) \in StoredCloses
                 /\ \A k \in StoredCloses : k <= Max(StoredCloses)
<1>1. MaxBars \in Nat /\ {0} \cup StoredCloses \subseteq 0..MaxBars /\ {0} \cup StoredCloses # {}
    BY ClosesBounded
<1>2. Max({0} \cup StoredCloses) \in {0} \cup StoredCloses
    BY <1>1, MaxOf
<1>3. ASSUME bars # <<>> PROVE StoredCloses # {}
    <2>1. 1 \in DOMAIN bars
        BY <1>3 DEF BarsTyped
    <2> QED BY <2>1 DEF StoredCloses
<1>4. ASSUME StoredCloses # {}
      PROVE  /\ Max(StoredCloses) \in StoredCloses
             /\ \A k \in StoredCloses : k <= Max(StoredCloses)
    BY <1>1, <1>4, MaxOf
<1> QED BY <1>1, <1>2, <1>3, <1>4

\* What a step leaves of the bars: the stored ones, and a new close only behind
\* all the others.
MarketGrows ==
    /\ DOMAIN bars \subseteq DOMAIN bars'
    /\ \A b \in DOMAIN bars : bars'[b] = bars[b]
    /\ StoredCloses \subseteq StoredCloses'
    /\ \A c \in StoredCloses' \ StoredCloses : \A k \in StoredCloses : k < c

LEMMA ImportGrows ==
    ASSUME BarsTyped, BarsInv, NEW s \in Symbol, NEW kind \in BarKind, ImportBar(s, kind)
    PROVE  BarsTyped' /\ BarsInv' /\ MarketGrows /\ Len(bars) <= Len(bars)'
<1> DEFINE c == LastClose(s) + 1
           bar == [symbol |-> s, close |-> c, open |-> kind.open, capacity |-> kind.capacity]
           n == Len(bars)
<1>1. /\ LastClose(s) \in Nat /\ LastClose(s) \in {0} \cup StoredCloses
      /\ \A b \in Series(s) : bars[b].close <= LastClose(s)
      /\ LastClose(s) < MaxBars /\ MaxBars \in Nat
    BY LastCloseIs, ClosesBounded DEF ImportBar
<1>2. bar \in Bar /\ bar.close = c /\ bar.symbol = s
    <2>1. kind.open \in Nat /\ kind.capacity \in Nat
        BY PaperAssumption
    <2> QED BY <2>1, <1>1 DEF Bar
<1>3. bars' = Append(bars, bar) /\ bars \in Seq(Bar)
    BY DEF ImportBar, BarsTyped
<1> HIDE DEF bar
<1>4. /\ n \in Nat /\ DOMAIN bars = 1..n /\ DOMAIN bars' = 1..(n + 1) /\ Len(bars') = n + 1
      /\ \A b \in 1..n : bars'[b] = bars[b]
      /\ bars'[n + 1] = bar
      /\ bars' \in Seq(Bar)
    BY <1>2, <1>3
<1>5. c \in 1..MaxBars
    BY <1>1
<1>6. StoredCloses' = StoredCloses \cup {c}
    <2>1. StoredCloses' = {bars'[b].close : b \in 1..(n + 1)}
        BY <1>4 DEF StoredCloses
    <2>2. StoredCloses = {bars[b].close : b \in 1..n}
        BY <1>4 DEF StoredCloses
    <2>3. 1..(n + 1) = 1..n \cup {n + 1}
        BY <1>4
    <2> QED BY <2>1, <2>2, <2>3, <1>2, <1>4
<1>7. \A k \in StoredCloses : k \in 1..MaxBars /\ \A j \in 1..k : j \in StoredCloses
    <2>1. StoredCloses = {bars[b].close : b \in DOMAIN bars}
        BY DEF StoredCloses
    <2> QED BY <2>1 DEF BarsInv
<1>8. \A j \in 1..LastClose(s) : j \in StoredCloses
    BY <1>1, <1>7
<1>9. MarketGrows
    <2>1. ASSUME NEW k \in StoredCloses, c \notin StoredCloses PROVE k < c
        <3>1. k \in Nat /\ c \notin 1..k
            BY <2>1, <1>7
        <3> QED BY <3>1, <1>5
    <2> QED BY <2>1, <1>4, <1>6 DEF MarketGrows
<1>10. BarsInv'
    <2>1. ASSUME NEW b \in 1..(n + 1)
          PROVE  /\ bars'[b].close \in 1..MaxBars
                 /\ \A k \in 1..bars'[b].close : k \in StoredCloses'
        <3>1. CASE b \in 1..n
            <4>1. bars[b].close \in StoredCloses /\ bars'[b].close = bars[b].close
                BY <3>1, <1>4 DEF StoredCloses
            <4> QED BY <4>1, <1>6, <1>7
        <3>2. CASE b = n + 1
            <4>1. \A k \in 1..c : k = c \/ k \in 1..LastClose(s)
                BY <1>1
            <4> QED BY <4>1, <3>2, <1>2, <1>4, <1>5, <1>6, <1>8
        <3> QED BY <3>1, <3>2, <1>4
    <2>2. ASSUME NEW b \in 1..(n + 1), NEW d \in 1..(n + 1),
                 b < d, bars'[b].symbol = bars'[d].symbol
          PROVE  bars'[b].close < bars'[d].close
        <3>1. b \in 1..n /\ bars'[b] = bars[b] /\ bars[b] \in Bar
            BY <2>2, <1>3, <1>4
        <3>2. CASE d \in 1..n
            BY <3>1, <3>2, <2>2, <1>4 DEF BarsInv
        <3>3. CASE d = n + 1
            <4>1. b \in Series(s)
                BY <3>1, <3>3, <2>2, <1>2, <1>4 DEF Series
            <4>2. bars[b].close \in Nat
                BY <3>1 DEF Bar
            <4> QED BY <4>1, <4>2, <3>1, <3>3, <1>1, <1>2, <1>4
        <3> QED BY <3>2, <3>3, <1>4
    <2> QED BY <2>1, <2>2, <1>4 DEF BarsInv
<1> QED BY <1>4, <1>9, <1>10 DEF BarsTyped

-----------------------------------------------------------------------------
(* What a step changes.                                                      *)

\* What a process does without a fill or an order.
Quiet(p) ==
    \/ Acquire(p) \/ Prepare(p) \/ StartExecution(p) \/ Plan(p) \/ BeginClose(p) \/ NextOrder(p)
    \/ Value(p) \/ Decide(p) \/ HaltOwned(p) \/ Release(p)
    \/ Refresh(p) \/ Finish(p) \/ Fail(p) \/ Kill(p)
    \/ \E b \in DOMAIN bars : Begin(p, b) \/ NextFrame(p, b)

Outside == LeasesExpire \/ OperatorStops \/ \E s \in Symbol : OperatorSelects(s)

LEMMA StepKinds ==
    ASSUME [Next]_vars
    PROVE  \/ UNCHANGED vars
           \/ MarketMoves
           \/ Outside
           \/ \E p \in Process : FillStep(p) \/ Admit(p) \/ Quiet(p)
BY DEF Next, Step, Quiet, Outside

LEMMA QuietKeeps ==
    ASSUME NEW p \in Process, Quiet(p)
    PROVE  UNCHANGED paperVars
BY DEF Quiet, Acquire, Prepare, StartExecution, Plan, BeginClose, NextOrder, Value, Decide,
       HaltOwned, Release, Refresh, Finish, Fail, Kill, Begin, NextFrame

LEMMA OutsideKeeps ==
    ASSUME Outside
    PROVE  UNCHANGED paperVars
BY DEF Outside, LeasesExpire, OperatorStops, OperatorSelects

LEMMA MarketHolds ==
    ASSUME BarsTyped, BarsInv, [Next]_vars
    PROVE  BarsTyped' /\ BarsInv' /\ MarketGrows
<1>1. CASE MarketMoves
    BY <1>1, ImportGrows DEF MarketMoves
<1>2. CASE UNCHANGED bars
    <2>1. StoredCloses' = StoredCloses
        BY <1>2 DEF StoredCloses
    <2> QED BY <1>2, <2>1 DEF BarsTyped, BarsInv, MarketGrows
<1>3. ASSUME NEW p \in Process, FillStep(p) \/ Admit(p) PROVE UNCHANGED bars
    BY <1>3 DEF FillStep, FillOrder, Admit, AdmitSignal, paperVars
<1>4. UNCHANGED paperVars => UNCHANGED bars
    BY DEF paperVars
<1>5. UNCHANGED vars => UNCHANGED paperVars
    BY DEF vars
<1> QED BY <1>1, <1>2, <1>3, <1>4, <1>5, StepKinds, QuietKeeps, OutsideKeeps

\* A fill is of an order of the run, from a bar the order may be filled from
\* that closes no later than the close the run works on.
LEMMA FillStepIs ==
    ASSUME RunShapes, PlansInv, NEW p \in Process, FillStep(p)
    PROVE  \E fill :
              /\ fills' = Append(fills, fill)
              /\ fill.order \in DOMAIN orders
              /\ fill.bar \in FillBars(fill.order)
              /\ bars[fill.bar].close <= AsOf(p)
              /\ fill.fence = exec.fence
              /\ UNCHANGED <<bars, signals, orders, runVars>>
<1> DEFINE o == Min(proc[p].todo)
           B == BarsThrough(o, AsOf(p))
           C == Candidates(fills, o, B)
           fill == FillAt(fills, o, B, exec.fence)
<1>1. o \in DOMAIN orders
    <2>1. proc[p].todo \subseteq DOMAIN orders /\ proc[p].todo # {}
        BY DEF PlansInv, PlanHolds, FillStep
    <2>2. proc[p].todo \subseteq Nat
        BY DEF RunShapes, Proc
    <2> QED BY <2>1, <2>2, MinOf
<1>2. /\ fills' = Append(fills, fill) /\ C # {}
      /\ UNCHANGED <<bars, signals, orders, runVars>>
    BY DEF FillStep, FillOrder, CanFill, FillThrough
<1>3. fill.order = o /\ fill.bar = Min(C) /\ fill.fence = exec.fence
    BY DEF FillAt, Choice
<1>4. C \subseteq B /\ B \subseteq FillBars(o) /\ \A b \in B : bars[b].close <= AsOf(p)
    BY DEF Candidates, BarsThrough
<1>5. FillBars(o) \subseteq Nat
    BY TypedSequence DEF FillBars, Series, RunShapes
<1> HIDE DEF fill, o, B, C
<1>6. Min(C) \in C
    BY <1>2, <1>4, <1>5, MinOf
<1> QED BY <1>1, <1>2, <1>3, <1>4, <1>6

\* An order is admitted with a new signal on the newest bar of the run, or
\* nothing is written.
LEMMA AdmitIs ==
    ASSUME NEW p \in Process, Admit(p)
    PROVE  /\ UNCHANGED <<bars, fills, runner, exec, selection, points, stop>>
           /\ \/ UNCHANGED <<signals, orders>>
              \/ \E target \in Target :
                    /\ ~IsCommitted(p)
                    /\ signals' = Append(signals,
                           [bar |-> proc[p].bar, symbol |-> bars[proc[p].bar].symbol,
                            target |-> target, selection |-> selection.id, cutoff |-> Len(bars)])
                    /\ \/ UNCHANGED orders
                       \/ \E delta : PlaceOrder(bars[proc[p].bar].symbol, delta)
BY DEF Admit, AdmitSignal, RecordSignal, paperVars

-----------------------------------------------------------------------------
(* Shapes.                                                                   *)

RowShapes == signals \in Seq(Signal) /\ IsSequence(orders) /\ IsSequence(fills)

PointShapes == IsSequence(points) /\ \A i \in DOMAIN points : IsPoint(points[i])

LeaseShapes ==
    /\ runner \in [held: BOOLEAN, live: BOOLEAN, fence: Nat, selection: Nat]
    /\ exec \in [armed: BOOLEAN, leased: BOOLEAN, live: BOOLEAN, fence: Nat]
    /\ selection \in [id: Nat, symbol: Symbol, since: Nat, event: Event]
    /\ proc \in [Process -> Proc]
    /\ stop \in [fence: Nat, after: Nat]

LEMMA Committed_ ==
    ASSUME NEW p
    PROVE  IsCommitted(p) <=> Committed(p)
BY DEF IsCommitted, SignalsFor, Committed

LEMMA RowsShaped ==
    ASSUME RunShapes, PlansInv, [Next]_vars
    PROVE  RowShapes'
<1>1. CASE UNCHANGED paperVars
    BY <1>1 DEF RunShapes, RowShapes, IsSequence, paperVars
<1>2. CASE MarketMoves
    BY <1>2 DEF MarketMoves, ImportBar, RunShapes, RowShapes, IsSequence
<1>3. ASSUME NEW p \in Process, FillStep(p) PROVE RowShapes'
    <2>1. PICK fill : fills' = Append(fills, fill) /\ UNCHANGED <<signals, orders>>
        BY <1>3, FillStepIs
    <2>2. IsSequence(fills')
        <3>1. IsSequence(fills)
            BY DEF RunShapes
        <3> QED BY <2>1, <3>1, Appended
    <2> QED BY <2>1, <2>2 DEF RunShapes, RowShapes, IsSequence
<1>4. ASSUME NEW p \in Process, Admit(p) PROVE RowShapes'
    <2>1. CASE UNCHANGED <<signals, orders>>
        BY <1>4, <2>1, AdmitIs DEF RunShapes, RowShapes, IsSequence
    <2>2. ASSUME NEW target \in Target,
                 signals' = Append(signals,
                     [bar |-> proc[p].bar, symbol |-> bars[proc[p].bar].symbol,
                      target |-> target, selection |-> selection.id, cutoff |-> Len(bars)]),
                 UNCHANGED orders \/ \E delta : PlaceOrder(bars[proc[p].bar].symbol, delta)
          PROVE  RowShapes'
        <3>1. proc[p].bar \in DOMAIN bars /\ bars \in Seq(Bar)
            BY <1>4 DEF Admit, PlansInv, PlanHolds, RunShapes
        <3>2. proc[p].bar \in Nat /\ bars[proc[p].bar].symbol \in Symbol /\ Len(bars) \in Nat
            <4>1. PICK b : b = proc[p].bar /\ b \in DOMAIN bars
                BY <3>1
            <4>2. b \in Nat /\ bars[b] \in Bar /\ Len(bars) \in Nat
                BY <3>1, <4>1
            <4> QED BY <4>1, <4>2 DEF Bar
        <3>3. target \in Nat /\ selection.id \in Nat
            BY PaperAssumption DEF RunShapes
        <3>4. signals' \in Seq(Signal)
            BY <2>2, <3>2, <3>3 DEF RunShapes, Signal
        <3>5. IsSequence(orders')
            <4>1. IsSequence(orders)
                BY DEF RunShapes
            <4>2. orders' = orders \/ \E order : orders' = Append(orders, order)
                BY <2>2 DEF PlaceOrder
            <4>3. ASSUME NEW order, orders' = Append(orders, order) PROVE IsSequence(orders')
                BY <4>1, <4>3, Appended
            <4>4. orders' = orders => IsSequence(orders')
                BY <4>1
            <4> QED BY <4>2, <4>3, <4>4
        <3>6. IsSequence(fills')
            BY <1>4, AdmitIs DEF RunShapes, IsSequence
        <3> QED BY <3>4, <3>5, <3>6 DEF RowShapes, IsSequence
    <2> QED BY <1>4, <2>1, <2>2, AdmitIs
<1> QED BY <1>1, <1>2, <1>3, <1>4, StepKinds, QuietKeeps, OutsideKeeps DEF vars

\* The index of the newest valuation is a number, and so is that of every
\* valuation at a close.
LEMMA PointsIndexed ==
    ASSUME PointShapes
    PROVE  /\ DOMAIN points = 1..Len(points) /\ Len(points) \in Nat
           /\ points = <<>> <=> Len(points) = 0
           /\ points # <<>> => Len(points) \in DOMAIN points
<1>1. DOMAIN points = 1..Len(points) /\ Len(points) \in Nat
    BY Appended DEF PointShapes
<1>2. points = [i \in 1..Len(points) |-> points[i]]
    BY DEF PointShapes, IsSequence
<1>3. ASSUME Len(points) = 0 PROVE points = <<>>
    BY <1>2, <1>3
<1> QED BY <1>1, <1>3

\* A decision changes nothing else of a valuation.
LEMMA Decided ==
    ASSUME PointShapes, NEW i \in DOMAIN points,
           NEW d \in {"none", "INSUFFICIENT", "HOLD", "HALT_AND_ROLLBACK"},
           points' = [points EXCEPT ![i].decision = d]
    PROVE  /\ PointShapes' /\ DOMAIN points' = DOMAIN points /\ Len(points)' = Len(points)
           /\ \A j \in DOMAIN points :
                 /\ points'[j].asOf = points[j].asOf
                 /\ points'[j].cutoff = points[j].cutoff
                 /\ points'[j].equity = points[j].equity
                 /\ points'[j].selection = points[j].selection
                 /\ points'[j].decision = IF j = i THEN d ELSE points[j].decision
<1>1. DOMAIN points = 1..Len(points) /\ Len(points) \in Nat /\ \A j \in DOMAIN points : IsPoint(points[j])
    BY PointsIndexed DEF PointShapes
<1> DEFINE point == [points[i] EXCEPT !.decision = d]
<1>2. points' = [points EXCEPT ![i] = point]
    OBVIOUS
<1>3. points[i] = [asOf |-> points[i].asOf, cutoff |-> points[i].cutoff, equity |-> points[i].equity,
                   selection |-> points[i].selection, decision |-> points[i].decision]
    BY <1>1 DEF IsPoint
<1>4. point = [asOf |-> points[i].asOf, cutoff |-> points[i].cutoff, equity |-> points[i].equity,
               selection |-> points[i].selection, decision |-> d]
    BY <1>3
<1>5. IsPoint(point) /\ point.asOf = points[i].asOf /\ point.selection = points[i].selection
      /\ point.cutoff = points[i].cutoff /\ point.equity = points[i].equity /\ point.decision = d
    BY <1>1, <1>4 DEF IsPoint
<1> HIDE DEF point
<1>6. points' = [j \in 1..Len(points) |-> points'[j]] /\ DOMAIN points' = DOMAIN points
      /\ \A j \in DOMAIN points : points'[j] = IF j = i THEN point ELSE points[j]
    <2>1. points = [j \in 1..Len(points) |-> points[j]]
        BY DEF PointShapes, IsSequence
    <2> QED BY <1>1, <1>2, <2>1
<1>7. IsSequence(points') /\ Len(points') = Len(points)
    BY <1>1, <1>6, SequenceOf
<1> QED BY <1>1, <1>5, <1>6, <1>7 DEF PointShapes, IsSequence

\* What happens to the valuations in a step that writes one.
LEMMA ValueIs ==
    ASSUME RunShapes, NEW p \in Process, Value(p)
    PROVE  \/ /\ \E i \in DOMAIN points : points[i].asOf = AsOf(p) /\ points[i].selection = selection.id
              /\ UNCHANGED points
           \/ /\ points # <<>> => Newest.asOf < AsOf(p)
              /\ AsOf(p) \in StoredCloses
              /\ \E point : /\ points' = Append(points, point)
                            /\ point = [asOf |-> AsOf(p), cutoff |-> point.cutoff, equity |-> point.equity,
                                        selection |-> selection.id, decision |-> "none"]
<1>1. CASE \E i \in PointsAt(AsOf(p)) : points[i].selection = selection.id /\ UNCHANGED points
    BY <1>1 DEF PointsAt
<1>2. ASSUME points # <<>> => Newest.asOf < AsOf(p),
             CanValue(Bounded(Len(fills), AsOf(p)), AsOf(p)),
             points' = Append(points, [asOf |-> AsOf(p), cutoff |-> Len(fills),
                                       equity |-> Equity(Bounded(Len(fills), AsOf(p)), AsOf(p)),
                                       selection |-> selection.id, decision |-> "none"])
      PROVE  /\ AsOf(p) \in StoredCloses
             /\ \E point : /\ points' = Append(points, point)
                           /\ point = [asOf |-> AsOf(p), cutoff |-> point.cutoff, equity |-> point.equity,
                                       selection |-> selection.id, decision |-> "none"]
    <2>1. MarksAt(AsOf(p)) # {}
        BY <1>2 DEF CanValue
    <2>2. AsOf(p) \in StoredCloses
        BY <2>1 DEF MarksAt, StoredCloses
    <2> DEFINE e == Equity(Bounded(Len(fills), AsOf(p)), AsOf(p))
               point == [asOf |-> AsOf(p), cutoff |-> Len(fills), equity |-> e,
                         selection |-> selection.id, decision |-> "none"]
    <2>3. points' = Append(points, point)
        BY <1>2
    <2> HIDE DEF e
    <2>4. point.cutoff = Len(fills) /\ point.equity = e
        OBVIOUS
    <2> QED BY <2>2, <2>3, <2>4
<1> QED BY <1>1, <1>2 DEF Value

LEMMA PointsShaped ==
    ASSUME RunShapes, BarsInv, [Next]_vars
    PROVE  PointShapes'
<1>0. PointShapes /\ BarsTyped
    BY DEF RunShapes, PointShapes, BarsTyped
<1>1. CASE UNCHANGED points
    BY <1>0, <1>1 DEF PointShapes, IsSequence
<1>2. ASSUME NEW p \in Process, Value(p) PROVE PointShapes'
    <2>1. ASSUME NEW point, points' = Append(points, point),
                 AsOf(p) \in StoredCloses,
                 point = [asOf |-> AsOf(p), cutoff |-> point.cutoff, equity |-> point.equity,
                          selection |-> selection.id, decision |-> "none"]
          PROVE  PointShapes'
        <3>1. AsOf(p) \in Nat /\ selection.id \in Nat
            BY <2>1, <1>0, ClosesBounded DEF RunShapes
        <3>2. IsPoint(point)
            <4>1. point.asOf = AsOf(p) /\ point.selection = selection.id /\ point.decision = "none"
                BY <2>1
            <4> QED BY <2>1, <3>1, <4>1 DEF IsPoint
        <3>3. IsSequence(points)
            BY <1>0 DEF PointShapes
        <3>4. /\ IsSequence(points') /\ DOMAIN points = 1..Len(points) /\ Len(points) \in Nat
              /\ DOMAIN points' = 1..(Len(points) + 1)
              /\ \A i \in DOMAIN points : points'[i] = points[i]
              /\ points'[Len(points) + 1] = point
            BY <2>1, <3>3, Appended
        <3>5. \A i \in DOMAIN points' : IsPoint(points'[i])
            BY <1>0, <3>2, <3>4 DEF PointShapes
        <3> QED BY <3>4, <3>5 DEF PointShapes, IsSequence
    <2> QED BY <1>1, <1>2, <2>1, ValueIs
<1>3. ASSUME NEW p \in Process, Decide(p) PROVE PointShapes'
    <2> DEFINE i == Max(PointsAt(AsOf(p)))
    <2>1. i \in Window(i) /\ points' = [points EXCEPT ![i].decision = DecisionFor(i)]
        BY <1>3 DEF Decide
    <2>2. DecisionFor(i) \in {"none", "INSUFFICIENT", "HOLD", "HALT_AND_ROLLBACK"}
        BY DEF DecisionFor
    <2> HIDE DEF i
    <2>3. CASE i \in DOMAIN points
        BY <1>0, <2>1, <2>2, <2>3, Decided
    <2>4. CASE i \notin DOMAIN points
        <3>1. points = [j \in 1..Len(points) |-> points[j]] /\ DOMAIN points = 1..Len(points)
            BY <1>0, PointsIndexed DEF PointShapes, IsSequence
        <3>2. points' = points
            BY <2>1, <2>4, <3>1
        <3> QED BY <1>1, <3>2
    <2> QED BY <2>3, <2>4
<1>4. ASSUME NEW p \in Process, Quiet(p), ~Value(p), ~Decide(p) PROVE UNCHANGED points
    BY <1>4 DEF Quiet, Acquire, Prepare, StartExecution, Plan, BeginClose, NextOrder,
                HaltOwned, Release, Refresh, Finish, Fail, Kill, Begin, NextFrame
<1>5. Outside \/ MarketMoves => UNCHANGED points
    BY DEF Outside, LeasesExpire, OperatorStops, OperatorSelects, MarketMoves, runVars
<1>6. ASSUME NEW p \in Process, FillStep(p) \/ Admit(p) PROVE UNCHANGED points
    BY <1>6 DEF FillStep, Admit, runVars
<1> QED BY <1>1, <1>2, <1>3, <1>4, <1>5, <1>6, StepKinds DEF vars, runVars

ExecRow == [armed: BOOLEAN, leased: BOOLEAN, live: BOOLEAN, fence: Nat]

LEMMA HaltedExec ==
    ASSUME NEW e \in ExecRow
    PROVE  /\ [e EXCEPT !.armed = FALSE, !.leased = FALSE, !.live = FALSE, !.fence = @ + 1] \in ExecRow
           /\ [e EXCEPT !.armed = FALSE, !.leased = FALSE, !.live = FALSE, !.fence = @ + 1].leased = FALSE
           /\ [e EXCEPT !.armed = FALSE, !.leased = FALSE, !.live = FALSE, !.fence = @ + 1].fence = e.fence + 1
<1>1. PICK a : a = [e EXCEPT !.armed = FALSE, !.leased = FALSE, !.live = FALSE]
    OBVIOUS
<1>2. a \in ExecRow /\ a.leased = FALSE /\ a.fence = e.fence
    BY <1>1 DEF ExecRow
<1>3. [e EXCEPT !.armed = FALSE, !.leased = FALSE, !.live = FALSE, !.fence = @ + 1]
        = [a EXCEPT !.fence = e.fence + 1]
    BY <1>1 DEF ExecRow
<1>4. [a EXCEPT !.fence = e.fence + 1] \in ExecRow /\ [a EXCEPT !.fence = e.fence + 1].leased = FALSE
      /\ [a EXCEPT !.fence = e.fence + 1].fence = e.fence + 1
    BY <1>2 DEF ExecRow
<1> QED BY <1>3, <1>4

\* Every step of a process is about its own record.
LEMMA LeasesShaped ==
    ASSUME RunShapes, BarsInv, [Next]_vars
    PROVE  LeaseShapes'
<1>0. BarsTyped /\ LeaseShapes
    BY DEF RunShapes, BarsTyped, LeaseShapes
<1>1. CASE UNCHANGED runVars
    BY <1>0, <1>1 DEF LeaseShapes, runVars
<1>2. ASSUME NEW s \in Symbol, NEW e \in Event, Select(s, e)
      PROVE  selection' \in [id: Nat, symbol: Symbol, since: Nat, event: Event]
    <2>1. Max({0} \cup StoredCloses) \in Nat
        BY <1>0, NewestCloseIs
    <2> QED BY <1>0, <1>2, <2>1 DEF Select, LeaseShapes
<1>a. exec \in ExecRow /\ exec.fence \in Nat
    BY <1>0 DEF LeaseShapes, ExecRow
<1>b. [exec EXCEPT !.armed = FALSE, !.leased = FALSE, !.live = FALSE, !.fence = @ + 1] \in ExecRow
    BY <1>a, HaltedExec
<1>3. ASSUME Outside PROVE LeaseShapes'
    <2>1. CASE LeasesExpire
        BY <1>0, <2>1 DEF LeasesExpire, LeaseShapes
    <2>2. CASE OperatorStops
        <3>1. Len(fills) \in Nat
            BY DEF RunShapes, IsSequence
        <3>2. exec' \in ExecRow
            BY <1>b, <2>2 DEF OperatorStops
        <3>3. stop' \in [fence: Nat, after: Nat] /\ UNCHANGED <<runner, selection, proc>>
            BY <1>a, <2>2, <3>1 DEF OperatorStops
        <3> QED BY <1>0, <3>2, <3>3 DEF LeaseShapes, ExecRow
    <2>3. ASSUME NEW s \in Symbol, OperatorSelects(s) PROVE LeaseShapes'
        BY <1>0, <1>2, <2>3 DEF OperatorSelects, LeaseShapes, Event
    <2> QED BY <1>3, <2>1, <2>2, <2>3 DEF Outside
<1>4. ASSUME NEW p \in Process, FillStep(p) \/ Admit(p) \/ Quiet(p) PROVE LeaseShapes'
    <2>0. /\ proc[p] \in Proc
          /\ \A r \in Proc : [proc EXCEPT ![p] = r] \in [Process -> Proc]
        BY <1>0 DEF LeaseShapes
    <2>1. \A c \in Pc : [proc[p] EXCEPT !.pc = c] \in Proc
        BY <2>0 DEF Proc
    <2>2. ASSUME NEW c \in Pc, Goto(p, c) PROVE proc' \in [Process -> Proc]
        BY <2>0, <2>1, <2>2 DEF Goto
    <2>3. DOMAIN bars \subseteq Nat /\ StoredCloses \subseteq Nat /\ DOMAIN orders \subseteq Nat
        <3>1. IsSequence(orders)
            BY DEF RunShapes
        <3> QED BY <1>0, <3>1, ClosesBounded, Appended DEF BarsTyped
    <2>4. CASE FillStep(p)
        BY <1>1, <2>4 DEF FillStep
    <2>5. CASE Admit(p) \/ Prepare(p) \/ Value(p) \/ Finish(p) \/ Fail(p)
        BY <1>0, <2>2, <2>5 DEF Admit, Prepare, Value, Finish, Fail, LeaseShapes, Pc
    <2>6. CASE Acquire(p) \/ Release(p) \/ Kill(p)
        <3>1. /\ [[proc[p] EXCEPT !.claim = runner.fence + 1] EXCEPT !.pc = "prepare"] \in Proc
              /\ NoRun \in Proc
              /\ [NoRun EXCEPT !.claim = proc[p].claim, !.lease = proc[p].lease] \in Proc
            <4>1. runner.fence + 1 \in Nat
                BY <1>0 DEF LeaseShapes
            <4>2. \A n \in Nat : [[proc[p] EXCEPT !.claim = n] EXCEPT !.pc = "prepare"] \in Proc
                BY <2>0 DEF Proc, Pc
            <4>3. NoRun \in Proc
                BY DEF NoRun, Proc, Pc
            <4>4. \A m, n \in Nat : [[NoRun EXCEPT !.claim = m] EXCEPT !.lease = n] \in Proc
                BY <4>3 DEF Proc
            <4>5. proc[p].claim \in Nat /\ proc[p].lease \in Nat
                BY <2>0 DEF Proc
            <4> QED BY <4>1, <4>2, <4>3, <4>4, <4>5
        <3>2. proc' \in [Process -> Proc]
            BY <2>0, <2>6, <3>1 DEF Acquire, Release, Kill
        <3>3. runner' \in [held: BOOLEAN, live: BOOLEAN, fence: Nat, selection: Nat]
            <4>1. CASE Acquire(p)
                BY <1>0, <4>1 DEF Acquire, LeaseShapes
            <4>2. CASE Release(p)
                BY <1>0, <4>2 DEF Release, LeaseShapes
            <4>3. CASE Kill(p)
                BY <1>0, <4>3 DEF Kill, LeaseShapes
            <4> QED BY <2>6, <4>1, <4>2, <4>3
        <3>4. UNCHANGED <<exec, selection, stop>>
            BY <2>6 DEF Acquire, Release, Kill
        <3> QED BY <1>0, <3>2, <3>3, <3>4 DEF LeaseShapes
    <2>13. CASE StartExecution(p) \/ Refresh(p)
        <3>1. \A n \in Nat : /\ [[proc[p] EXCEPT !.lease = n] EXCEPT !.pc = "plan"] \in Proc
                             /\ [proc[p] EXCEPT !.lease = n] \in Proc
            BY <2>0 DEF Proc, Pc
        <3>2. proc' \in [Process -> Proc] /\ exec' \in ExecRow
            <4>1. CASE StartExecution(p)
                <5>1. PICK n \in Nat : n = exec.fence + (IF exec.armed THEN 1 ELSE 2)
                    BY <1>a
                <5>2. /\ proc' = [proc EXCEPT ![p] = [[proc[p] EXCEPT !.lease = n] EXCEPT !.pc = "plan"]]
                      /\ exec' = [armed |-> TRUE, leased |-> TRUE, live |-> TRUE, fence |-> n]
                    BY <4>1, <5>1 DEF StartExecution
                <5> QED BY <2>0, <3>1, <5>1, <5>2 DEF ExecRow
            <4>2. CASE Refresh(p)
                <5>1. exec.fence + 1 \in Nat
                    BY <1>a
                <5>2. /\ proc' = [proc EXCEPT ![p] = [proc[p] EXCEPT !.lease = exec.fence + 1]]
                      /\ exec' = [exec EXCEPT !.fence = exec.fence + 1]
                    BY <4>2 DEF Refresh, RenewBoth
                <5> QED BY <1>a, <2>0, <3>1, <5>1, <5>2 DEF ExecRow
            <4> QED BY <2>13, <4>1, <4>2
        <3>4. UNCHANGED <<runner, selection, stop>>
            BY <2>13 DEF StartExecution, Refresh
        <3> QED BY <1>0, <3>2, <3>4 DEF LeaseShapes, ExecRow
    <2>7. CASE Plan(p)
        <3>1. ClosesOf(p) \in SUBSET Nat
            BY <2>3 DEF ClosesOf
        <3> QED BY <1>0, <2>7, <3>1 DEF Plan, LeaseShapes, Proc, Pc
    <2>8. CASE BeginClose(p)
        <3>1. {o \in DOMAIN orders : IsOpen(o)} \in SUBSET Nat
            BY <2>3
        <3>2. \A t \in SUBSET Nat : [[proc[p] EXCEPT !.todo = t] EXCEPT !.pc = "fill"] \in Proc
            BY <2>0 DEF Proc, Pc
        <3>3. proc' \in [Process -> Proc]
            BY <2>0, <2>8, <3>1, <3>2 DEF BeginClose
        <3> QED BY <1>0, <2>8, <3>3 DEF BeginClose, LeaseShapes
    <2>9. CASE NextOrder(p)
        <3>1. proc' = [proc EXCEPT ![p].todo = @ \ {Min(@)}] => proc' \in [Process -> Proc]
            BY <1>0 DEF LeaseShapes, Proc
        <3> QED BY <1>0, <2>2, <2>9, <3>1 DEF NextOrder, LeaseShapes, Pc
    <2>10. CASE Decide(p)
        <3>1. CASE DecisionFor(Max(PointsAt(AsOf(p)))) = "HALT_AND_ROLLBACK"
            <4>1. exec' \in ExecRow
                BY <1>a, <1>b, <2>10, <3>1 DEF Decide
            <4>2. proc' \in [Process -> Proc]
                BY <2>2, <2>10, <3>1 DEF Decide, Pc
            <4>3. selection' \in [id: Nat, symbol: Symbol, since: Nat, event: Event]
                BY <1>2, <2>10, <3>1 DEF Decide, Event
            <4>4. UNCHANGED <<runner, stop>>
                BY <2>10 DEF Decide
            <4> QED BY <1>0, <4>1, <4>2, <4>3, <4>4 DEF LeaseShapes, ExecRow
        <3>2. CASE DecisionFor(Max(PointsAt(AsOf(p)))) # "HALT_AND_ROLLBACK"
            BY <1>0, <2>10, <3>2 DEF Decide, LaterCloses, LeaseShapes, Proc, Pc
        <3> QED BY <3>1, <3>2
    <2>11. CASE HaltOwned(p)
        <3>1. exec' \in ExecRow
            BY <1>a, <1>b, <2>11 DEF HaltOwned
        <3>2. proc' \in [Process -> Proc]
            BY <2>2, <2>11 DEF HaltOwned, Pc
        <3> QED BY <1>0, <2>11, <3>1, <3>2 DEF HaltOwned, LeaseShapes, ExecRow
    <2>12. ASSUME NEW b \in DOMAIN bars, Begin(p, b) \/ NextFrame(p, b) PROVE LeaseShapes'
        <3>1. b \in Nat
            BY <2>3
        <3>2. /\ [NoRun EXCEPT !.pc = "acquire", !.bar = b, !.selection = selection.id] \in Proc
              /\ [[proc[p] EXCEPT !.bar = b] EXCEPT !.pc = "prepare"] \in Proc
            BY <1>0, <2>0, <3>1 DEF LeaseShapes, NoRun, Proc, Pc
        <3>3. proc' \in [Process -> Proc]
            BY <2>0, <2>12, <3>2 DEF Begin, NextFrame
        <3> QED BY <1>0, <2>12, <3>3 DEF Begin, NextFrame, LeaseShapes
    <2> QED BY <1>4, <2>13, <2>4, <2>5, <2>6, <2>7, <2>8, <2>9, <2>10, <2>11, <2>12 DEF Quiet
<1> QED BY <1>1, <1>3, <1>4, StepKinds DEF vars, MarketMoves

LEMMA ShapesHold ==
    ASSUME RunShapes, BarsInv, PlansInv, [Next]_vars
    PROVE  RunShapes'
<1>1. BarsTyped
    BY DEF RunShapes, BarsTyped
<1>2. BarsTyped'
    BY <1>1, MarketHolds
<1>3. RowShapes' /\ PointShapes' /\ LeaseShapes'
    BY RowsShaped, PointsShaped, LeasesShaped
<1> QED BY <1>2, <1>3 DEF RunShapes, BarsTyped, RowShapes, PointShapes, LeaseShapes, IsSequence

-----------------------------------------------------------------------------
(* The leases.                                                               *)

\* What a step may do to the execution lease: nothing but time, halt it, or
\* take or renew it as a process with the newest claim.
ExecSame == exec'.armed = exec.armed /\ exec'.leased = exec.leased /\ exec'.fence = exec.fence

ExecHalted == exec'.leased = FALSE /\ exec'.fence = exec.fence + 1

ExecMoved == exec'.armed /\ exec'.leased /\ exec'.fence > exec.fence

LEMMA ExecMoves ==
    ASSUME RunShapes, [Next]_vars
    PROVE  \/ UNCHANGED stop /\ (ExecSame \/ ExecHalted)
           \/ UNCHANGED <<stop, runner, selection>> /\ ExecMoved
                /\ \E p \in Process : StartExecution(p) \/ Refresh(p)
           \/ stop' = [fence |-> exec.fence + 1, after |-> Len(fills)] /\ ExecHalted
                /\ UNCHANGED <<fills, runner, selection, proc>>
<1>1. exec \in ExecRow /\ exec.fence \in Nat
    BY DEF RunShapes, ExecRow
<1>2. CASE UNCHANGED <<exec, stop>>
    BY <1>2 DEF ExecSame
<1>3. CASE Outside
    <2>1. CASE LeasesExpire
        BY <1>1, <2>1 DEF LeasesExpire, ExecSame, ExecRow
    <2>2. CASE OperatorStops
        BY <1>1, <2>2, HaltedExec DEF OperatorStops, ExecHalted, paperVars
    <2>3. ASSUME NEW s \in Symbol, OperatorSelects(s) PROVE UNCHANGED <<exec, stop>>
        BY <2>3 DEF OperatorSelects
    <2> QED BY <1>2, <1>3, <2>1, <2>2, <2>3 DEF Outside
<1>4. ASSUME NEW p \in Process, Quiet(p)
      PROVE  \/ UNCHANGED stop /\ (ExecSame \/ ExecHalted)
             \/ UNCHANGED <<stop, runner, selection>> /\ ExecMoved
                  /\ \E q \in Process : StartExecution(q) \/ Refresh(q)
    <2>1. CASE StartExecution(p)
        <3>1. PICK n \in Nat : n = exec.fence + (IF exec.armed THEN 1 ELSE 2)
            BY <1>1
        <3>2. /\ exec' = [armed |-> TRUE, leased |-> TRUE, live |-> TRUE, fence |-> n]
              /\ UNCHANGED <<stop, runner, selection>>
            BY <2>1, <3>1 DEF StartExecution
        <3>3. ExecMoved
            BY <1>1, <3>1, <3>2 DEF ExecMoved
        <3> QED BY <2>1, <3>2, <3>3
    <2>2. CASE Refresh(p)
        <3>1. exec' = [exec EXCEPT !.fence = exec.fence + 1] /\ exec.armed /\ exec.leased
            BY <2>2 DEF Refresh, RenewBoth, HoldsExec
        <3>2. ExecMoved
            BY <1>1, <3>1 DEF ExecMoved, ExecRow
        <3> QED BY <2>2, <3>2 DEF Refresh
    <2>3. CASE Decide(p) \/ HaltOwned(p)
        <3>1. exec' = exec \/ exec' = [exec EXCEPT !.armed = FALSE, !.leased = FALSE, !.live = FALSE, !.fence = @ + 1]
            BY <2>3 DEF Decide, HaltOwned
        <3> QED BY <1>1, <2>3, <3>1, HaltedExec DEF Decide, HaltOwned, ExecSame, ExecHalted
    <2>4. CASE \/ Acquire(p) \/ Prepare(p) \/ Plan(p) \/ BeginClose(p) \/ NextOrder(p)
               \/ Value(p) \/ Release(p) \/ Finish(p) \/ Fail(p) \/ Kill(p)
               \/ \E b \in DOMAIN bars : Begin(p, b) \/ NextFrame(p, b)
        <3>1. UNCHANGED <<exec, stop>>
            BY <2>4 DEF Acquire, Prepare, Plan, BeginClose, NextOrder, Value, Release, Finish,
                        Fail, Kill, Begin, NextFrame
        <3> QED BY <3>1 DEF ExecSame
    <2> QED BY <1>4, <2>1, <2>2, <2>3, <2>4 DEF Quiet
<1>5. ASSUME NEW p \in Process, FillStep(p) \/ Admit(p) PROVE UNCHANGED <<exec, stop>>
    BY <1>5 DEF FillStep, Admit, runVars
<1>6. UNCHANGED vars \/ MarketMoves => UNCHANGED <<exec, stop>>
    BY DEF MarketMoves, vars, runVars
<1> QED BY <1>2, <1>3, <1>4, <1>5, <1>6, StepKinds

LEMMA StopHolds ==
    ASSUME RunShapes, BarsInv, PlansInv, StopInv, [Next]_vars
    PROVE  StopInv'
<1>1. /\ exec.fence \in Nat /\ stop.fence \in Nat /\ stop.after \in Nat
      /\ IsSequence(fills) /\ DOMAIN fills = 1..Len(fills) /\ Len(fills) \in Nat
    BY Appended DEF RunShapes
<1>2. CASE UNCHANGED fills
    <2>1. CASE UNCHANGED stop
        <3>1. StopIsRespected' /\ stop'.after <= Len(fills')
            BY <1>2, <2>1 DEF StopInv, StopIsRespected
        <3>2. CASE ExecSame \/ ExecHalted
            BY <1>1, <2>1, <3>1, <3>2 DEF StopInv, ExecSame, ExecHalted
        <3>3. CASE ExecMoved
            <4>1. exec'.fence \in Nat
                BY LeasesShaped DEF LeaseShapes
            <4> QED BY <1>1, <2>1, <3>1, <3>3, <4>1 DEF StopInv, ExecMoved
        <3> QED BY <1>1, <2>1, <3>2, <3>3, ExecMoves
    <2>2. CASE stop' = [fence |-> exec.fence + 1, after |-> Len(fills)] /\ ExecHalted
        BY <1>1, <1>2, <2>2 DEF StopInv, StopIsRespected, ExecHalted
    <2> QED BY <2>1, <2>2, ExecMoves
<1>3. ASSUME NEW p \in Process, FillStep(p) PROVE StopInv'
    <2>1. PICK fill : fills' = Append(fills, fill) /\ fill.fence = exec.fence
                      /\ UNCHANGED <<exec, stop>>
        BY <1>3, FillStepIs DEF runVars
    <2>2. exec.leased
        BY <1>3 DEF FillStep, HoldsExec
    <2>3. /\ Len(fills') = Len(fills) + 1 /\ DOMAIN fills' = 1..(Len(fills) + 1)
          /\ \A f \in DOMAIN fills : fills'[f] = fills[f]
          /\ fills'[Len(fills) + 1] = fill
        BY <1>1, <2>1, Appended
    <2>4. StopIsRespected'
        <3> SUFFICES ASSUME NEW f \in 1..(Len(fills) + 1), f > stop.after
                     PROVE  fills'[f].fence > stop.fence
            BY <2>1, <2>3 DEF StopIsRespected
        <3>1. CASE f \in DOMAIN fills
            BY <2>3, <3>1 DEF StopInv, StopIsRespected
        <3>2. CASE f = Len(fills) + 1
            BY <1>1, <2>1, <2>2, <2>3, <3>2 DEF StopInv
        <3> QED BY <1>1, <3>1, <3>2
    <2> QED BY <1>1, <2>1, <2>3, <2>4 DEF StopInv
<1>4. UNCHANGED paperVars \/ MarketMoves \/ UNCHANGED vars => UNCHANGED fills
    BY DEF paperVars, vars, MarketMoves, ImportBar
<1>5. ASSUME NEW p \in Process, Admit(p) PROVE UNCHANGED fills
    BY <1>5, AdmitIs
<1> QED BY <1>2, <1>3, <1>4, <1>5, StepKinds, QuietKeeps, OutsideKeeps

\* The steps of p leave the records of the others alone.
LEMMA OthersStay ==
    ASSUME RunShapes, NEW p \in Process, FillStep(p) \/ Admit(p) \/ Quiet(p),
           NEW q \in Process, q # p
    PROVE  proc'[q] = proc[q]
<1>1. proc \in [Process -> Proc]
    BY DEF RunShapes
<1>2. CASE FillStep(p) \/ Admit(p)
    BY <1>1, <1>2 DEF FillStep, runVars, Admit, Goto
<1>3. CASE \/ Acquire(p) \/ Prepare(p) \/ StartExecution(p) \/ Plan(p) \/ BeginClose(p)
           \/ NextOrder(p) \/ Value(p) \/ HaltOwned(p) \/ Release(p)
    BY <1>1, <1>3 DEF Acquire, Prepare, StartExecution, Plan, BeginClose, NextOrder, Value,
                      HaltOwned, Release, Goto
<1>4. CASE \/ Decide(p) \/ Refresh(p) \/ Finish(p) \/ Fail(p) \/ Kill(p)
           \/ \E b \in DOMAIN bars : Begin(p, b) \/ NextFrame(p, b)
    BY <1>1, <1>4 DEF Decide, Refresh, RenewBoth, Finish, Fail, Kill, Begin, NextFrame, Goto
<1> QED BY <1>2, <1>3, <1>4 DEF Quiet

LEMMA SelectionMoves ==
    ASSUME [Next]_vars
    PROVE  UNCHANGED selection \/ \E s \in Symbol, e \in Event : Select(s, e)
<1>1. UNCHANGED vars \/ MarketMoves \/ (\E p \in Process : FillStep(p) \/ Admit(p))
        => UNCHANGED selection
    BY DEF vars, runVars, MarketMoves, FillStep, Admit
<1>2. Outside => UNCHANGED selection \/ \E s \in Symbol, e \in Event : Select(s, e)
    BY DEF Outside, LeasesExpire, OperatorStops, OperatorSelects, Event
<1>3. ASSUME NEW p \in Process, Quiet(p), ~Decide(p)
      PROVE  UNCHANGED selection
    BY <1>3 DEF Quiet, Acquire, Prepare, StartExecution, Plan, BeginClose, NextOrder, Value,
                HaltOwned, Release, Refresh, Finish, Fail, Kill, Begin, NextFrame
<1>4. ASSUME NEW p \in Process, Decide(p)
      PROVE  UNCHANGED selection \/ \E s \in Symbol, e \in Event : Select(s, e)
    BY <1>4 DEF Decide, Event
<1> QED BY <1>1, <1>2, <1>3, <1>4, StepKinds

\* What another process sees of a step: a newer claim, or the same claim with
\* the lease held or not, for the same selection.
LEMMA RunnerMoves ==
    ASSUME RunShapes, [Next]_vars
    PROVE  /\ selection'.id >= selection.id /\ selection'.id \in Nat
           /\ runner'.fence \in Nat
           /\ \/ /\ runner'.fence = runner.fence /\ runner'.selection = runner.selection
                 /\ runner'.held => runner.held
              \/ /\ runner'.fence = runner.fence + 1
                 /\ \E p \in Process : Acquire(p)
<1>1. /\ runner \in [held: BOOLEAN, live: BOOLEAN, fence: Nat, selection: Nat]
      /\ selection.id \in Nat
    BY DEF RunShapes
<1>2. UNCHANGED runner \/ (\E l \in BOOLEAN : runner' = [runner EXCEPT !.live = l])
        \/ runner' = [runner EXCEPT !.held = FALSE, !.live = FALSE]
        \/ \E p \in Process : Acquire(p)
    <2>1. UNCHANGED vars \/ MarketMoves \/ (\E p \in Process : FillStep(p) \/ Admit(p))
            => UNCHANGED runner
        BY DEF vars, runVars, MarketMoves, FillStep, Admit
    <2>2. Outside => UNCHANGED runner \/ \E l \in BOOLEAN : runner' = [runner EXCEPT !.live = l]
        BY <1>1 DEF Outside, LeasesExpire, OperatorStops, OperatorSelects
    <2>3. ASSUME NEW p \in Process, Quiet(p)
          PROVE  \/ UNCHANGED runner
                 \/ runner' = [runner EXCEPT !.held = FALSE, !.live = FALSE]
                 \/ Acquire(p)
        BY <2>3 DEF Quiet, Prepare, StartExecution, Plan, BeginClose, NextOrder, Value, Decide,
                    HaltOwned, Release, Refresh, Finish, Fail, Kill, Begin, NextFrame
    <2> QED BY <2>1, <2>2, <2>3, StepKinds
<1>3. UNCHANGED selection \/ \E s \in Symbol, e \in Event : Select(s, e)
    BY SelectionMoves
<1>4. selection'.id >= selection.id /\ selection'.id \in Nat
    BY <1>1, <1>3 DEF Select
<1>5. ASSUME NEW p \in Process, Acquire(p) PROVE runner'.fence = runner.fence + 1
    BY <1>5 DEF Acquire
<1>6. CASE \E p \in Process : Acquire(p)
    BY <1>1, <1>4, <1>5, <1>6
<1>7. CASE UNCHANGED runner
    BY <1>1, <1>4, <1>7
<1>8. ASSUME NEW l \in BOOLEAN, runner' = [runner EXCEPT !.live = l]
      PROVE  runner'.fence = runner.fence /\ runner'.selection = runner.selection
             /\ runner'.held = runner.held
    BY <1>1, <1>8
<1>9. ASSUME runner' = [runner EXCEPT !.held = FALSE, !.live = FALSE]
      PROVE  runner'.fence = runner.fence /\ runner'.selection = runner.selection
             /\ runner'.held = FALSE
    BY <1>1, <1>9
<1> QED BY <1>1, <1>2, <1>4, <1>6, <1>7, <1>8, <1>9

LEMMA LeasesHold ==
    ASSUME RunShapes, BarsInv, StopInv, LeasesInv, [Next]_vars
    PROVE  LeasesInv'
<1>0. LeaseShapes /\ LeaseShapes'
    BY LeasesShaped DEF RunShapes, LeaseShapes
<1>1. /\ runner.fence \in Nat /\ exec.fence \in Nat /\ selection.id \in Nat
      /\ \A q \in Process : /\ proc[q] \in Proc /\ proc[q].claim \in Nat /\ proc[q].lease \in Nat
                            /\ proc[q].selection \in Nat
    BY <1>0 DEF LeaseShapes, Proc
<1>2. ASSUME NEW q \in Process, proc'[q] = proc[q]
      PROVE  LeaseHolds(q)'
    <2>1. LeaseHolds(q)
        BY DEF LeasesInv
    <2>4. ASSUME StartExecution(q) \/ Refresh(q) PROVE FALSE
        <3>1. proc \in [Process -> Proc]
            BY <1>0 DEF LeaseShapes
        <3>2. ~StartExecution(q)
            <4> SUFFICES ASSUME StartExecution(q) PROVE FALSE
                OBVIOUS
            <4>1. PICK n : proc' = [proc EXCEPT ![q] = [[proc[q] EXCEPT !.lease = n] EXCEPT !.pc = "plan"]]
                BY DEF StartExecution
            <4>2. proc'[q].pc = "plan" /\ proc[q].pc = "start"
                BY <1>1, <3>1, <4>1 DEF StartExecution, Proc
            <4> QED BY <1>2, <4>2
        <3>3. ASSUME Refresh(q) PROVE FALSE
            <4>1. proc'[q].lease = exec.fence + 1 /\ proc[q].lease = exec.fence
                BY <3>1, <3>3 DEF Refresh, RenewBoth, HoldsExec, Proc
            <4> QED BY <1>1, <1>2, <4>1
        <3> QED BY <2>4, <3>2, <3>3
    <2>5. ExecSame \/ ExecHalted \/ \E p \in Process \ {q} : StartExecution(p) \/ Refresh(p)
        BY <2>4, ExecMoves
    <2>2. CASE runner'.fence = runner.fence + 1
        BY <1>1, <1>2, <2>1, <2>2, RunnerMoves DEF LeaseHolds
    <2>3. CASE /\ runner'.fence = runner.fence /\ runner'.selection = runner.selection
               /\ runner'.held => runner.held
        <3>1. CASE ExecSame \/ ExecHalted
            BY <1>1, <1>2, <2>1, <2>3, <3>1, RunnerMoves DEF LeaseHolds, ExecSame, ExecHalted
        <3>2. ASSUME NEW p \in Process \ {q}, StartExecution(p) \/ Refresh(p) PROVE LeaseHolds(q)'
            <4>1. HoldsClaim(p) /\ proc[p].pc \in {"start", "close", "fill", "value", "admit", "wait"}
                BY <3>2 DEF StartExecution, Refresh
            <4>2. proc[p].claim # 0 /\ proc[p].claim = runner.fence
                BY <4>1 DEF HoldsClaim, LeasesInv, LeaseHolds
            <4>3. ~(proc[q].claim # 0 /\ proc[q].claim = runner.fence)
                BY <3>2, <4>2 DEF LeasesInv
            <4> QED BY <1>1, <1>2, <2>1, <2>3, <4>3, RunnerMoves DEF LeaseHolds
        <3> QED BY <2>5, <3>1, <3>2
    <2> QED BY <2>2, <2>3, RunnerMoves
<1>3. ASSUME NEW p \in Process, FillStep(p) \/ Admit(p) \/ Quiet(p)
      PROVE  LeaseHolds(p)' /\ (proc'[p].claim \in {0, proc[p].claim} \/ proc'[p].claim > runner.fence)
    <2>0. LeaseHolds(p) /\ proc \in [Process -> Proc] /\ proc[p] \in Proc
        BY <1>0 DEF LeasesInv, LeaseShapes
    <2>1. CASE FillStep(p)
        <3>1. UNCHANGED <<proc, runner, exec, selection>>
            BY <2>1 DEF FillStep, runVars
        <3> QED BY <2>0, <3>1 DEF LeaseHolds
    <2>2. ASSUME NEW c \in Pc, proc'[p].pc = c, proc[p].pc \notin {"idle", "release"},
                 proc'[p].claim = proc[p].claim, proc'[p].lease = proc[p].lease,
                 proc'[p].selection = proc[p].selection,
                 UNCHANGED runner, ExecSame \/ ExecHalted,
                 c \notin {"idle", "acquire", "release"}, proc[p].claim = 0 => c = "halt"
          PROVE  LeaseHolds(p)' /\ proc'[p].claim = proc[p].claim
        <3>1. CASE ExecSame
            BY <1>1, <2>0, <2>2, <3>1, RunnerMoves DEF LeaseHolds, ExecSame
        <3>2. CASE ExecHalted
            BY <1>1, <2>0, <2>2, <3>2, RunnerMoves DEF LeaseHolds, ExecHalted
        <3> QED BY <2>2, <3>1, <3>2
    <2>3. ASSUME NEW c \in Pc, Goto(p, c)
          PROVE  /\ proc'[p].pc = c /\ proc'[p].claim = proc[p].claim
                 /\ proc'[p].lease = proc[p].lease /\ proc'[p].selection = proc[p].selection
        BY <2>0, <2>3 DEF Goto, Proc
    <2>4. CASE Admit(p)
        <3>1. Goto(p, "wait") /\ UNCHANGED <<runner, exec>> /\ proc[p].pc = "admit"
            BY <2>4 DEF Admit
        <3> QED BY <2>0, <2>2, <2>3, <3>1 DEF LeaseHolds, Pc, ExecSame
    <2>5. CASE Prepare(p)
        <3>1. PICK c \in {"start", "plan"} : Goto(p, c)
            BY <2>5 DEF Prepare
        <3>2. UNCHANGED <<runner, exec>> /\ proc[p].pc = "prepare"
            BY <2>5 DEF Prepare
        <3> QED BY <2>0, <2>2, <2>3, <3>1, <3>2 DEF LeaseHolds, Pc, ExecSame
    <2>6. CASE Value(p)
        <3>1. Goto(p, "decide") /\ UNCHANGED <<runner, exec>> /\ proc[p].pc = "value"
            BY <2>6 DEF Value
        <3> QED BY <2>0, <2>2, <2>3, <3>1 DEF LeaseHolds, Pc, ExecSame
    <2>7. CASE Finish(p) \/ Fail(p)
        <3>1. /\ Goto(p, "halt") /\ UNCHANGED <<runner, exec>>
              /\ proc[p].pc \notin {"idle", "release"}
            BY <2>7 DEF Finish, Fail
        <3> QED BY <2>0, <2>2, <2>3, <3>1 DEF Pc, ExecSame
    <2>8. CASE Plan(p) \/ BeginClose(p)
        <3>1. PICK c \in {"close", "fill"} :
                 /\ proc'[p].pc = c /\ proc'[p].claim = proc[p].claim
                 /\ proc'[p].lease = proc[p].lease /\ proc'[p].selection = proc[p].selection
            BY <2>0, <2>8 DEF Plan, BeginClose, Proc
        <3>2. UNCHANGED <<runner, exec>> /\ proc[p].pc \in {"plan", "close"}
            BY <2>8 DEF Plan, BeginClose
        <3> QED BY <2>0, <2>2, <3>1, <3>2 DEF LeaseHolds, Pc, ExecSame
    <2>9. CASE NextOrder(p)
        <3>1. PICK c \in {"fill", "value"} :
                 /\ proc'[p].pc = c /\ proc'[p].claim = proc[p].claim
                 /\ proc'[p].lease = proc[p].lease /\ proc'[p].selection = proc[p].selection
            BY <2>0, <2>9 DEF NextOrder, Goto, Proc
        <3>2. UNCHANGED <<runner, exec>> /\ proc[p].pc = "fill"
            BY <2>9 DEF NextOrder
        <3> QED BY <2>0, <2>2, <3>1, <3>2 DEF LeaseHolds, Pc, ExecSame
    <2>10. CASE Decide(p)
        <3>1. PICK c \in {"halt", "admit", "close"} :
                 /\ proc'[p].pc = c /\ proc'[p].claim = proc[p].claim
                 /\ proc'[p].lease = proc[p].lease /\ proc'[p].selection = proc[p].selection
            BY <2>0, <2>10 DEF Decide, Goto, Proc
        <3>2. UNCHANGED runner /\ proc[p].pc = "decide"
            BY <2>10 DEF Decide
        <3>3. /\ exec' = exec \/ exec' = [exec EXCEPT !.armed = FALSE, !.leased = FALSE, !.live = FALSE, !.fence = @ + 1]
              /\ exec \in ExecRow
            BY <1>0, <2>10 DEF Decide, LeaseShapes, ExecRow
        <3>4. ExecSame \/ ExecHalted
            BY <3>3, HaltedExec DEF ExecSame, ExecHalted
        <3> QED BY <2>0, <2>2, <3>1, <3>2, <3>4 DEF LeaseHolds, Pc
    <2>11. ASSUME NEW b \in DOMAIN bars, NextFrame(p, b)
           PROVE  LeaseHolds(p)' /\ proc'[p].claim = proc[p].claim
        <3>1. /\ proc'[p].pc = "prepare" /\ proc'[p].claim = proc[p].claim
              /\ proc'[p].lease = proc[p].lease /\ proc'[p].selection = proc[p].selection
            BY <2>0, <2>11 DEF NextFrame, Proc
        <3>2. UNCHANGED <<runner, exec>> /\ proc[p].pc = "wait"
            BY <2>11 DEF NextFrame
        <3> QED BY <2>0, <2>2, <3>1, <3>2 DEF LeaseHolds, Pc, ExecSame
    <2>12. CASE Kill(p) \/ \E b \in DOMAIN bars : Begin(p, b)
        <3>1. /\ proc'[p].claim = 0 /\ proc'[p].lease = 0
              /\ proc'[p].selection \in {0, selection.id} /\ proc'[p].pc \in {"idle", "acquire"}
            <4>1. CASE Kill(p)
                <5>1. proc'[p] = NoRun
                    BY <2>0, <4>1 DEF Kill
                <5> QED BY <5>1 DEF NoRun
            <4>2. ASSUME NEW b \in DOMAIN bars, Begin(p, b)
                  PROVE  /\ proc'[p].claim = 0 /\ proc'[p].lease = 0
                         /\ proc'[p].selection = selection.id /\ proc'[p].pc = "acquire"
                <5>1. proc'[p] = [NoRun EXCEPT !.pc = "acquire", !.bar = b, !.selection = selection.id]
                    BY <2>0, <4>2 DEF Begin
                <5> QED BY <5>1 DEF NoRun
            <4> QED BY <2>12, <4>1, <4>2
        <3> QED BY <1>1, <3>1, RunnerMoves DEF LeaseHolds
    <2>13. CASE Acquire(p)
        <3>1. /\ proc'[p].claim = runner.fence + 1 /\ proc'[p].pc = "prepare"
              /\ proc'[p].lease = 0 /\ proc'[p].selection = selection.id
              /\ runner'.fence = runner.fence + 1 /\ runner'.selection = selection.id
            BY <2>0, <2>13 DEF Acquire, LeaseHolds, Proc
        <3> QED BY <1>1, <3>1, RunnerMoves DEF LeaseHolds
    <2>14. CASE StartExecution(p)
        <3>1. /\ proc'[p].claim = proc[p].claim /\ proc'[p].pc = "plan"
              /\ proc'[p].lease = exec'.fence /\ proc'[p].selection = proc[p].selection
              /\ UNCHANGED runner /\ proc[p].pc = "start"
            BY <2>0, <2>14 DEF StartExecution, Proc
        <3> QED BY <1>1, <2>0, <3>1, RunnerMoves DEF LeaseHolds
    <2>15. CASE Refresh(p)
        <3>1. /\ exec' = [exec EXCEPT !.fence = exec.fence + 1]
              /\ proc' = [proc EXCEPT ![p].lease = exec.fence + 1]
              /\ UNCHANGED runner /\ proc[p].pc \in {"close", "fill", "value", "admit", "wait"}
            BY <2>15 DEF Refresh, RenewBoth
        <3>2. exec'.fence = exec.fence + 1
            BY <1>0, <3>1 DEF LeaseShapes
        <3>3. /\ proc'[p].claim = proc[p].claim /\ proc'[p].pc = proc[p].pc
              /\ proc'[p].lease = exec.fence + 1 /\ proc'[p].selection = proc[p].selection
            BY <2>0, <3>1 DEF Proc
        <3> QED BY <1>1, <2>0, <3>1, <3>2, <3>3, RunnerMoves DEF LeaseHolds
    <2>16. CASE HaltOwned(p)
        <3>1. /\ proc'[p].claim = proc[p].claim /\ proc'[p].pc = "release"
              /\ proc'[p].lease = proc[p].lease /\ proc'[p].selection = proc[p].selection
              /\ UNCHANGED runner /\ proc[p].pc = "halt"
            BY <2>3, <2>16 DEF HaltOwned, Pc
        <3>2. ASSUME proc[p].claim = runner.fence, proc[p].claim # 0, proc[p].lease # 0
              PROVE  ~exec'.leased
            <4>1. CASE exec.leased
                <5>1. exec.armed /\ exec.fence = proc[p].lease
                    BY <2>0, <3>2, <4>1 DEF LeaseHolds, StopInv
                <5>2. exec' = [exec EXCEPT !.armed = FALSE, !.leased = FALSE, !.live = FALSE, !.fence = @ + 1]
                    BY <2>16, <4>1, <5>1 DEF HaltOwned
                <5> QED BY <1>0, <5>2, HaltedExec DEF LeaseShapes, ExecRow
            <4>2. CASE ~exec.leased
                BY <1>0, <2>16, <4>2 DEF HaltOwned, LeaseShapes
            <4> QED BY <4>1, <4>2
        <3> QED BY <1>1, <2>0, <3>1, <3>2, RunnerMoves DEF LeaseHolds
    <2>17. CASE Release(p)
        <3>1. /\ proc'[p].claim = proc[p].claim /\ proc'[p].pc = "idle"
              /\ proc'[p].lease = proc[p].lease /\ proc'[p].selection = 0
              /\ UNCHANGED exec /\ proc[p].pc = "release"
            BY <2>0, <2>17 DEF Release, NoRun
        <3>2. runner'.fence = runner.fence /\ (runner.fence = proc[p].claim => ~runner'.held)
            BY <1>0, <2>17 DEF Release, LeaseShapes
        <3> QED BY <1>1, <2>0, <3>1, <3>2, RunnerMoves DEF LeaseHolds
    <2> QED BY <1>3, <2>1, <2>4, <2>5, <2>6, <2>7, <2>8, <2>9, <2>10, <2>11, <2>12, <2>13, <2>14,
               <2>15, <2>16, <2>17 DEF Quiet
<1>4. CASE \E p \in Process : FillStep(p) \/ Admit(p) \/ Quiet(p)
    <2>1. PICK p \in Process : FillStep(p) \/ Admit(p) \/ Quiet(p)
        BY <1>4
    <2>2. ASSUME NEW q \in Process, q # p PROVE proc'[q] = proc[q] /\ LeaseHolds(q)'
        <3>1. proc'[q] = proc[q]
            BY <2>1, <2>2, OthersStay
        <3> QED BY <1>2, <3>1
    <2>3. LeaseHolds(p)' /\ (proc'[p].claim \in {0, proc[p].claim} \/ proc'[p].claim > runner.fence)
        BY <1>3, <2>1
    <2>4. \A q \in Process : proc[q].claim <= runner.fence
        BY DEF LeasesInv, LeaseHolds
    <2>5. \A q, r \in Process : proc'[q].claim # 0 /\ proc'[q].claim = proc'[r].claim => q = r
        BY <1>1, <2>2, <2>3, <2>4 DEF LeasesInv
    <2>6. \A q \in Process : LeaseHolds(q)'
        BY <2>2, <2>3
    <2> QED BY <2>5, <2>6 DEF LeasesInv
<1>5. CASE UNCHANGED vars \/ MarketMoves \/ Outside
    <2>1. UNCHANGED proc
        BY <1>5 DEF vars, runVars, MarketMoves, Outside, LeasesExpire, OperatorStops, OperatorSelects
    <2> QED BY <1>2, <2>1 DEF LeasesInv
<1> QED BY <1>4, <1>5, StepKinds

-----------------------------------------------------------------------------
(* Orders and fills.                                                         *)

LEMMA OrdersHold ==
    ASSUME RunShapes, BarsInv, OrdersInv, PlansInv, [Next]_vars
    PROVE  OrdersInv'
<1>0. /\ BarsTyped /\ MarketGrows /\ DOMAIN bars \subseteq Nat /\ Len(bars) \in Nat
      /\ IsSequence(signals) /\ IsSequence(orders) /\ IsSequence(fills)
    BY MarketHolds, TypedSequence DEF RunShapes, BarsTyped
<1>1. CASE UNCHANGED paperVars
    <2>1. UNCHANGED <<bars, signals, orders, fills>>
        BY <1>1 DEF paperVars
    <2> QED BY <2>1 DEF OrdersInv, NoFillFromKnownBar
<1>2. CASE MarketMoves
    <2>1. UNCHANGED <<signals, orders, fills>>
        BY <1>2 DEF MarketMoves, ImportBar
    <2>2. NoFillFromKnownBar'
        <3> SUFFICES ASSUME NEW f \in DOMAIN fills, NEW i, i = orders[fills[f].order].signal
                     PROVE  /\ fills[f].bar > signals[i].bar
                            /\ bars'[fills[f].bar].close > bars'[signals[i].bar].close
            BY <2>1 DEF NoFillFromKnownBar
        <3>1. fills[f].bar \in DOMAIN bars /\ signals[i].bar \in DOMAIN bars
            BY DEF OrdersInv
        <3>2. /\ fills[f].bar > signals[i].bar
              /\ bars[fills[f].bar].close > bars[signals[i].bar].close
            BY DEF OrdersInv, NoFillFromKnownBar
        <3> QED BY <1>0, <3>1, <3>2 DEF MarketGrows
    <2> QED BY <1>0, <2>1, <2>2 DEF OrdersInv, MarketGrows
<1>3. ASSUME NEW p \in Process, FillStep(p) PROVE OrdersInv'
    <2>1. PICK fill : /\ fills' = Append(fills, fill)
                      /\ fill.order \in DOMAIN orders
                      /\ fill.bar \in FillBars(fill.order)
                      /\ UNCHANGED <<bars, signals, orders>>
        BY <1>3, FillStepIs
    <2>2. /\ DOMAIN fills = 1..Len(fills) /\ Len(fills) \in Nat
          /\ DOMAIN fills' = 1..(Len(fills) + 1)
          /\ \A f \in DOMAIN fills : fills'[f] = fills[f]
          /\ fills'[Len(fills) + 1] = fill
        BY <1>0, <2>1, Appended
    <2>3. PICK o, b, i : o = fill.order /\ b = fill.bar /\ i = orders[o].signal
        OBVIOUS
    <2>4. /\ b \in DOMAIN bars /\ bars[b].symbol = orders[o].symbol
          /\ b > signals[i].cutoff
        BY <2>1, <2>3 DEF FillBars, Series
    <2>5. /\ i \in DOMAIN signals /\ orders[o].symbol = signals[i].symbol
          /\ signals[i].bar \in DOMAIN bars /\ signals[i].bar <= signals[i].cutoff
          /\ bars[signals[i].bar].symbol = signals[i].symbol
        BY <2>1, <2>3 DEF OrdersInv
    <2>6. signals[i].cutoff \in Nat
        <3>1. signals[i] \in Signal
            BY <2>5 DEF RunShapes
        <3> QED BY <3>1 DEF Signal
    <2>7. b > signals[i].bar
        BY <1>0, <2>4, <2>5, <2>6
    <2>8. bars[b].close > bars[signals[i].bar].close
        <3>1. bars[signals[i].bar].close < bars[b].close
            BY <2>4, <2>5, <2>7 DEF BarsInv
        <3>2. bars[b].close \in Nat /\ bars[signals[i].bar].close \in Nat
            <4>1. bars \in Seq(Bar)
                BY DEF RunShapes
            <4>2. bars[b] \in Bar /\ bars[signals[i].bar] \in Bar
                BY ONLY <2>4, <2>5, <4>1
            <4> QED BY ONLY <4>2 DEF Bar
        <3> QED BY <3>1, <3>2
    <2>9. NoFillFromKnownBar'
        <3> SUFFICES ASSUME NEW f \in 1..(Len(fills) + 1)
                     PROVE  LET signal == signals[orders[fills'[f].order].signal]
                            IN  /\ fills'[f].bar > signal.bar
                                /\ bars[fills'[f].bar].close > bars[signal.bar].close
            BY <2>1, <2>2 DEF NoFillFromKnownBar
        <3>1. CASE f \in DOMAIN fills
            BY <2>2, <3>1 DEF OrdersInv, NoFillFromKnownBar
        <3>2. CASE f = Len(fills) + 1
            BY <2>2, <2>3, <2>7, <2>8, <3>2
        <3>3. f \in DOMAIN fills \/ f = Len(fills) + 1
            BY ONLY <2>2
        <3> QED BY <3>1, <3>2, <3>3
    <2>10. \A f \in DOMAIN fills' : fills'[f].order \in DOMAIN orders /\ fills'[f].bar \in DOMAIN bars
        <3> SUFFICES ASSUME NEW f \in 1..(Len(fills) + 1)
                     PROVE  fills'[f].order \in DOMAIN orders /\ fills'[f].bar \in DOMAIN bars
            BY <2>2
        <3>1. CASE f \in DOMAIN fills
            BY <2>2, <3>1 DEF OrdersInv
        <3>2. CASE f = Len(fills) + 1
            BY <2>1, <2>2, <2>3, <2>4, <3>2
        <3> QED BY <2>2, <3>1, <3>2
    <2> QED BY <2>1, <2>9, <2>10 DEF OrdersInv
<1>4. ASSUME NEW p \in Process, Admit(p) PROVE OrdersInv'
    <2>0. UNCHANGED <<bars, fills>>
        BY <1>4, AdmitIs
    <2>1. CASE UNCHANGED <<signals, orders>>
        BY <2>0, <2>1 DEF OrdersInv, NoFillFromKnownBar
    <2>2. ASSUME NEW target \in Target,
                 signals' = Append(signals,
                     [bar |-> proc[p].bar, symbol |-> bars[proc[p].bar].symbol,
                      target |-> target, selection |-> selection.id, cutoff |-> Len(bars)]),
                 UNCHANGED orders \/ \E delta : PlaceOrder(bars[proc[p].bar].symbol, delta)
          PROVE  OrdersInv'
        <3>1. proc[p].bar \in DOMAIN bars
            BY <1>4 DEF Admit, PlansInv, PlanHolds
        <3> DEFINE b == proc[p].bar
                   s == bars[b].symbol
                   n == Len(signals)
        <3>2. PICK signal : /\ signals' = Append(signals, signal)
                            /\ signal.bar = b /\ signal.symbol = s /\ signal.cutoff = Len(bars)
            BY <2>2
        <3> HIDE DEF s
        <3>3. /\ DOMAIN signals = 1..n /\ n \in Nat
              /\ DOMAIN signals' = 1..(n + 1)
              /\ \A i \in DOMAIN signals : signals'[i] = signals[i]
              /\ signals'[n + 1] = signal
            BY <1>0, <3>2, Appended
        <3>4. b <= Len(bars)
            BY <3>1 DEF RunShapes
        <3>5. \A i \in DOMAIN signals' :
                 /\ signals'[i].bar \in DOMAIN bars
                 /\ signals'[i].bar <= signals'[i].cutoff
                 /\ bars[signals'[i].bar].symbol = signals'[i].symbol
            <4> SUFFICES ASSUME NEW i \in 1..(n + 1)
                         PROVE  /\ signals'[i].bar \in DOMAIN bars
                                /\ signals'[i].bar <= signals'[i].cutoff
                                /\ bars[signals'[i].bar].symbol = signals'[i].symbol
                BY <3>3
            <4>1. CASE i \in DOMAIN signals
                BY <3>3, <4>1 DEF OrdersInv
            <4>2. CASE i = n + 1
                BY <3>1, <3>2, <3>3, <3>4, <4>2 DEF s
            <4> QED BY <3>3, <4>1, <4>2
        <3>6. /\ DOMAIN orders \subseteq DOMAIN orders'
              /\ \A o \in DOMAIN orders : orders'[o] = orders[o]
              /\ \A o \in DOMAIN orders' \ DOMAIN orders :
                    orders'[o].signal = n + 1 /\ orders'[o].symbol = s
            <4>1. CASE UNCHANGED orders
                BY <4>1
            <4>2. ASSUME NEW order, orders' = Append(orders, order),
                         order.signal = n + 1, order.symbol = s
                  PROVE  /\ DOMAIN orders \subseteq DOMAIN orders'
                         /\ \A o \in DOMAIN orders : orders'[o] = orders[o]
                         /\ \A o \in DOMAIN orders' \ DOMAIN orders :
                               orders'[o].signal = n + 1 /\ orders'[o].symbol = s
                <5>1. /\ DOMAIN orders = 1..Len(orders) /\ Len(orders) \in Nat
                      /\ DOMAIN orders' = 1..(Len(orders) + 1)
                      /\ \A o \in DOMAIN orders : orders'[o] = orders[o]
                      /\ orders'[Len(orders) + 1] = order
                    BY <1>0, <4>2, Appended
                <5>2. \A o \in DOMAIN orders' \ DOMAIN orders : o = Len(orders) + 1
                    BY <5>1
                <5> QED BY <4>2, <5>1, <5>2
            <4>3. ASSUME NEW delta, PlaceOrder(s, delta)
                  PROVE  \E order : orders' = Append(orders, order) /\ order.signal = n + 1 /\ order.symbol = s
                BY <4>3 DEF PlaceOrder
            <4>4. UNCHANGED orders \/ \E delta : PlaceOrder(s, delta)
                BY <2>2 DEF s
            <4> QED BY <4>1, <4>2, <4>3, <4>4
        <3>7. \A o \in DOMAIN orders' :
                 /\ orders'[o].signal \in DOMAIN signals'
                 /\ orders'[o].symbol = signals'[orders'[o].signal].symbol
            <4> SUFFICES ASSUME NEW o \in DOMAIN orders'
                         PROVE  /\ orders'[o].signal \in DOMAIN signals'
                                /\ orders'[o].symbol = signals'[orders'[o].signal].symbol
                OBVIOUS
            <4>1. CASE o \in DOMAIN orders
                <5>1. orders[o].signal \in DOMAIN signals /\ orders[o].symbol = signals[orders[o].signal].symbol
                    BY <4>1 DEF OrdersInv
                <5>2. orders[o].signal \in 1..n
                    BY <3>3, <5>1
                <5> QED BY <3>3, <3>6, <4>1, <5>1, <5>2
            <4>2. CASE o \notin DOMAIN orders
                BY <3>2, <3>3, <3>6, <4>2
            <4> QED BY <4>1, <4>2
        <3>8. NoFillFromKnownBar'
            <4> SUFFICES ASSUME NEW f \in DOMAIN fills
                         PROVE  LET signal2 == signals'[orders'[fills[f].order].signal]
                                IN  /\ fills[f].bar > signal2.bar
                                    /\ bars[fills[f].bar].close > bars[signal2.bar].close
                BY <2>0 DEF NoFillFromKnownBar
            <4>1. fills[f].order \in DOMAIN orders /\ orders[fills[f].order].signal \in DOMAIN signals
                BY DEF OrdersInv
            <4>2. signals'[orders'[fills[f].order].signal] = signals[orders[fills[f].order].signal]
                BY <3>3, <3>6, <4>1
            <4> QED BY <4>2 DEF OrdersInv, NoFillFromKnownBar
        <3>9. \A f \in DOMAIN fills : fills[f].order \in DOMAIN orders' /\ fills[f].bar \in DOMAIN bars
            BY <3>6 DEF OrdersInv
        <3> QED BY <2>0, <3>5, <3>7, <3>8, <3>9 DEF OrdersInv
    <2> QED BY <1>4, <2>1, <2>2, AdmitIs
<1> QED BY <1>1, <1>2, <1>3, <1>4, StepKinds, QuietKeeps, OutsideKeeps DEF vars

-----------------------------------------------------------------------------
(* Valuations and policy.                                                    *)

\* A process that passes the check of the runner lease is the one that may
\* write, and there is no other.
LEMMA HolderIsLive ==
    ASSUME LeasesInv, NEW p \in Process, HoldsClaim(p),
           proc[p].pc \notin {"idle", "acquire", "halt", "release"}
    PROVE  /\ Live(p)
           /\ \A q \in Process : Live(q) => q = p
<1>1. proc[p].claim # 0 /\ proc[p].claim = runner.fence /\ runner.selection = proc[p].selection
    BY DEF LeasesInv, LeaseHolds, HoldsClaim
<1>2. Live(p)
    BY <1>1 DEF Live, HoldsClaim
<1> QED BY <1>1, <1>2 DEF Live, LeasesInv

\* The close a process works on is the first of its plan.
LEMMA FirstClose ==
    ASSUME RunShapes, NEW p \in Process, proc[p].closes # {}
    PROVE  AsOf(p) \in proc[p].closes /\ \A k \in proc[p].closes : AsOf(p) <= k
<1>1. proc[p].closes \subseteq Nat
    BY DEF RunShapes, Proc
<1> QED BY <1>1, MinOf DEF AsOf

LEMMA DecideIs ==
    ASSUME RunShapes, LeasesInv, PointsInv, PlansInv, NEW p \in Process, Decide(p)
    PROVE  \E d \in {"INSUFFICIENT", "HOLD", "HALT_AND_ROLLBACK"} :
              /\ Live(p) /\ \A q \in Process : Live(q) => q = p
              /\ Len(points) \in DOMAIN points
              /\ Newest.asOf = AsOf(p) /\ Newest.selection = selection.id
              /\ points' = [points EXCEPT ![Len(points)].decision = d]
              /\ UNCHANGED <<bars, signals, orders, runner>>
              /\ IF d = "HALT_AND_ROLLBACK"
                 THEN (\E s \in Symbol, e \in Event : Select(s, e)) /\ Goto(p, "halt")
                 ELSE /\ UNCHANGED selection
                      /\ proc' = [proc EXCEPT ![p].closes = LaterCloses(p),
                                              ![p].pc = IF LaterCloses(p) = {} THEN "admit" ELSE "close"]
<1>0. PointShapes /\ proc[p].pc = "decide" /\ HoldsClaim(p)
    BY DEF RunShapes, PointShapes, Decide
<1>1. Live(p) /\ \A q \in Process : Live(q) => q = p
    BY <1>0, HolderIsLive
<1>2. /\ points # <<>> /\ Newest.asOf \in proc[p].closes
      /\ \A k \in proc[p].closes : Newest.asOf <= k
    BY <1>0, <1>1 DEF PlansInv, PlanHolds, Working, PlanFits
<1> DEFINE n == Len(points)
           i == Max(PointsAt(AsOf(p)))
<1>3. DOMAIN points = 1..n /\ n \in Nat /\ n \in DOMAIN points
    BY <1>0, <1>2, PointsIndexed
<1>4. Newest.asOf = AsOf(p)
    <2>1. proc[p].closes \subseteq Nat
        BY DEF RunShapes, Proc
    <2>2. AsOf(p) \in proc[p].closes /\ AsOf(p) <= Newest.asOf
        BY <1>2, FirstClose
    <2> QED BY <1>2, <2>1, <2>2
<1>5. PointsAt(AsOf(p)) = {n}
    <2>1. ASSUME NEW j \in DOMAIN points, points[j].asOf = AsOf(p) PROVE j = n
        <3>1. j < n => points[j].asOf < points[n].asOf
            BY <1>3 DEF PointsInv
        <3>2. points[n].asOf \in Nat /\ points[j].asOf = points[n].asOf
            BY <1>0, <1>3, <1>4, <2>1 DEF Newest, PointShapes, IsPoint
        <3> QED BY <1>3, <3>1, <3>2
    <2>2. points[n].asOf = AsOf(p)
        BY <1>4 DEF Newest
    <2> QED BY <1>3, <2>1, <2>2 DEF PointsAt
<1>6. i = n
    <2>1. n >= n
        BY <1>3
    <2> QED BY <1>5, <2>1 DEF Max
<1>7. Newest.selection = selection.id
    <2>1. n \in Window(n)
        BY <1>6 DEF Decide
    <2> QED BY <2>1 DEF Window, Newest
<1>8. PICK d \in {"INSUFFICIENT", "HOLD", "HALT_AND_ROLLBACK"} : d = DecisionFor(n)
    BY DEF DecisionFor
<1>9. /\ points' = [points EXCEPT ![n].decision = d]
      /\ UNCHANGED <<bars, signals, orders, runner>>
      /\ IF d = "HALT_AND_ROLLBACK"
         THEN (\E s \in Symbol, e \in Event : Select(s, e)) /\ Goto(p, "halt")
         ELSE /\ UNCHANGED selection
              /\ proc' = [proc EXCEPT ![p].closes = LaterCloses(p),
                                      ![p].pc = IF LaterCloses(p) = {} THEN "admit" ELSE "close"]
    BY <1>6, <1>8 DEF Decide, paperVars, Event
<1> QED BY <1>1, <1>3, <1>4, <1>7, <1>9

\* A new valuation is behind a decided one.
LEMMA ValueFollows ==
    ASSUME RunShapes, LeasesInv, PointsInv, PlansInv, NEW p \in Process, Value(p)
    PROVE  /\ Live(p) /\ \A q \in Process : Live(q) => q = p
           /\ PlanFits(p)
           /\ AsOf(p) \in proc[p].closes /\ \A k \in proc[p].closes : AsOf(p) <= k
           /\ points # <<>> /\ Newest.asOf < AsOf(p) => Newest.decision # "none"
<1>1. HoldsClaim(p) /\ proc[p].pc = "value"
    BY DEF Value
<1>2. Live(p) /\ \A q \in Process : Live(q) => q = p
    BY <1>1, HolderIsLive
<1>3. PlanFits(p)
    BY <1>1, <1>2 DEF PlansInv, PlanHolds, Working
<1>4. AsOf(p) \in proc[p].closes /\ \A k \in proc[p].closes : AsOf(p) <= k
    BY <1>3, FirstClose DEF PlanFits
<1>5. ASSUME points # <<>>, Newest.asOf < AsOf(p), Newest.decision = "none" PROVE FALSE
    <2>1. AsOf(p) <= Newest.asOf
        BY <1>3, <1>4, <1>5 DEF PlanFits
    <2>2. proc[p].closes \subseteq Nat
        BY DEF RunShapes, Proc
    <2>3. AsOf(p) \in Nat /\ Newest.asOf \in Nat
        BY <1>3, <1>4, <1>5, <2>2 DEF PlanFits
    <2> QED BY <1>5, <2>1, <2>3
<1> QED BY <1>2, <1>3, <1>4, <1>5

LEMMA PointsKept ==
    ASSUME [Next]_vars
    PROVE  UNCHANGED points \/ \E p \in Process : Value(p) \/ Decide(p)
<1>1. ASSUME NEW p \in Process, Quiet(p), ~Value(p), ~Decide(p) PROVE UNCHANGED points
    BY <1>1 DEF Quiet, Acquire, Prepare, StartExecution, Plan, BeginClose, NextOrder,
                HaltOwned, Release, Refresh, Finish, Fail, Kill, Begin, NextFrame
<1>2. UNCHANGED vars \/ Outside \/ MarketMoves => UNCHANGED points
    BY DEF Outside, LeasesExpire, OperatorStops, OperatorSelects, MarketMoves, runVars, vars
<1>3. ASSUME NEW p \in Process, FillStep(p) \/ Admit(p) PROVE UNCHANGED points
    BY <1>3 DEF FillStep, Admit, runVars
<1> QED BY <1>1, <1>2, <1>3, StepKinds

LEMMA PointsHold ==
    ASSUME RunShapes, BarsInv, LeasesInv, PointsInv, PlansInv, [Next]_vars
    PROVE  PointsInv'
<1>0. /\ BarsTyped /\ MarketGrows /\ PointShapes /\ PointShapes'
      /\ selection.id \in Nat /\ selection'.id \in Nat /\ selection.id <= selection'.id
    BY MarketHolds, PointsShaped, RunnerMoves DEF RunShapes, BarsTyped, PointShapes
<1>1. /\ DOMAIN points = 1..Len(points) /\ Len(points) \in Nat
      /\ \A i \in DOMAIN points : points[i].asOf \in Nat /\ points[i].selection \in Nat
    BY <1>0, PointsIndexed DEF PointShapes, IsPoint
<1>2. CASE UNCHANGED points
    BY <1>0, <1>1, <1>2 DEF PointsInv, MarketGrows
<1>3. ASSUME NEW p \in Process, Value(p), ~UNCHANGED points PROVE PointsInv'
    <2>1. PICK point : /\ points' = Append(points, point)
                       /\ point = [asOf |-> AsOf(p), cutoff |-> point.cutoff, equity |-> point.equity,
                                   selection |-> selection.id, decision |-> "none"]
        BY <1>3, ValueIs
    <2>2. AsOf(p) \in StoredCloses /\ (points # <<>> => Newest.asOf < AsOf(p) /\ Newest.decision # "none")
        BY <1>3, ValueIs, ValueFollows
    <2>3. point.asOf = AsOf(p) /\ point.selection = selection.id /\ point.decision = "none"
        BY <2>1
    <2>4. /\ DOMAIN points' = 1..(Len(points) + 1)
          /\ \A i \in DOMAIN points : points'[i] = points[i]
          /\ points'[Len(points) + 1] = point
        BY <1>0, <2>1, Appended DEF PointShapes
    <2>5. AsOf(p) \in Nat /\ UNCHANGED selection
        BY <1>0, <1>3, <2>2, ClosesBounded DEF Value
    <2>6. ASSUME NEW i \in DOMAIN points PROVE points[i].asOf < AsOf(p) /\ points[i].decision # "none"
        <3>1. points # <<>> /\ Len(points) \in DOMAIN points
            BY <1>0, <1>1, PointsIndexed
        <3>2. CASE i = Len(points)
            BY <2>2, <3>1, <3>2 DEF Newest
        <3>3. CASE i < Len(points)
            BY <1>1, <2>2, <2>5, <3>1, <3>3 DEF Newest, PointsInv
        <3> QED BY <1>1, <3>2, <3>3
    <2>7. ASSUME NEW i \in 1..(Len(points) + 1), NEW j \in 1..(Len(points) + 1), i < j
          PROVE  points'[i].asOf < points'[j].asOf /\ points'[i].decision # "none"
        <3>1. i \in DOMAIN points
            BY <1>1, <2>7
        <3>2. CASE j \in DOMAIN points
            BY <2>4, <2>7, <3>1, <3>2 DEF PointsInv
        <3>3. CASE j = Len(points) + 1
            BY <2>3, <2>4, <2>6, <3>1, <3>3
        <3> QED BY <1>1, <3>2, <3>3
    <2>8. ASSUME NEW i \in 1..(Len(points) + 1)
          PROVE  /\ points'[i].asOf \in StoredCloses'
                 /\ points'[i].selection <= selection'.id
                 /\ points'[i].decision = "HALT_AND_ROLLBACK" => points'[i].selection < selection'.id
        <3>1. CASE i \in DOMAIN points
            BY <1>0, <2>4, <2>5, <3>1 DEF PointsInv, MarketGrows
        <3>2. CASE i = Len(points) + 1
            BY <1>0, <2>2, <2>3, <2>4, <2>5, <3>2 DEF MarketGrows
        <3> QED BY <1>1, <3>1, <3>2
    <2> QED BY <2>4, <2>7, <2>8 DEF PointsInv
<1>4. ASSUME NEW p \in Process, Decide(p) PROVE PointsInv'
    <2>1. PICK d \in {"INSUFFICIENT", "HOLD", "HALT_AND_ROLLBACK"} :
              /\ Len(points) \in DOMAIN points
              /\ Newest.selection = selection.id
              /\ points' = [points EXCEPT ![Len(points)].decision = d]
              /\ d = "HALT_AND_ROLLBACK" => \E s \in Symbol, e \in Event : Select(s, e)
        BY <1>4, DecideIs
    <2>2. /\ DOMAIN points' = DOMAIN points
          /\ \A j \in DOMAIN points :
                 /\ points'[j].asOf = points[j].asOf
                 /\ points'[j].selection = points[j].selection
                 /\ points'[j].decision = IF j = Len(points) THEN d ELSE points[j].decision
        BY <1>0, <2>1, Decided
    <2>3. d = "HALT_AND_ROLLBACK" => selection.id < selection'.id
        BY <1>0, <2>1 DEF Select
    <2>4. points[Len(points)].selection = selection.id
        BY <2>1 DEF Newest
    <2>5. ASSUME NEW i \in DOMAIN points, NEW j \in DOMAIN points, i < j
          PROVE  points'[i].asOf < points'[j].asOf /\ points'[i].decision # "none"
        <3>1. points[i].asOf < points[j].asOf /\ points[i].decision # "none"
            BY <2>5 DEF PointsInv
        <3> QED BY <2>2, <3>1
    <2>6. ASSUME NEW i \in DOMAIN points
          PROVE  /\ points'[i].asOf \in StoredCloses'
                 /\ points'[i].selection <= selection'.id
                 /\ points'[i].decision = "HALT_AND_ROLLBACK" => points'[i].selection < selection'.id
        <3>1. /\ points[i].asOf \in StoredCloses /\ points[i].selection <= selection.id
              /\ points[i].decision = "HALT_AND_ROLLBACK" => points[i].selection < selection.id
            BY DEF PointsInv
        <3>2. points'[i].asOf \in StoredCloses' /\ points'[i].selection <= selection'.id
            BY <1>0, <1>1, <2>2, <3>1 DEF MarketGrows
        <3>3. CASE i = Len(points)
            BY <2>2, <2>3, <2>4, <3>2, <3>3
        <3>4. CASE i # Len(points)
            BY <1>0, <1>1, <2>2, <3>1, <3>2, <3>4
        <3> QED BY <3>2, <3>3, <3>4
    <2> QED BY <2>2, <2>5, <2>6 DEF PointsInv
<1> QED BY <1>2, <1>3, <1>4, PointsKept

-----------------------------------------------------------------------------
(* Plans.                                                                    *)

\* The step leaves the run of q at the same place of the same plan.
SamePlan(q) ==
    /\ proc'[q].pc = proc[q].pc /\ proc'[q].bar = proc[q].bar
    /\ proc'[q].claim = proc[q].claim /\ proc'[q].selection = proc[q].selection
    /\ proc'[q].closes = proc[q].closes /\ proc'[q].todo = proc[q].todo

\* A claim that is overtaken does not come back, nor does a selection.
LEMMA LiveBefore ==
    ASSUME RunShapes, LeasesInv, [Next]_vars, NEW q \in Process,
           proc'[q].claim = proc[q].claim, proc'[q].selection = proc[q].selection, Live(q)'
    PROVE  Live(q) /\ UNCHANGED selection
<1>1. LeaseHolds(q) /\ runner.fence \in Nat /\ selection.id \in Nat
      /\ proc[q].claim \in Nat /\ proc[q].selection \in Nat
    BY DEF RunShapes, LeasesInv, Proc
<1>2. /\ proc[q].claim # 0 /\ proc[q].claim = runner'.fence
      /\ proc[q].selection = selection'.id
    BY DEF Live
<1>3. runner'.fence = runner.fence \/ runner'.fence = runner.fence + 1
    BY RunnerMoves
<1>4. proc[q].claim = runner.fence
    BY <1>1, <1>2, <1>3 DEF LeaseHolds
<1>5. ASSUME NEW s \in Symbol, NEW e \in Event, Select(s, e) PROVE FALSE
    BY <1>1, <1>2, <1>5 DEF Select, LeaseHolds
<1>6. UNCHANGED selection
    BY <1>5, SelectionMoves
<1> QED BY <1>2, <1>4, <1>6 DEF Live

\* What a run writes about its plan moves it on.
LEMMA WriterMoves ==
    ASSUME RunShapes, LeasesInv, NEW p \in Process, Value(p) \/ Decide(p) \/ Admit(p)
    PROVE  /\ proc'[p].pc # proc[p].pc
           /\ Live(p) /\ \A q \in Process : Live(q) => q = p
<1>1. proc \in [Process -> Proc]
    BY DEF RunShapes
<1>2. HoldsClaim(p) /\ proc[p].pc \in {"value", "decide", "admit"}
    BY DEF Value, Decide, Admit
<1>3. Live(p) /\ \A q \in Process : Live(q) => q = p
    BY <1>2, HolderIsLive
<1>4. ASSUME NEW c, Goto(p, c) PROVE proc'[p].pc = c
    BY <1>1, <1>4 DEF Goto, Proc
<1>5. CASE Value(p)
    <2>1. Goto(p, "decide") /\ proc[p].pc = "value"
        BY <1>5 DEF Value
    <2> QED BY <1>3, <1>4, <2>1
<1>6. CASE Admit(p)
    <2>1. Goto(p, "wait") /\ proc[p].pc = "admit"
        BY <1>6 DEF Admit
    <2> QED BY <1>3, <1>4, <2>1
<1>7. CASE Decide(p)
    <2>1. proc[p].pc = "decide"
        BY <1>7 DEF Decide
    <2>2. CASE Goto(p, "halt")
        BY <1>3, <1>4, <2>1, <2>2
    <2>3. ASSUME NEW c \in {"admit", "close"}, NEW rest,
                 proc' = [proc EXCEPT ![p].closes = rest, ![p].pc = c]
          PROVE  proc'[p].pc # proc[p].pc
        <3>1. proc'[p].pc = c
            BY <1>1, <2>3 DEF Proc
        <3> QED BY <2>1, <3>1
    <2>4. Goto(p, "halt") \/ \E c \in {"admit", "close"} :
             proc' = [proc EXCEPT ![p].closes = LaterCloses(p), ![p].pc = c]
        BY <1>7 DEF Decide
    <2> QED BY <1>3, <2>2, <2>3, <2>4
<1> QED BY <1>5, <1>6, <1>7

LEMMA SignalsKept ==
    ASSUME [Next]_vars
    PROVE  UNCHANGED signals \/ \E p \in Process : Admit(p)
<1>1. UNCHANGED paperVars \/ MarketMoves \/ UNCHANGED vars => UNCHANGED signals
    BY DEF paperVars, vars, MarketMoves, ImportBar
<1>2. ASSUME NEW p \in Process, FillStep(p) PROVE UNCHANGED signals
    BY <1>2 DEF FillStep, FillOrder
<1> QED BY <1>1, <1>2, StepKinds, QuietKeeps, OutsideKeeps

LEMMA OrdersGrow ==
    ASSUME RunShapes, [Next]_vars
    PROVE  DOMAIN orders \subseteq DOMAIN orders'
<1>1. UNCHANGED paperVars \/ MarketMoves \/ UNCHANGED vars => UNCHANGED orders
    BY DEF paperVars, vars, MarketMoves, ImportBar
<1>2. ASSUME NEW p \in Process, FillStep(p) PROVE UNCHANGED orders
    BY <1>2 DEF FillStep, FillOrder
<1>3. ASSUME NEW p \in Process, Admit(p) PROVE DOMAIN orders \subseteq DOMAIN orders'
    <2>1. UNCHANGED orders \/ \E order : orders' = Append(orders, order)
        BY <1>3, AdmitIs DEF PlaceOrder
    <2>2. ASSUME NEW order, orders' = Append(orders, order)
          PROVE  DOMAIN orders \subseteq DOMAIN orders'
        <3>1. IsSequence(orders)
            BY DEF RunShapes
        <3>2. DOMAIN orders = 1..Len(orders) /\ Len(orders) \in Nat
              /\ DOMAIN orders' = 1..(Len(orders) + 1)
            BY <2>2, <3>1, Appended
        <3> QED BY <3>2
    <2> QED BY <2>1, <2>2
<1> QED BY <1>1, <1>2, <1>3, StepKinds, QuietKeeps, OutsideKeeps

\* A close that is stored later is behind every plan.
LEMMA PlanStays ==
    ASSUME RunShapes, BarsInv, StoredCloses' \subseteq Nat, MarketGrows, NEW q \in Process,
           proc[q].bar \in DOMAIN bars,
           UNCHANGED <<points, signals, selection>>,
           proc'[q].closes = proc[q].closes, proc'[q].bar = proc[q].bar,
           proc'[q].selection = proc[q].selection
    PROVE  /\ PlanFits(q) => PlanFits(q)'
           /\ EndsAtBar(q) => EndsAtBar(q)'
           /\ BarDecided(q) => BarDecided(q)'
<1>1. bars'[proc[q].bar] = bars[proc[q].bar]
    BY DEF MarketGrows
<1>2. Committed(q)' <=> Committed(q)
    BY DEF Committed
<1>3. EndsAtBar(q) => EndsAtBar(q)'
    BY <1>1, <1>2 DEF EndsAtBar
<1>4. BarDecided(q) => BarDecided(q)'
    BY <1>1, <1>2 DEF BarDecided
<1>5. ASSUME PlanFits(q) PROVE PlanFits(q)'
    <2>1. Newest' = Newest
        BY DEF Newest
    <2>2. proc[q].closes # {} /\ proc[q].closes \subseteq StoredCloses
        BY <1>5 DEF PlanFits
    <2>3. StoredCloses \subseteq Nat
        BY ClosesBounded DEF RunShapes, BarsTyped
    <2>4. ASSUME NEW k \in StoredCloses', NEW j \in proc[q].closes, points # <<>>,
                 Newest.asOf < k, k <= j, k >= selection.since
          PROVE  k \in proc[q].closes
        <3>1. k \in StoredCloses
            <4> SUFFICES ASSUME k \notin StoredCloses PROVE FALSE
                OBVIOUS
            <4>1. j < k
                BY <2>2 DEF MarketGrows
            <4>2. j \in Nat /\ k \in Nat
                BY <2>2, <2>3
            <4> QED BY <2>4, <4>1, <4>2
        <3> QED BY <1>5, <2>4, <3>1 DEF PlanFits
    <2> QED BY <1>5, <2>1, <2>2, <2>4 DEF PlanFits, MarketGrows
<1> QED BY <1>3, <1>4, <1>5

\* localPaperPolicyCloses
LEMMA ClosesOfIs ==
    ASSUME RunShapes, BarsInv, PointsInv, NEW p \in Process, Plan(p),
           proc[p].bar \in DOMAIN bars
    PROVE  LET closes == ClosesOf(p)
           IN  /\ closes # {} /\ closes \subseteq StoredCloses
               /\ points = <<>> => \A j, k \in closes : j = k
               /\ points # <<>> =>
                     /\ \A k \in closes : Newest.asOf <= k
                     /\ Newest.decision = "none" => Newest.asOf \in closes
                     /\ \A k \in StoredCloses, j \in closes :
                           Newest.asOf < k /\ k <= j /\ k >= selection.since => k \in closes
               /\ ~Committed(p) =>
                     /\ bars[proc[p].bar].close \in closes
                     /\ \A k \in closes : k <= bars[proc[p].bar].close
<1> DEFINE closes == ClosesOf(p)
           last == LastCloseOf(p)
<1>1. StoredCloses \subseteq Nat /\ selection.since \in Nat
    BY ClosesBounded DEF RunShapes, BarsTyped
<1>2. last \in closes
    BY DEF Plan
<1>3. closes \subseteq StoredCloses /\ (\A k \in closes : k <= last)
    BY DEF ClosesOf
<1>4. ASSUME points = <<>> PROVE \A k \in closes : k = last
    <2>1. \A k \in closes : k <= last /\ (k > last \/ k = last)
        BY <1>4 DEF ClosesOf
    <2>2. ASSUME NEW k \in closes PROVE k = last
        <3> HIDE DEF closes, last
        <3>1. k \in Nat /\ last \in Nat
            BY <1>1, <1>2, <1>3
        <3>2. k <= last /\ (k > last \/ k = last)
            BY <2>1
        <3> QED BY ONLY <3>1, <3>2
    <2> QED BY <2>2
<1>5. ASSUME points # <<>>
      PROVE  /\ \A k \in closes : Newest.asOf <= k
             /\ Newest.decision = "none" => Newest.asOf \in closes
             /\ \A k \in StoredCloses, j \in closes :
                   Newest.asOf < k /\ k <= j /\ k >= selection.since => k \in closes
    <2>1. Newest.asOf \in StoredCloses
        <3>1. Len(points) \in DOMAIN points
            BY <1>5, PointsIndexed DEF RunShapes, PointShapes
        <3> QED BY <3>1 DEF PointsInv, Newest
    <2>2. \A k \in closes : k > Newest.asOf \/ k = Newest.asOf
        BY <1>5 DEF ClosesOf
    <2>3. ASSUME NEW k \in closes PROVE Newest.asOf <= k
        <3> HIDE DEF closes
        <3>1. k \in Nat /\ Newest.asOf \in Nat
            BY <1>1, <1>3, <2>1
        <3>2. k > Newest.asOf \/ k = Newest.asOf
            BY <2>2
        <3> QED BY ONLY <3>1, <3>2
    <2>4. Newest.decision = "none" => Newest.asOf \in closes
        <3>1. Newest.asOf <= last
            BY <1>2, <2>3
        <3> QED BY <1>5, <2>1, <3>1 DEF ClosesOf
    <2>5. ASSUME NEW k \in StoredCloses, NEW j \in closes,
                 Newest.asOf < k, k <= j, k >= selection.since
          PROVE  k \in closes
        <3>1. k <= last
            <4>1. j <= last /\ j \in Nat /\ last \in Nat /\ k \in Nat
                BY <1>1, <1>2, <1>3
            <4> QED BY <2>5, <4>1
        <3>2. k > Newest.asOf
            BY <1>1, <2>1, <2>5
        <3> QED BY <1>5, <2>5, <3>1, <3>2 DEF ClosesOf
    <2> QED BY <2>3, <2>4, <2>5
<1>6. ~Committed(p) => last = bars[proc[p].bar].close
    BY Committed_ DEF LastCloseOf
<1> HIDE DEF closes, last
<1>7. points = <<>> => \A j, k \in closes : j = k
    BY <1>4
<1>8. ~Committed(p) => /\ bars[proc[p].bar].close \in closes
                       /\ \A k \in closes : k <= bars[proc[p].bar].close
    BY <1>2, <1>3, <1>6
<1> QED BY <1>2, <1>3, <1>5, <1>7, <1>8 DEF closes

LEMMA StoredTyped ==
    ASSUME RunShapes, BarsInv, [Next]_vars
    PROVE  StoredCloses \subseteq Nat /\ StoredCloses' \subseteq Nat
<1>1. BarsTyped
    BY DEF RunShapes, BarsTyped
<1>2. StoredCloses \subseteq Nat
    BY <1>1, ClosesBounded
<1>3. BarsTyped' /\ BarsInv'
    BY <1>1, MarketHolds
<1>4. \A b \in DOMAIN bars' : bars'[b].close \in Nat
    <2>1. MaxBars \in Nat
        BY PaperAssumption
    <2> QED BY <1>3, <2>1 DEF BarsInv
<1> QED BY <1>2, <1>4 DEF StoredCloses

\* A run the step leaves where it was.
LEMMA PlanKept ==
    ASSUME RunShapes, BarsInv, LeasesInv, PointsInv, PlansInv, [Next]_vars,
           NEW q \in Process, SamePlan(q)
    PROVE  PlanHolds(q)'
<1>0. MarketGrows /\ PlanHolds(q) /\ StoredCloses' \subseteq Nat
    BY MarketHolds, StoredTyped DEF RunShapes, BarsTyped, PlansInv
<1>1. proc'[q].pc # "idle" => proc'[q].bar \in DOMAIN bars'
    BY <1>0 DEF SamePlan, PlanHolds, MarketGrows
<1>2. proc'[q].pc = "fill" => proc'[q].todo \subseteq DOMAIN orders'
    BY <1>0, OrdersGrow DEF SamePlan, PlanHolds
<1>3. ASSUME Live(q)', proc[q].pc # "idle"
      PROVE  /\ proc'[q].pc \in Working => PlanFits(q)' /\ EndsAtBar(q)'
             /\ proc'[q].pc = "decide" => points' # <<>> /\ Newest'.asOf \in proc'[q].closes
             /\ proc'[q].pc = "admit" => BarDecided(q)'
    <2>1. Live(q) /\ UNCHANGED selection
        BY <1>3, LiveBefore DEF SamePlan
    <2>2. ASSUME NEW p \in Process, Value(p) \/ Decide(p) \/ Admit(p) PROVE FALSE
        <3>1. proc'[p].pc # proc[p].pc /\ p = q
            BY <2>1, <2>2, WriterMoves
        <3> QED BY <3>1 DEF SamePlan
    <2>3. UNCHANGED <<points, signals>>
        BY <2>2, PointsKept, SignalsKept
    <2>4. /\ PlanFits(q) => PlanFits(q)'
          /\ EndsAtBar(q) => EndsAtBar(q)'
          /\ BarDecided(q) => BarDecided(q)'
        <3>1. proc[q].bar \in DOMAIN bars
            BY <1>0, <1>3 DEF PlanHolds
        <3> QED BY <1>0, <2>1, <2>3, <3>1, PlanStays DEF SamePlan
    <2>5. Newest' = Newest
        BY <2>3 DEF Newest
    <2> QED BY <1>0, <2>1, <2>3, <2>4, <2>5 DEF PlanHolds, SamePlan
<1>4. proc[q].pc = "idle" => PlanHolds(q)'
    BY DEF SamePlan, PlanHolds, Working
<1>5. proc[q].pc # "idle" => PlanHolds(q)'
    BY <1>1, <1>2, <1>3 DEF PlanHolds
<1> QED BY <1>4, <1>5

\* A run that has no plan yet, or none any more.
LEMMA NoPlanYet ==
    ASSUME NEW q \in Process,
           proc'[q].pc \in {"idle", "acquire", "prepare", "start", "plan", "wait", "halt", "release"},
           proc'[q].pc # "idle" => proc'[q].bar \in DOMAIN bars'
    PROVE  PlanHolds(q)'
BY DEF PlanHolds, Working

\* A valuation is written for the first close of the plan.
LEMMA ValueKeepsPlan ==
    ASSUME RunShapes, BarsInv, LeasesInv, PointsInv, PlansInv, [Next]_vars,
           NEW p \in Process, Value(p)
    PROVE  PlanHolds(p)'
<1>0. /\ PlanHolds(p) /\ proc[p].pc = "value" /\ PointShapes
      /\ proc \in [Process -> Proc] /\ proc[p].closes \subseteq Nat
      /\ UNCHANGED <<bars, signals, selection, runner>>
    BY DEF Value, PlansInv, RunShapes, PointShapes, Proc, paperVars
<1>1. /\ Live(p) /\ PlanFits(p)
      /\ AsOf(p) \in proc[p].closes /\ \A k \in proc[p].closes : AsOf(p) <= k
    BY ValueFollows
<1>2. proc[p].bar \in DOMAIN bars /\ EndsAtBar(p)
    BY <1>0, <1>1 DEF PlanHolds, Working
<1>3. /\ proc'[p].pc = "decide" /\ proc'[p].bar = proc[p].bar
      /\ proc'[p].selection = proc[p].selection /\ proc'[p].closes = proc[p].closes
    <2>1. Goto(p, "decide")
        BY DEF Value
    <2> QED BY <1>0, <2>1 DEF Goto, Proc
<1>4. EndsAtBar(p)' /\ UNCHANGED StoredCloses
    BY <1>0, <1>2, <1>3 DEF EndsAtBar, Committed, StoredCloses
<1>5. PlanFits(p)' /\ points' # <<>> /\ Newest'.asOf \in proc[p].closes
    <2>1. ASSUME NEW i \in DOMAIN points, points[i].asOf = AsOf(p), UNCHANGED points
          PROVE  PlanFits(p)' /\ points' # <<>> /\ Newest'.asOf \in proc[p].closes
        <3>1. /\ DOMAIN points = 1..Len(points) /\ Len(points) \in Nat
              /\ points # <<>> /\ Len(points) \in DOMAIN points
            BY <1>0, PointsIndexed
        <3>2. points[i].asOf <= Newest.asOf /\ Newest.asOf \in Nat /\ points[i].asOf \in Nat
            <4>1. Newest.asOf \in Nat /\ points[i].asOf \in Nat
                BY <1>0, <3>1 DEF Newest, PointShapes, IsPoint
            <4>2. CASE i = Len(points)
                BY <4>1, <4>2 DEF Newest
            <4>3. CASE i < Len(points)
                BY <3>1, <4>1, <4>3 DEF PointsInv, Newest
            <4> QED BY <3>1, <4>1, <4>2, <4>3
        <3>3. Newest.asOf <= AsOf(p)
            BY <1>1, <3>1 DEF PlanFits
        <3>4. Newest.asOf = AsOf(p)
            BY <2>1, <3>2, <3>3
        <3>5. Newest' = Newest
            BY <2>1 DEF Newest
        <3>6. PlanFits(p)'
            BY <1>0, <1>1, <1>3, <1>4, <2>1, <3>5 DEF PlanFits
        <3> QED BY <1>1, <2>1, <3>1, <3>4, <3>5, <3>6
    <2>2. ASSUME NEW point, points' = Append(points, point), points # <<>> => Newest.asOf < AsOf(p),
                 point = [asOf |-> AsOf(p), cutoff |-> point.cutoff, equity |-> point.equity,
                          selection |-> selection.id, decision |-> "none"]
          PROVE  PlanFits(p)' /\ points' # <<>> /\ Newest'.asOf \in proc[p].closes
        <3>1. /\ Len(points') = Len(points) + 1 /\ Len(points) + 1 \in DOMAIN points'
              /\ points'[Len(points) + 1] = point
            BY <1>0, <2>2, Appended DEF PointShapes
        <3>2. points' # <<>> /\ Newest'.asOf = AsOf(p)
            <4>1. point.asOf = AsOf(p)
                BY <2>2
            <4>2. Newest' = point
                BY <3>1 DEF Newest
            <4> QED BY <3>1, <4>1, <4>2
        <3>3. ASSUME NEW k \in StoredCloses, NEW j \in proc[p].closes,
                     AsOf(p) < k, k <= j, k >= selection.since
              PROVE  k \in proc[p].closes
            <4>1. k \in Nat /\ j \in Nat /\ AsOf(p) \in Nat
                BY <1>0, <1>1, StoredTyped
            <4>2. CASE points = <<>>
                <5>1. j = AsOf(p)
                    BY <1>1, <4>2 DEF PlanFits
                <5> QED BY <3>3, <4>1, <5>1
            <4>3. CASE points # <<>>
                <5>1. Newest.asOf \in Nat
                    BY <1>0, <4>3, PointsIndexed DEF PointShapes, IsPoint, Newest
                <5>2. Newest.asOf < k
                    BY <2>2, <3>3, <4>1, <4>3, <5>1
                <5> QED BY <1>1, <3>3, <4>3, <5>2 DEF PlanFits
            <4> QED BY <4>2, <4>3
        <3>4. proc[p].closes # {} /\ proc[p].closes \subseteq StoredCloses
            BY <1>1 DEF PlanFits
        <3> QED BY <1>0, <1>1, <1>3, <1>4, <3>2, <3>3, <3>4 DEF PlanFits
    <2> QED BY <2>1, <2>2, ValueIs
<1> QED BY <1>0, <1>2, <1>3, <1>4, <1>5 DEF PlanHolds, Working

\* A decision takes the first close off the plan.
LEMMA DecideKeepsPlan ==
    ASSUME RunShapes, BarsInv, LeasesInv, PointsInv, PlansInv, [Next]_vars,
           NEW p \in Process, Decide(p)
    PROVE  PlanHolds(p)'
<1>1. PICK d \in {"INSUFFICIENT", "HOLD", "HALT_AND_ROLLBACK"} :
         /\ Live(p)
         /\ Len(points) \in DOMAIN points
         /\ Newest.asOf = AsOf(p) /\ Newest.selection = selection.id
         /\ points' = [points EXCEPT ![Len(points)].decision = d]
         /\ UNCHANGED <<bars, signals, orders, runner>>
         /\ IF d = "HALT_AND_ROLLBACK"
            THEN (\E s \in Symbol, e \in Event : Select(s, e)) /\ Goto(p, "halt")
            ELSE /\ UNCHANGED selection
                 /\ proc' = [proc EXCEPT ![p].closes = LaterCloses(p),
                                         ![p].pc = IF LaterCloses(p) = {} THEN "admit" ELSE "close"]
    BY DecideIs
<1>2. /\ PlanHolds(p) /\ proc[p].pc = "decide" /\ PointShapes
      /\ proc \in [Process -> Proc] /\ proc[p] \in Proc /\ proc[p].closes \subseteq Nat
    BY DEF Decide, PlansInv, RunShapes, PointShapes, Proc
<1>3. proc[p].bar \in DOMAIN bars /\ PlanFits(p) /\ EndsAtBar(p)
    BY <1>1, <1>2 DEF PlanHolds, Working
<1>4. AsOf(p) \in proc[p].closes /\ \A k \in proc[p].closes : AsOf(p) <= k
    BY <1>3, FirstClose DEF PlanFits
<1>5. CASE d = "HALT_AND_ROLLBACK"
    <2>1. proc'[p].pc = "halt" /\ proc'[p].bar = proc[p].bar
        BY <1>1, <1>2, <1>5 DEF Goto, Proc
    <2> QED BY <1>1, <1>3, <2>1, NoPlanYet
<1>6. CASE d # "HALT_AND_ROLLBACK"
    <2> DEFINE n == Len(points)
               rest == LaterCloses(p)
    <2>1. PICK c \in {"admit", "close"} :
             /\ proc' = [proc EXCEPT ![p].closes = rest, ![p].pc = c]
             /\ c = "admit" <=> rest = {}
        BY <1>1, <1>6
    <2>2. /\ proc'[p].pc = c /\ proc'[p].closes = rest /\ proc'[p].bar = proc[p].bar
          /\ proc'[p].selection = proc[p].selection
        <3> HIDE DEF rest
        <3> QED BY <1>2, <2>1 DEF Proc
    <2>3. UNCHANGED selection
        BY <1>1, <1>6
    <2>4. \A k : k \in rest <=> k \in proc[p].closes /\ k # AsOf(p)
        BY DEF LaterCloses
    <2> HIDE DEF rest
    <2>5. /\ DOMAIN points' = DOMAIN points /\ Len(points') = n
          /\ \A j \in DOMAIN points :
                 /\ points'[j].asOf = points[j].asOf
                 /\ points'[j].selection = points[j].selection
                 /\ points'[j].decision = IF j = n THEN d ELSE points[j].decision
        BY <1>1, <1>2, Decided
    <2>6. DOMAIN points = 1..n /\ n \in Nat /\ n \in DOMAIN points
        BY <1>1, <1>2, PointsIndexed
    <2>7. \A i \in DOMAIN points' : points'[i].decision # "none"
        <3> SUFFICES ASSUME NEW i \in DOMAIN points PROVE points'[i].decision # "none"
            BY <2>5
        <3>1. CASE i = n
            BY <2>5, <3>1
        <3>2. CASE i < n
            BY <2>5, <2>6, <3>2 DEF PointsInv
        <3> QED BY <2>6, <3>1, <3>2
    <2>8. points' # <<>> /\ Newest'.asOf = AsOf(p) /\ Newest'.decision # "none"
        <3>1. points'[n].asOf = AsOf(p)
            BY <1>1, <2>5 DEF Newest
        <3>2. Newest' = points'[n]
            BY <2>5 DEF Newest
        <3> QED BY <2>5, <2>6, <2>7, <3>1, <3>2
    <2>9. UNCHANGED StoredCloses /\ (Committed(p)' <=> Committed(p))
        BY <1>1, <2>2 DEF StoredCloses, Committed
    <2>10. CASE c = "admit"
        <3>1. ASSUME ~Committed(p)
              PROVE  points'[n].asOf = bars[proc[p].bar].close /\ points'[n].selection = selection.id
            <4>1. bars[proc[p].bar].close \in proc[p].closes
                BY <1>3, <3>1 DEF EndsAtBar
            <4>2. bars[proc[p].bar].close = AsOf(p)
                BY <2>1, <2>4, <2>10, <4>1
            <4> QED BY <1>1, <2>5, <4>2 DEF Newest
        <3>2. BarDecided(p)'
            BY <1>1, <2>2, <2>3, <2>5, <2>6, <2>7, <2>9, <3>1 DEF BarDecided
        <3> QED BY <1>1, <1>3, <2>2, <2>10, <3>2 DEF PlanHolds, Working
    <2>11. CASE c = "close"
        <3>1. rest # {} /\ rest \subseteq StoredCloses
            BY <1>3, <2>1, <2>4, <2>11 DEF PlanFits
        <3>2. ASSUME NEW k \in StoredCloses, NEW j \in rest,
                     AsOf(p) < k, k <= j, k >= selection.since
              PROVE  k \in rest
            <4>1. AsOf(p) \in Nat /\ k \in Nat
                BY <1>2, <1>4, StoredTyped
            <4>2. points # <<>> /\ j \in proc[p].closes
                BY <2>4, <2>6
            <4>3. k \in proc[p].closes
                BY <1>1, <1>3, <3>2, <4>2 DEF PlanFits
            <4> QED BY <2>4, <3>2, <4>1, <4>3
        <3>3. \A k \in rest : AsOf(p) <= k
            BY <1>4, <2>4
        <3>4. PlanFits(p)'
            BY <2>2, <2>3, <2>8, <2>9, <3>1, <3>2, <3>3 DEF PlanFits
        <3>5. EndsAtBar(p)'
            <4>1. ASSUME ~Committed(p)
                  PROVE  /\ bars[proc[p].bar].close \in rest
                         /\ \A k \in rest : k <= bars[proc[p].bar].close
                <5> DEFINE end == bars[proc[p].bar].close
                <5>1. end \in proc[p].closes /\ \A k \in proc[p].closes : k <= end
                    BY <1>3, <4>1 DEF EndsAtBar
                <5> HIDE DEF end
                <5>2. PICK j : j \in rest
                    BY <3>1
                <5>3. j \in proc[p].closes /\ j # AsOf(p) /\ j <= end /\ AsOf(p) <= j
                    BY <1>4, <2>4, <5>1, <5>2
                <5>4. j \in Nat /\ AsOf(p) \in Nat /\ end \in Nat
                    BY <1>2, <1>4, <5>1, <5>3
                <5>5. end # AsOf(p)
                    BY ONLY <5>3, <5>4
                <5> QED BY <2>4, <5>1, <5>5 DEF end
            <4> QED BY <1>1, <2>2, <2>9, <4>1 DEF EndsAtBar
        <3> QED BY <1>1, <1>3, <2>2, <2>11, <3>4, <3>5 DEF PlanHolds, Working
    <2> QED BY <2>10, <2>11
<1> QED BY <1>5, <1>6

LEMMA PlansHold ==
    ASSUME RunShapes, BarsInv, LeasesInv, PointsInv, PlansInv, [Next]_vars
    PROVE  PlansInv'
<1>1. ASSUME NEW p \in Process, FillStep(p) \/ Admit(p) \/ Quiet(p) PROVE PlanHolds(p)'
    <2>0. /\ PlanHolds(p) /\ proc \in [Process -> Proc] /\ proc[p] \in Proc
          /\ DOMAIN bars \subseteq DOMAIN bars'
        BY MarketHolds DEF PlansInv, RunShapes, BarsTyped, MarketGrows
    <2>1. CASE FillStep(p)
        <3>1. SamePlan(p)
            BY <2>1 DEF FillStep, runVars, SamePlan
        <3> QED BY <3>1, PlanKept
    <2>2. CASE Value(p)
        BY <2>2, ValueKeepsPlan
    <2>3. CASE Decide(p)
        BY <2>3, DecideKeepsPlan
    <2>4. CASE Refresh(p)
        <3>1. PICK n : proc' = [proc EXCEPT ![p].lease = n]
            BY <2>4 DEF Refresh, RenewBoth
        <3>2. SamePlan(p)
            BY <2>0, <3>1 DEF SamePlan, Proc
        <3> QED BY <3>2, PlanKept
    <2>5. ASSUME NEW c \in {"prepare", "start", "plan", "wait", "halt", "release"}, Goto(p, c),
                 proc[p].pc # "idle"
          PROVE  PlanHolds(p)'
        <3>1. proc'[p].pc = c /\ proc'[p].bar = proc[p].bar
            BY <2>0, <2>5 DEF Goto, Proc
        <3> QED BY <2>0, <2>5, <3>1, NoPlanYet DEF PlanHolds
    <2>6. CASE Admit(p) \/ Prepare(p) \/ HaltOwned(p) \/ Finish(p) \/ Fail(p)
        BY <2>5, <2>6 DEF Admit, Prepare, HaltOwned, Finish, Fail
    <2>7. CASE Release(p) \/ Kill(p)
        <3>1. proc'[p].pc = "idle"
            <4>1. CASE Release(p)
                <5>1. proc'[p] = [NoRun EXCEPT !.claim = proc[p].claim, !.lease = proc[p].lease]
                    BY <2>0, <4>1 DEF Release
                <5> QED BY <5>1 DEF NoRun
            <4>2. CASE Kill(p)
                <5>1. proc'[p] = NoRun
                    BY <2>0, <4>2 DEF Kill
                <5> QED BY <5>1 DEF NoRun
            <4> QED BY <2>7, <4>1, <4>2
        <3> QED BY <3>1, NoPlanYet
    <2>8. CASE Acquire(p) \/ StartExecution(p)
        <3>1. /\ proc'[p].pc \in {"prepare", "plan"} /\ proc'[p].bar = proc[p].bar
              /\ proc[p].pc # "idle"
            <4>1. CASE Acquire(p)
                BY <2>0, <4>1 DEF Acquire, Proc
            <4>2. CASE StartExecution(p)
                <5>1. PICK n : /\ proc' = [proc EXCEPT ![p].lease = n, ![p].pc = "plan"]
                               /\ proc[p].pc = "start"
                    BY <4>2 DEF StartExecution
                <5> QED BY <2>0, <5>1 DEF Proc
            <4> QED BY <2>8, <4>1, <4>2
        <3> QED BY <2>0, <3>1, NoPlanYet DEF PlanHolds
    <2>9. ASSUME NEW b \in DOMAIN bars, Begin(p, b) \/ NextFrame(p, b) PROVE PlanHolds(p)'
        <3>1. /\ proc'[p].pc \in {"acquire", "prepare"} /\ proc'[p].bar = b
            <4>1. CASE Begin(p, b)
                <5>1. proc'[p] = [NoRun EXCEPT !.pc = "acquire", !.bar = b, !.selection = selection.id]
                    BY <2>0, <4>1 DEF Begin
                <5> QED BY <5>1 DEF NoRun
            <4>2. CASE NextFrame(p, b)
                BY <2>0, <4>2 DEF NextFrame, Proc
            <4> QED BY <2>9, <4>1, <4>2
        <3> QED BY <2>0, <3>1, NoPlanYet
    <2>10. CASE Plan(p)
        <3>1. /\ proc[p].pc = "plan" /\ UNCHANGED <<bars, signals, points, selection>>
              /\ proc' = [proc EXCEPT ![p].closes = ClosesOf(p), ![p].pc = "close"]
            BY <2>10 DEF Plan, paperVars
        <3>2. PICK closes : closes = ClosesOf(p)
            OBVIOUS
        <3>3. /\ proc'[p].pc = "close" /\ proc'[p].closes = closes
              /\ proc'[p].bar = proc[p].bar /\ proc'[p].selection = proc[p].selection
            BY <2>0, <3>1, <3>2 DEF Proc
        <3>4. proc[p].bar \in DOMAIN bars
            BY <2>0, <3>1 DEF PlanHolds
        <3>5. /\ closes # {} /\ closes \subseteq StoredCloses
              /\ points = <<>> => \A j, k \in closes : j = k
              /\ points # <<>> =>
                    /\ \A k \in closes : Newest.asOf <= k
                    /\ Newest.decision = "none" => Newest.asOf \in closes
                    /\ \A k \in StoredCloses, j \in closes :
                          Newest.asOf < k /\ k <= j /\ k >= selection.since => k \in closes
              /\ ~Committed(p) =>
                    /\ bars[proc[p].bar].close \in closes
                    /\ \A k \in closes : k <= bars[proc[p].bar].close
            BY <2>10, <3>2, <3>4, ClosesOfIs
        <3>6. UNCHANGED <<StoredCloses, Newest>> /\ (Committed(p)' <=> Committed(p))
            BY <3>1, <3>3 DEF StoredCloses, Newest, Committed
        <3>7. PlanFits(p)'
            BY <3>1, <3>3, <3>5, <3>6 DEF PlanFits
        <3>8. EndsAtBar(p)'
            BY <3>1, <3>3, <3>5, <3>6 DEF EndsAtBar
        <3> QED BY <3>1, <3>3, <3>4, <3>7, <3>8 DEF PlanHolds, Working
    <2>11. CASE BeginClose(p) \/ NextOrder(p)
        <3>1. /\ proc[p].pc \in {"close", "fill"}
              /\ UNCHANGED <<bars, signals, orders, points, selection, runner>>
            BY <2>11 DEF BeginClose, NextOrder, paperVars
        <3>2. /\ proc'[p].pc \in {"fill", "value"} /\ proc'[p].closes = proc[p].closes
              /\ proc'[p].bar = proc[p].bar /\ proc'[p].selection = proc[p].selection
              /\ proc'[p].claim = proc[p].claim
              /\ proc'[p].todo \subseteq DOMAIN orders \/ proc'[p].pc = "value"
            <4>1. CASE BeginClose(p)
                <5>1. PICK todo \in SUBSET DOMAIN orders :
                         proc' = [proc EXCEPT ![p].todo = todo, ![p].pc = "fill"]
                    BY <4>1 DEF BeginClose
                <5> QED BY <2>0, <5>1 DEF Proc
            <4>2. CASE NextOrder(p)
                <5>1. proc[p].pc = "fill" /\ proc[p].todo \subseteq DOMAIN orders
                    BY <2>0, <4>2 DEF NextOrder, PlanHolds
                <5>2. Goto(p, "value") \/ \E k : proc' = [proc EXCEPT ![p].todo = proc[p].todo \ {k}]
                    BY <2>0, <4>2 DEF NextOrder
                <5>3. CASE Goto(p, "value")
                    BY <2>0, <5>3 DEF Goto, Proc
                <5>4. ASSUME NEW todo, todo \subseteq DOMAIN orders, proc' = [proc EXCEPT ![p].todo = todo]
                      PROVE  /\ proc'[p].pc = "fill" /\ proc'[p].closes = proc[p].closes
                             /\ proc'[p].bar = proc[p].bar /\ proc'[p].selection = proc[p].selection
                             /\ proc'[p].claim = proc[p].claim
                             /\ proc'[p].todo \subseteq DOMAIN orders
                    BY <2>0, <5>1, <5>4 DEF Proc
                <5> QED BY <5>1, <5>2, <5>3, <5>4
            <4> QED BY <2>11, <4>1, <4>2
        <3>3. proc[p].bar \in DOMAIN bars
            BY <2>0, <3>1 DEF PlanHolds
        <3>4. ASSUME Live(p)' PROVE PlanFits(p)' /\ EndsAtBar(p)'
            <4>1. Live(p)
                BY <3>2, <3>4, LiveBefore
            <4>2. PlanFits(p) /\ EndsAtBar(p)
                BY <2>0, <3>1, <4>1 DEF PlanHolds, Working
            <4>3. UNCHANGED <<StoredCloses, Newest>> /\ (Committed(p)' <=> Committed(p))
                BY <3>1, <3>2 DEF StoredCloses, Newest, Committed
            <4>4. PlanFits(p)'
                BY <3>1, <3>2, <4>2, <4>3 DEF PlanFits
            <4>5. EndsAtBar(p)'
                BY <3>1, <3>2, <4>2, <4>3 DEF EndsAtBar
            <4> QED BY <4>4, <4>5
        <3> QED BY <3>1, <3>2, <3>3, <3>4 DEF PlanHolds, Working
    <2> QED BY <1>1, <2>1, <2>2, <2>3, <2>4, <2>6, <2>7, <2>8, <2>9, <2>10, <2>11 DEF Quiet
<1>2. ASSUME NEW q \in Process, proc'[q] = proc[q] PROVE PlanHolds(q)'
    <2>1. SamePlan(q)
        BY <1>2 DEF SamePlan
    <2> QED BY <2>1, PlanKept
<1>3. CASE \E p \in Process : FillStep(p) \/ Admit(p) \/ Quiet(p)
    <2>1. PICK p \in Process : FillStep(p) \/ Admit(p) \/ Quiet(p)
        BY <1>3
    <2>2. ASSUME NEW q \in Process PROVE PlanHolds(q)'
        <3>1. CASE q = p
            BY <1>1, <2>1, <3>1
        <3>2. CASE q # p
            <4>1. proc'[q] = proc[q]
                BY <2>1, <3>2, OthersStay
            <4> QED BY <1>2, <4>1
        <3> QED BY <3>1, <3>2
    <2> QED BY <2>2 DEF PlansInv
<1>4. CASE UNCHANGED vars \/ MarketMoves \/ Outside
    <2>1. UNCHANGED proc
        BY <1>4 DEF vars, runVars, MarketMoves, Outside, LeasesExpire, OperatorStops, OperatorSelects
    <2> QED BY <1>2, <2>1 DEF PlansInv
<1> QED BY <1>3, <1>4, StepKinds

-----------------------------------------------------------------------------
(* The invariant always holds.                                               *)

LEMMA InitiallyTrue == Init => RunInv
<1> SUFFICES ASSUME Init PROVE RunInv
    OBVIOUS
<1>1. /\ bars = <<>> /\ signals = <<>> /\ orders = <<>> /\ fills = <<>> /\ points = <<>>
      /\ DOMAIN bars = {} /\ DOMAIN signals = {} /\ DOMAIN orders = {} /\ DOMAIN fills = {}
      /\ DOMAIN points = {} /\ Len(fills) = 0
    BY DEF Init, PaperInit
<1>2. /\ runner = [held |-> FALSE, live |-> FALSE, fence |-> 0, selection |-> 0]
      /\ exec = [armed |-> FALSE, leased |-> FALSE, live |-> FALSE, fence |-> 0]
      /\ selection \in [id: {1}, symbol: Symbol, since: {1}, event: {"SELECT"}]
      /\ stop = [fence |-> 0, after |-> 0]
      /\ proc = [p \in Process |-> NoRun]
    BY DEF Init
<1>3. \A p \in Process : /\ proc[p].pc = "idle" /\ proc[p].claim = 0 /\ proc[p].lease = 0
                         /\ proc[p].selection = 0
    BY <1>2 DEF NoRun
<1>4. RunShapes
    <2>1. NoRun \in Proc
        BY DEF NoRun, Proc, Pc
    <2>2. IsSequence(<<>>)
        BY DEF IsSequence
    <2>3. proc \in [Process -> Proc]
        BY <1>2, <2>1
    <2>4. bars \in Seq(Bar) /\ signals \in Seq(Signal)
        BY <1>1
    <2>5. /\ runner \in [held: BOOLEAN, live: BOOLEAN, fence: Nat, selection: Nat]
          /\ exec \in [armed: BOOLEAN, leased: BOOLEAN, live: BOOLEAN, fence: Nat]
          /\ selection \in [id: Nat, symbol: Symbol, since: Nat, event: Event]
          /\ stop \in [fence: Nat, after: Nat]
        BY <1>2 DEF Event
    <2> QED BY <1>1, <2>2, <2>3, <2>4, <2>5 DEF RunShapes
<1>5. StopInv
    BY <1>1, <1>2 DEF StopInv, StopIsRespected
<1>6. LeasesInv
    <2>1. runner.fence = 0 /\ selection.id = 1
        BY <1>2
    <2> QED BY <1>3, <2>1 DEF LeasesInv, LeaseHolds
<1>7. BarsInv /\ OrdersInv /\ PointsInv
    BY <1>1 DEF BarsInv, OrdersInv, PointsInv, NoFillFromKnownBar
<1>8. PlansInv
    BY <1>3 DEF PlansInv, PlanHolds, Live
<1> QED BY <1>4, <1>5, <1>6, <1>7, <1>8 DEF RunInv

LEMMA StepKeeps == RunInv /\ [Next]_vars => RunInv'
<1> SUFFICES ASSUME RunInv, [Next]_vars PROVE RunInv'
    OBVIOUS
<1>1. RunShapes /\ StopInv /\ LeasesInv /\ BarsInv /\ OrdersInv /\ PointsInv /\ PlansInv
    BY DEF RunInv
<1>2. RunShapes'
    BY <1>1, ShapesHold
<1>3. BarsInv'
    BY <1>1, MarketHolds DEF RunShapes, BarsTyped
<1>4. StopInv' /\ LeasesInv'
    BY <1>1, StopHolds, LeasesHold
<1>5. OrdersInv' /\ PointsInv' /\ PlansInv'
    BY <1>1, OrdersHold, PointsHold, PlansHold
<1> QED BY <1>2, <1>3, <1>4, <1>5 DEF RunInv

LEMMA RunAlways == Spec => []RunInv
BY InitiallyTrue, StepKeeps, PTL DEF Spec

-----------------------------------------------------------------------------
(* The theorems.                                                             *)

\* A run fills nothing under a lease from before an operator's stop, whether
\* it was under way or comes back, and a run that ended has left neither its
\* claim nor its execution lease behind (paper_local_heartbeat.go), for any
\* number of processes, kills, expiries, renewals and stops.
THEOREM LeasesAlwaysRespected == Spec => []LeasesAreRespected
<1>1. RunInv => LeasesAreRespected
    <2> SUFFICES ASSUME RunInv PROVE StopIsRespected /\ EndedRunHoldsNothing
        BY DEF LeasesAreRespected
    <2>1. StopIsRespected
        BY DEF RunInv, StopInv
    <2>2. ASSUME NEW p \in Process, proc[p].pc = "idle", proc[p].claim # 0
          PROVE  /\ ~(runner.held /\ runner.fence = proc[p].claim)
                 /\ proc[p].lease # 0 /\ runner.fence = proc[p].claim => ~exec.leased
        <3>1. LeaseHolds(p)
            BY DEF RunInv, LeasesInv
        <3> QED BY <2>2, <3>1 DEF LeaseHolds
    <2> QED BY <2>1, <2>2 DEF EndedRunHoldsNothing
<1> QED BY <1>1, RunAlways, PTL

\* What a fill and an order are written behind: the two parts of
\* PolicyComesFirst, as actions.
FillInTurn ==
    fills' # fills =>
        /\ \A i \in DOMAIN points :
              points[i].asOf < NewFillClose =>
                 /\ points[i].decision # "none"
                 /\ \/ points[i].selection # selection.id
                    \/ points[i].decision # "HALT_AND_ROLLBACK"
        /\ points # <<>> =>
              \A k \in StoredCloses :
                 ~(Newest.asOf < k /\ k < NewFillClose /\ k >= selection.since)

OrderInTurn ==
    signals' # signals =>
        LET close == bars[signals'[Len(signals')].bar].close
        IN  /\ \E i \in PointsAt(close) : points[i].selection = selection.id
            /\ \A i \in DOMAIN points : points[i].decision # "none"

LEMMA FillsInTurn ==
    ASSUME RunInv, [Next]_vars
    PROVE  FillInTurn
<1> SUFFICES ASSUME fills' # fills PROVE FillInTurn
    BY DEF FillInTurn
<1>1. PICK p \in Process : FillStep(p)
    <2>1. UNCHANGED paperVars \/ MarketMoves \/ UNCHANGED vars => UNCHANGED fills
        BY DEF paperVars, vars, MarketMoves, ImportBar
    <2>2. ASSUME NEW p \in Process, Admit(p) PROVE UNCHANGED fills
        BY <2>2, AdmitIs
    <2> QED BY <2>1, <2>2, StepKinds, QuietKeeps, OutsideKeeps
<1>0. RunShapes /\ BarsInv /\ LeasesInv /\ PointsInv /\ PlansInv /\ PointShapes /\ IsSequence(fills)
    BY DEF RunInv, RunShapes, PointShapes
<1>2. Live(p)
    BY <1>0, <1>1, HolderIsLive DEF FillStep
<1>3. PlanFits(p)
    BY <1>0, <1>1, <1>2 DEF PlansInv, PlanHolds, Working, FillStep
<1>4. AsOf(p) \in proc[p].closes /\ \A k \in proc[p].closes : AsOf(p) <= k
    BY <1>0, <1>3, FirstClose DEF PlanFits
<1>5. PICK close : close = NewFillClose /\ close <= AsOf(p) /\ close \in Nat
    <2>1. PICK fill : /\ fills' = Append(fills, fill) /\ fill.order \in DOMAIN orders
                      /\ fill.bar \in FillBars(fill.order)
                      /\ bars[fill.bar].close <= AsOf(p)
        BY <1>0, <1>1, FillStepIs
    <2>2. fills'[Len(fills')] = fill
        BY <1>0, <2>1, Appended
    <2>3. fill.bar \in DOMAIN bars
        BY <2>1 DEF FillBars, Series
    <2>4. bars[fill.bar].close \in StoredCloses
        BY <2>3 DEF StoredCloses
    <2> QED BY <1>0, <2>1, <2>2, <2>4, StoredTyped DEF NewFillClose
<1>6. StoredCloses \subseteq Nat /\ proc[p].closes \subseteq StoredCloses
    BY <1>0, <1>3, StoredTyped DEF PlanFits
<1>7. /\ DOMAIN points = 1..Len(points) /\ Len(points) \in Nat
      /\ points # <<>> => Len(points) \in DOMAIN points /\ Newest.asOf \in Nat
    BY <1>0, PointsIndexed DEF PointShapes, IsPoint, Newest
<1>8. ASSUME NEW i \in DOMAIN points, points[i].asOf < close
      PROVE  points[i].decision # "none" /\ (points[i].selection # selection.id \/ points[i].decision # "HALT_AND_ROLLBACK")
    <2>1. points[i].selection \in Nat /\ points[i].asOf \in Nat /\ selection.id \in Nat /\ points # <<>>
        BY <1>0 DEF PointShapes, IsPoint, RunShapes
    <2>2. points[i].decision = "HALT_AND_ROLLBACK" => points[i].selection < selection.id
        BY <1>0 DEF PointsInv
    <2>3. points[i].decision # "none"
        <3>1. CASE i < Len(points)
            BY <1>0, <1>7, <2>1, <3>1 DEF PointsInv
        <3>2. CASE i = Len(points)
            <4>1. ASSUME Newest.decision = "none" PROVE FALSE
                <5>1. AsOf(p) <= Newest.asOf
                    BY <1>3, <1>4, <2>1, <4>1 DEF PlanFits
                <5>2. Newest.asOf < close
                    BY <1>8, <3>2 DEF Newest
                <5>3. AsOf(p) \in Nat /\ Newest.asOf \in Nat /\ close \in Nat /\ close <= AsOf(p)
                    BY <1>4, <1>5, <1>6, <1>7, <2>1
                <5> QED BY ONLY <5>1, <5>2, <5>3
            <4> QED BY <3>2, <4>1 DEF Newest
        <3> QED BY <1>7, <3>1, <3>2
    <2> QED BY <2>1, <2>2, <2>3
<1>9. ASSUME points # <<>>, NEW k \in StoredCloses, Newest.asOf < k, k < close, k >= selection.since
      PROVE  FALSE
    <2>1. k \in Nat /\ AsOf(p) \in Nat /\ close \in Nat /\ close <= AsOf(p)
        BY <1>4, <1>5, <1>6
    <2>2. k < AsOf(p) /\ k <= AsOf(p)
        BY ONLY <1>9, <2>1
    <2>3. k \in proc[p].closes
        BY <1>3, <1>4, <1>9, <2>2 DEF PlanFits
    <2>4. AsOf(p) <= k
        BY <1>4, <2>3
    <2> QED BY ONLY <2>1, <2>2, <2>4
<1> QED BY <1>5, <1>8, <1>9 DEF FillInTurn

LEMMA OrdersInTurn ==
    ASSUME RunInv, [Next]_vars
    PROVE  OrderInTurn
<1> SUFFICES ASSUME signals' # signals PROVE OrderInTurn
    BY DEF OrderInTurn
<1>1. PICK p \in Process : Admit(p)
    BY SignalsKept
<1>0. RunShapes /\ LeasesInv /\ PlansInv /\ IsSequence(signals)
    BY TypedSequence DEF RunInv, RunShapes
<1>2. Live(p)
    BY <1>0, <1>1, WriterMoves
<1>3. BarDecided(p)
    BY <1>0, <1>1, <1>2 DEF PlansInv, PlanHolds, Admit
<1>4. PICK signal : signals' = Append(signals, signal) /\ signal.bar = proc[p].bar /\ ~IsCommitted(p)
    BY <1>1, AdmitIs
<1>5. signals'[Len(signals')] = signal
    BY <1>0, <1>4, Appended
<1>6. PICK i \in DOMAIN points : /\ points[i].asOf = bars[proc[p].bar].close
                                 /\ points[i].selection = selection.id
    BY <1>3, <1>4, Committed_ DEF BarDecided
<1>7. i \in PointsAt(bars[proc[p].bar].close)
    BY <1>6 DEF PointsAt
<1> QED BY <1>3, <1>4, <1>5, <1>6, <1>7 DEF BarDecided, OrderInTurn

\* Nothing is filled from a bar while an earlier close is unvalued, undecided
\* or lost, and no order is admitted before its own close is valued and decided
\* under the same selection (paper_local.go step), however many runs of the
\* account die, lose their lease and come back in between.
THEOREM PolicyAlwaysFirst == Spec => PolicyComesFirst
<1>1. RunInv /\ [Next]_vars => [FillInTurn]_vars /\ [OrderInTurn]_vars
    BY FillsInTurn, OrdersInTurn
<1>2. Spec => [][FillInTurn]_vars /\ [][OrderInTurn]_vars
    BY <1>1, RunAlways, PTL DEF Spec
<1>3. [][FillInTurn]_vars => PolicyBeforeLaterFill
    BY DEF PolicyBeforeLaterFill, FillInTurn
<1>4. [][OrderInTurn]_vars => PolicyBeforeOrder
    BY DEF PolicyBeforeOrder, OrderInTurn
<1> QED BY <1>2, <1>3, <1>4 DEF PolicyComesFirst

-----------------------------------------------------------------------------
(* Sums.  The cash, the positions and what is filled of an order are sums    *)
(* over the fills.  A sum is a function over the subsets of its indices, and *)
(* two functions with the recursion of a sum agree.                          *)

\* What holds of the empty set and survives one more element holds of a finite
\* set; C is the collection of subsets it holds of.
LEMMA FiniteInduction ==
    ASSUME NEW S, IsFiniteSet(S), NEW C, {} \in C,
           \A T \in C : \A x \in S \ T : T \subseteq S => T \cup {x} \in C
    PROVE  S \in C
<1> DEFINE D == {T \in C : T \subseteq S}
           Rests == {Cardinality(S \ T) : T \in D}
<1>1. \A T : IsFiniteSet(S \ T) /\ Cardinality(S \ T) \in Nat
    BY FS_Subset, FS_CardinalityType
<1>2. Rests \subseteq Nat /\ Rests # {}
    <2>1. {} \in D
        OBVIOUS
    <2> QED BY <1>1, <2>1
<1>3. Min(Rests) \in Rests /\ \A m \in Rests : Min(Rests) <= m
    <2> HIDE DEF Rests
    <2> QED BY <1>2, MinOf
<1>4. PICK T \in D : Min(Rests) = Cardinality(S \ T)
    BY <1>3
<1>5. T \in C /\ T \subseteq S
    BY <1>4
<1>6. SUFFICES ASSUME S \ T # {} PROVE FALSE
    <2>1. S \ T = {} => S = T
        BY <1>5
    <2> QED BY <1>5, <2>1
<1>7. PICK x : x \in S \ T
    BY <1>6
<1> DEFINE rest == S \ T
           less == S \ (T \cup {x})
<1>8. Cardinality(less) \in Rests
    BY <1>5, <1>7
<1>9. less = rest \ {x} /\ x \in rest
    BY <1>7
<1>10. IsFiniteSet(rest) /\ Cardinality(rest) \in Nat /\ Min(Rests) = Cardinality(rest)
    BY <1>1, <1>4
<1> HIDE DEF rest, less, Rests, D
<1>11. Cardinality(less) = Cardinality(rest) - 1
    BY <1>9, <1>10, FS_RemoveElement
<1>12. Min(Rests) <= Cardinality(less)
    BY <1>3, <1>8
<1> QED BY <1>10, <1>11, <1>12

\* sum adds up the amounts over the subsets of S, in any order of the elements.
SumsUp(sum, S, amount) ==
    /\ sum \in [SUBSET S -> Int]
    /\ sum[{}] = 0
    /\ \A T \in SUBSET S : \A x \in T : sum[T] = amount[x] + sum[T \ {x}]

LEMMA SumExists ==
    ASSUME NEW S, IsFiniteSet(S), NEW amount, \A x \in S : amount[x] \in Int
    PROVE  \E sum : SumsUp(sum, S, amount)
<1> DEFINE C == {T \in SUBSET S : \E sum : SumsUp(sum, T, amount)}
<1>1. {} \in C
    <2> DEFINE zero == [T \in SUBSET {} |-> 0]
    <2>1. SumsUp(zero, {}, amount)
        BY DEF SumsUp
    <2> QED BY <2>1, Zenon
<1>2. ASSUME NEW T \in C, NEW y \in S \ T, T \subseteq S
      PROVE  T \cup {y} \in C
    <2>1. PICK sum : SumsUp(sum, T, amount)
        BY <1>2
    <2> DEFINE more == [U \in SUBSET (T \cup {y}) |->
                           IF y \in U THEN amount[y] + sum[U \ {y}] ELSE sum[U]]
    <2>2. \A U \in SUBSET (T \cup {y}) : U \ {y} \in SUBSET T
        OBVIOUS
    <2>3. \A U \in SUBSET (T \cup {y}) : y \notin U => U \in SUBSET T
        OBVIOUS
    <2>4. more \in [SUBSET (T \cup {y}) -> Int]
        BY <1>2, <2>1, <2>2, <2>3 DEF SumsUp
    <2>5. more[{}] = 0
        BY <2>1 DEF SumsUp
    <2>6. ASSUME NEW U \in SUBSET (T \cup {y}), NEW x \in U
          PROVE  more[U] = amount[x] + more[U \ {x}]
        <3>1. CASE y \notin U
            <4>1. U \in SUBSET T /\ U \ {x} \in SUBSET (T \cup {y}) /\ y \notin U \ {x}
                BY <2>3, <3>1
            <4>2. more[U] = sum[U] /\ more[U \ {x}] = sum[U \ {x}]
                BY <3>1, <4>1
            <4> QED BY <2>1, <4>1, <4>2 DEF SumsUp
        <3>2. CASE x = y
            <4>1. more[U] = amount[y] + sum[U \ {y}] /\ more[U \ {x}] = sum[U \ {y}]
                BY <3>2
            <4> QED BY <3>2, <4>1
        <3>3. CASE y \in U /\ x # y
            <4>1. more[U] = amount[y] + sum[U \ {y}]
                BY <3>3
            <4>2. y \in U \ {x} /\ U \ {x} \in SUBSET (T \cup {y})
                BY <3>3
            <4>3. more[U \ {x}] = amount[y] + sum[(U \ {x}) \ {y}]
                BY <4>2
            <4>4. U \ {y} \in SUBSET T /\ x \in U \ {y} /\ (U \ {y}) \ {x} \in SUBSET T
                BY <3>3
            <4>5. sum[U \ {y}] = amount[x] + sum[(U \ {y}) \ {x}]
                BY <2>1, <4>4 DEF SumsUp
            <4>6. (U \ {y}) \ {x} = (U \ {x}) \ {y}
                OBVIOUS
            <4>7. amount[x] \in Int /\ amount[y] \in Int /\ sum[(U \ {y}) \ {x}] \in Int
                BY <1>2, <2>1, <4>4 DEF SumsUp
            <4> HIDE DEF more
            <4>8. \A i, j, k \in Int : i + (j + k) = j + (i + k)
                OBVIOUS
            <4>9. amount[y] + (amount[x] + sum[(U \ {y}) \ {x}])
                     = amount[x] + (amount[y] + sum[(U \ {y}) \ {x}])
                BY ONLY <4>7, <4>8
            <4> QED BY ONLY <4>1, <4>3, <4>5, <4>6, <4>9, Zenon
        <3> QED BY <3>1, <3>2, <3>3
    <2> HIDE DEF more
    <2>7. SumsUp(more, T \cup {y}, amount)
        BY <2>4, <2>5, <2>6 DEF SumsUp
    <2> QED BY <2>7
<1> HIDE DEF C
<1>3. S \in C
    BY <1>1, <1>2, FiniteInduction
<1> QED BY <1>3 DEF C

Picked(T) == CHOOSE x \in T : TRUE

\* The recursion of the community module, which takes out one element of its
\* choice.
Recurses(sum, S, amount) ==
    sum = [T \in SUBSET S |-> IF T = {} THEN 0 ELSE amount[Picked(T)] + sum[T \ {Picked(T)}]]

LEMMA SumRecurses ==
    ASSUME NEW S, NEW amount, NEW sum, SumsUp(sum, S, amount)
    PROVE  Recurses(sum, S, amount)
<1>1. \A T : T # {} => Picked(T) \in T
    BY DEF Picked
<1>2. \A T \in SUBSET S : sum[T] = IF T = {} THEN 0 ELSE amount[Picked(T)] + sum[T \ {Picked(T)}]
    BY <1>1 DEF SumsUp
<1>3. sum = [T \in SUBSET S |-> sum[T]]
    BY DEF SumsUp
<1> QED BY <1>2, <1>3 DEF Recurses

LEMMA RecursionSums ==
    ASSUME NEW S, IsFiniteSet(S), NEW amount, NEW sum, SumsUp(sum, S, amount),
           NEW other, Recurses(other, S, amount)
    PROVE  other[S] = sum[S]
<1> DEFINE Sizes == {Cardinality(T) : T \in {U \in SUBSET S : other[U] # sum[U]}}
<1>1. \A T \in SUBSET S : IsFiniteSet(T) /\ Cardinality(T) \in Nat
    BY FS_Subset, FS_CardinalityType
<1>2. SUFFICES ASSUME other[S] # sum[S] PROVE FALSE
    OBVIOUS
<1>3. Sizes \subseteq Nat /\ Sizes # {}
    BY <1>1, <1>2
<1>4. Min(Sizes) \in Sizes /\ \A m \in Sizes : Min(Sizes) <= m
    <2> HIDE DEF Sizes
    <2> QED BY <1>3, MinOf
<1>5. PICK T \in SUBSET S : other[T] # sum[T] /\ Min(Sizes) = Cardinality(T)
    BY <1>4
<1>6. other[T] = IF T = {} THEN 0 ELSE amount[Picked(T)] + other[T \ {Picked(T)}]
    BY DEF Recurses
<1>7. T # {}
    BY <1>5, <1>6 DEF SumsUp
<1>8. PICK x : x = Picked(T)
    OBVIOUS
<1>9. x \in T /\ T \ {x} \in SUBSET S
    BY <1>7, <1>8 DEF Picked
<1>10. Cardinality(T \ {x}) = Cardinality(T) - 1
    BY <1>1, <1>9, FS_RemoveElement
<1>11. other[T \ {x}] = sum[T \ {x}]
    <2>1. SUFFICES ASSUME other[T \ {x}] # sum[T \ {x}] PROVE FALSE
        OBVIOUS
    <2>2. Cardinality(T \ {x}) \in Sizes
        BY <1>9, <2>1
    <2> HIDE DEF Sizes
    <2> QED BY <1>1, <1>4, <1>5, <1>10, <2>2
<1>12. other[T] = amount[x] + other[T \ {x}]
    BY <1>6, <1>7, <1>8
<1>13. sum[T] = amount[x] + sum[T \ {x}]
    BY <1>9 DEF SumsUp
<1> QED BY <1>5, <1>11, <1>12, <1>13

\* The shares of a set of fills are such a sum, and so is their cash.
LEMMA SharesAre ==
    ASSUME NEW fs, NEW F, IsFiniteSet(F), NEW amount, \A f \in F : amount[f] = fs[f].quantity,
           NEW sum, SumsUp(sum, F, amount)
    PROVE  SharesIn(fs, F) = sum[F]
<1> DEFINE Follows(it) ==
              it = [T \in SUBSET F |-> IF T = {} THEN 0
                                       ELSE fs[Picked(T)].quantity + it[T \ {Picked(T)}]]
           it == CHOOSE it : Follows(it)
<1>1. SharesIn(fs, F) = it[F]
    BY DEF SharesIn, MapThenSumSet, MapThenFoldSet, Picked
<1>2. \A T \in SUBSET F : T # {} => amount[Picked(T)] = fs[Picked(T)].quantity
    BY DEF Picked
<1>3. ASSUME NEW other PROVE Follows(other) <=> Recurses(other, F, amount)
    BY <1>2 DEF Recurses
<1> HIDE DEF Follows
<1>4. Follows(sum)
    BY <1>3, SumRecurses
<1>5. Follows(it)
    BY <1>4
<1> HIDE DEF it
<1> QED BY <1>1, <1>3, <1>5, RecursionSums

CashIn(fs, F) == MapThenSumSet(LAMBDA f : fs[f].cash, F)

LEMMA CashAre ==
    ASSUME NEW fs, NEW F, IsFiniteSet(F), NEW amount, \A f \in F : amount[f] = fs[f].cash,
           NEW sum, SumsUp(sum, F, amount)
    PROVE  CashIn(fs, F) = sum[F]
<1> DEFINE Follows(it) ==
              it = [T \in SUBSET F |-> IF T = {} THEN 0
                                       ELSE fs[Picked(T)].cash + it[T \ {Picked(T)}]]
           it == CHOOSE it : Follows(it)
<1>1. CashIn(fs, F) = it[F]
    BY DEF CashIn, MapThenSumSet, MapThenFoldSet, Picked
<1>2. \A T \in SUBSET F : T # {} => amount[Picked(T)] = fs[Picked(T)].cash
    BY DEF Picked
<1>3. ASSUME NEW other PROVE Follows(other) <=> Recurses(other, F, amount)
    BY <1>2 DEF Recurses
<1> HIDE DEF Follows
<1>4. Follows(sum)
    BY <1>3, SumRecurses
<1>5. Follows(it)
    BY <1>4
<1> HIDE DEF it
<1> QED BY <1>1, <1>3, <1>5, RecursionSums

\* A sum that goes up over S goes up over a part of it.
LEMMA SumsUpInPart ==
    ASSUME NEW S, NEW amount, NEW sum, SumsUp(sum, S, amount), NEW T \in SUBSET S
    PROVE  \E part : SumsUp(part, T, amount) /\ part[T] = sum[T]
<1> DEFINE part == [U \in SUBSET T |-> sum[U]]
<1>1. SumsUp(part, T, amount) /\ part[T] = sum[T]
    BY DEF SumsUp
<1> QED BY <1>1

LEMMA SharesLaws ==
    ASSUME NEW fs, NEW F, IsFiniteSet(F), \A f \in F : fs[f].quantity \in Int
    PROVE  /\ SharesIn(fs, {}) = 0
           /\ SharesIn(fs, F) \in Int
           /\ \A f \in F : SharesIn(fs, F) = fs[f].quantity + SharesIn(fs, F \ {f})
<1> DEFINE amount == [f \in F |-> fs[f].quantity]
<1>0. \A f \in F : amount[f] = fs[f].quantity /\ amount[f] \in Int
    OBVIOUS
<1> HIDE DEF amount
<1>1. PICK sum : SumsUp(sum, F, amount)
    BY <1>0, SumExists
<1>2. ASSUME NEW T \in SUBSET F PROVE SharesIn(fs, T) = sum[T]
    <2>1. PICK part : SumsUp(part, T, amount) /\ part[T] = sum[T]
        BY <1>1, SumsUpInPart
    <2>2. IsFiniteSet(T) /\ \A f \in T : amount[f] = fs[f].quantity
        BY <1>0, FS_Subset
    <2> QED BY <2>1, <2>2, SharesAre
<1>3. /\ sum[{}] = 0 /\ sum[F] \in Int
      /\ \A f \in F : sum[F] = amount[f] + sum[F \ {f}]
    BY <1>1 DEF SumsUp
<1>4. \A f \in F : SharesIn(fs, F \ {f}) = sum[F \ {f}]
    BY <1>2
<1> QED BY <1>0, <1>2, <1>3, <1>4

LEMMA CashLaws ==
    ASSUME NEW fs, NEW F, IsFiniteSet(F), \A f \in F : fs[f].cash \in Int
    PROVE  /\ CashIn(fs, {}) = 0
           /\ CashIn(fs, F) \in Int
           /\ \A f \in F : CashIn(fs, F) = fs[f].cash + CashIn(fs, F \ {f})
<1> DEFINE amount == [f \in F |-> fs[f].cash]
<1>0. \A f \in F : amount[f] = fs[f].cash /\ amount[f] \in Int
    OBVIOUS
<1> HIDE DEF amount
<1>1. PICK sum : SumsUp(sum, F, amount)
    BY <1>0, SumExists
<1>2. ASSUME NEW T \in SUBSET F PROVE CashIn(fs, T) = sum[T]
    <2>1. PICK part : SumsUp(part, T, amount) /\ part[T] = sum[T]
        BY <1>1, SumsUpInPart
    <2>2. IsFiniteSet(T) /\ \A f \in T : amount[f] = fs[f].cash
        BY <1>0, FS_Subset
    <2> QED BY <2>1, <2>2, CashAre
<1>3. /\ sum[{}] = 0 /\ sum[F] \in Int
      /\ \A f \in F : sum[F] = amount[f] + sum[F \ {f}]
    BY <1>1 DEF SumsUp
<1>4. \A f \in F : CashIn(fs, F \ {f}) = sum[F \ {f}]
    BY <1>2
<1> QED BY <1>0, <1>2, <1>3, <1>4

\* The same fills have the same sums, whatever sequence they are in.
LEMMA SharesSame ==
    ASSUME NEW fs, NEW gs, NEW F, IsFiniteSet(F),
           \A f \in F : fs[f].quantity \in Int /\ gs[f].quantity = fs[f].quantity
    PROVE  SharesIn(gs, F) = SharesIn(fs, F)
<1> DEFINE amount == [f \in F |-> fs[f].quantity]
<1>0. \A f \in F : amount[f] = fs[f].quantity /\ amount[f] \in Int /\ amount[f] = gs[f].quantity
    OBVIOUS
<1> HIDE DEF amount
<1>1. PICK sum : SumsUp(sum, F, amount)
    BY <1>0, SumExists
<1>2. SharesIn(fs, F) = sum[F]
    BY <1>0, <1>1, SharesAre
<1>3. SharesIn(gs, F) = sum[F]
    BY <1>0, <1>1, SharesAre
<1> QED BY <1>2, <1>3

LEMMA CashSame ==
    ASSUME NEW fs, NEW gs, NEW F, IsFiniteSet(F),
           \A f \in F : fs[f].cash \in Int /\ gs[f].cash = fs[f].cash
    PROVE  CashIn(gs, F) = CashIn(fs, F)
<1> DEFINE amount == [f \in F |-> fs[f].cash]
<1>0. \A f \in F : amount[f] = fs[f].cash /\ amount[f] \in Int /\ amount[f] = gs[f].cash
    OBVIOUS
<1> HIDE DEF amount
<1>1. PICK sum : SumsUp(sum, F, amount)
    BY <1>0, SumExists
<1>2. CashIn(fs, F) = sum[F]
    BY <1>0, <1>1, CashAre
<1>3. CashIn(gs, F) = sum[F]
    BY <1>0, <1>1, CashAre
<1> QED BY <1>2, <1>3

\* What one more fill adds to the sums.
LEMMA SharesAppended ==
    ASSUME NEW fs \in Seq(Fill), NEW fill \in Fill, NEW F \in SUBSET DOMAIN fs
    PROVE  /\ SharesIn(fs, F) \in Int
           /\ SharesIn(Append(fs, fill), F) = SharesIn(fs, F)
           /\ SharesIn(Append(fs, fill), F \cup {Len(fs) + 1}) = fill.quantity + SharesIn(fs, F)
<1> DEFINE n == Len(fs) + 1
           gs == Append(fs, fill)
           G == F \cup {n}
<1>1. /\ DOMAIN fs = 1..Len(fs) /\ Len(fs) \in Nat
      /\ \A f \in DOMAIN fs : gs[f] = fs[f]
      /\ gs[n] = fill
    BY TypedSequence, Appended
<1>2. fill.quantity \in Int /\ \A f \in DOMAIN fs : fs[f].quantity \in Int
    <2>1. \A f \in DOMAIN fs : fs[f] \in Fill
        OBVIOUS
    <2> QED BY <2>1 DEF Fill
<1>3. IsFiniteSet(F) /\ n \notin F /\ IsFiniteSet(G) /\ G \ {n} = F /\ n \in G
    <2>1. IsFiniteSet(1..Len(fs))
        BY <1>1, FS_Interval
    <2>2. IsFiniteSet(F)
        BY <1>1, <2>1, FS_Subset
    <2>3. n \notin F
        BY <1>1
    <2> HIDE DEF n
    <2> QED BY <2>2, <2>3, FS_AddElement
<1>4. \A f \in G : gs[f].quantity \in Int
    BY <1>1, <1>2
<1>5. \A f \in F : fs[f].quantity \in Int /\ gs[f].quantity = fs[f].quantity
    BY <1>1, <1>2
<1> HIDE DEF n, gs, G
<1>6. SharesIn(fs, F) \in Int
    BY <1>3, <1>5, SharesLaws
<1>7. SharesIn(gs, F) = SharesIn(fs, F)
    BY <1>3, <1>5, SharesSame
<1>8. SharesIn(gs, G) = gs[n].quantity + SharesIn(gs, G \ {n})
    BY <1>3, <1>4, SharesLaws
<1>9. SharesIn(gs, G) = fill.quantity + SharesIn(fs, F)
    BY <1>1, <1>3, <1>7, <1>8
<1> QED BY <1>6, <1>7, <1>9 DEF n, gs, G

\* The indices of fills of one kind, in a sequence and in a longer one.
LEMMA ChosenAppended ==
    ASSUME NEW S, NEW fs \in Seq(S), NEW fill \in S, NEW K
    PROVE  {f \in DOMAIN Append(fs, fill) : Append(fs, fill)[f] \in K}
             = {f \in DOMAIN fs : fs[f] \in K} \cup (IF fill \in K THEN {Len(fs) + 1} ELSE {})
<1> DEFINE gs == Append(fs, fill)
           n == Len(fs) + 1
<1>1. /\ DOMAIN fs = 1..Len(fs) /\ Len(fs) \in Nat
      /\ DOMAIN gs = 1..n
      /\ \A f \in DOMAIN fs : gs[f] = fs[f]
      /\ gs[n] = fill
    BY TypedSequence, Appended
<1>2. DOMAIN gs = DOMAIN fs \cup {n} /\ n \notin DOMAIN fs
    BY <1>1
<1> HIDE DEF gs, n
<1>3. {f \in DOMAIN gs : gs[f] \in K} = {f \in DOMAIN fs : fs[f] \in K} \cup (IF fill \in K THEN {n} ELSE {})
    BY <1>1, <1>2
<1> QED BY <1>3 DEF gs, n

LEMMA FilledAppended ==
    ASSUME NEW fs \in Seq(Fill), NEW fill \in Fill, NEW o
    PROVE  /\ Filled(fs, o) \in Int
           /\ fill.order = o => Filled(Append(fs, fill), o) = Filled(fs, o) + fill.quantity
           /\ fill.order # o => Filled(Append(fs, fill), o) = Filled(fs, o)
<1> DEFINE K == {x \in Fill : x.order = o}
           F == {f \in DOMAIN fs : fs[f] \in K}
           gs == Append(fs, fill)
           G == {f \in DOMAIN gs : gs[f] \in K}
<1>0. gs \in Seq(Fill)
    OBVIOUS
<1>1. \A f \in DOMAIN fs : fs[f] \in Fill
    OBVIOUS
<1>2. \A f \in DOMAIN gs : gs[f] \in Fill
    <2> HIDE DEF gs
    <2> QED BY <1>0
<1>3. Filled(fs, o) = SharesIn(fs, F)
    <2>1. F = {f \in DOMAIN fs : fs[f].order = o}
        BY <1>1
    <2> QED BY <2>1 DEF Filled
<1>4. Filled(gs, o) = SharesIn(gs, G)
    <2>1. G = {f \in DOMAIN gs : gs[f].order = o}
        BY <1>2
    <2> QED BY <2>1 DEF Filled
<1>5. G = F \cup (IF fill \in K THEN {Len(fs) + 1} ELSE {})
    <2> HIDE DEF K
    <2> QED BY ChosenAppended
<1>6. F \in SUBSET DOMAIN fs /\ (fill \in K <=> fill.order = o) /\ fill.quantity \in Int
    BY DEF Fill
<1> HIDE DEF K, F, G
<1>7. /\ SharesIn(fs, F) \in Int
      /\ SharesIn(gs, F) = SharesIn(fs, F)
      /\ SharesIn(gs, F \cup {Len(fs) + 1}) = fill.quantity + SharesIn(fs, F)
    BY <1>6, SharesAppended
<1>8. CASE fill.order = o
    <2>1. G = F \cup {Len(fs) + 1}
        BY <1>5, <1>6, <1>8
    <2> HIDE DEF gs
    <2>2. Filled(gs, o) = fill.quantity + Filled(fs, o)
        BY <1>3, <1>4, <1>7, <2>1
    <2>3. Filled(gs, o) = Filled(fs, o) + fill.quantity
        BY <1>3, <1>6, <1>7, <2>2
    <2> QED BY <1>3, <1>7, <1>8, <2>3 DEF gs
<1>9. CASE fill.order # o
    <2>1. G = F
        BY <1>5, <1>6, <1>9
    <2> HIDE DEF gs
    <2>2. Filled(gs, o) = Filled(fs, o)
        BY <1>3, <1>4, <1>7, <2>1
    <2> QED BY <1>3, <1>7, <1>9, <2>2 DEF gs
<1> QED BY <1>8, <1>9

\* What one more fill adds to the shares of a symbol that were bought or sold.
LEMMA TradedAppended ==
    ASSUME NEW fs \in Seq(Fill), NEW fill \in Fill, NEW s, NEW side
    PROVE  /\ Traded(fs, s, side) \in Int
           /\ orders[fill.order].symbol = s /\ orders[fill.order].side = side =>
                 Traded(Append(fs, fill), s, side) = Traded(fs, s, side) + fill.quantity
           /\ ~(orders[fill.order].symbol = s /\ orders[fill.order].side = side) =>
                 Traded(Append(fs, fill), s, side) = Traded(fs, s, side)
<1> DEFINE K == {x \in Fill : orders[x.order].symbol = s /\ orders[x.order].side = side}
           F == {f \in DOMAIN fs : fs[f] \in K}
           gs == Append(fs, fill)
           G == {f \in DOMAIN gs : gs[f] \in K}
<1>0. gs \in Seq(Fill)
    OBVIOUS
<1>1. \A f \in DOMAIN fs : fs[f] \in Fill
    OBVIOUS
<1>2. \A f \in DOMAIN gs : gs[f] \in Fill
    <2> HIDE DEF gs
    <2> QED BY <1>0
<1>3. Traded(fs, s, side) = SharesIn(fs, F)
    <2>1. F = {f \in DOMAIN fs : orders[fs[f].order].symbol = s /\ orders[fs[f].order].side = side}
        BY <1>1
    <2> QED BY <2>1 DEF Traded
<1>4. Traded(gs, s, side) = SharesIn(gs, G)
    <2>1. G = {f \in DOMAIN gs : orders[gs[f].order].symbol = s /\ orders[gs[f].order].side = side}
        BY <1>2
    <2> QED BY <2>1 DEF Traded
<1>5. G = F \cup (IF fill \in K THEN {Len(fs) + 1} ELSE {})
    <2> HIDE DEF K
    <2> QED BY ChosenAppended
<1> DEFINE fits == orders[fill.order].symbol = s /\ orders[fill.order].side = side
<1>6. F \in SUBSET DOMAIN fs /\ (fill \in K <=> fits) /\ fill.quantity \in Int
    BY DEF Fill
<1> HIDE DEF K, F, G, fits
<1>7. /\ SharesIn(fs, F) \in Int
      /\ SharesIn(gs, F) = SharesIn(fs, F)
      /\ SharesIn(gs, F \cup {Len(fs) + 1}) = fill.quantity + SharesIn(fs, F)
    BY <1>6, SharesAppended
<1>8. CASE fits
    <2>1. G = F \cup {Len(fs) + 1}
        BY <1>5, <1>6, <1>8
    <2> HIDE DEF gs
    <2>2. Traded(gs, s, side) = fill.quantity + Traded(fs, s, side)
        BY <1>3, <1>4, <1>7, <2>1
    <2>3. Traded(gs, s, side) = Traded(fs, s, side) + fill.quantity
        BY <1>3, <1>6, <1>7, <2>2
    <2> QED BY <1>3, <1>7, <1>8, <2>3 DEF gs, fits
<1>9. CASE ~fits
    <2>1. G = F
        BY <1>5, <1>6, <1>9
    <2> HIDE DEF gs
    <2>2. Traded(gs, s, side) = Traded(fs, s, side)
        BY <1>3, <1>4, <1>7, <2>1
    <2> QED BY <1>3, <1>7, <1>9, <2>2 DEF gs, fits
<1> QED BY <1>8, <1>9

LEMMA CashAppended ==
    ASSUME NEW fs \in Seq(Fill), NEW fill \in Fill
    PROVE  /\ Cash(fs) \in Int
           /\ Cash(Append(fs, fill)) = Cash(fs) + fill.cash
<1> DEFINE n == Len(fs) + 1
           gs == Append(fs, fill)
           F == DOMAIN fs
           G == DOMAIN gs
<1>1. /\ DOMAIN fs = 1..Len(fs) /\ Len(fs) \in Nat
      /\ DOMAIN gs = 1..n
      /\ \A f \in DOMAIN fs : gs[f] = fs[f]
      /\ gs[n] = fill
    BY TypedSequence, Appended
<1>2. fill.cash \in Int /\ \A f \in F : fs[f].cash \in Int
    <2>1. \A f \in DOMAIN fs : fs[f] \in Fill
        OBVIOUS
    <2> QED BY <2>1 DEF Fill
<1>3. IsFiniteSet(F) /\ IsFiniteSet(G) /\ n \in G /\ G \ {n} = F
    <2>1. IsFiniteSet(1..Len(fs)) /\ IsFiniteSet(1..n)
        BY <1>1, FS_Interval
    <2>2. n \in 1..n /\ (1..n) \ {n} = 1..Len(fs)
        BY <1>1
    <2> QED BY <1>1, <2>1, <2>2
<1>4. \A f \in G : gs[f].cash \in Int
    <2>1. G = F \cup {n}
        BY <1>3
    <2> QED BY <1>1, <1>2, <2>1
<1>5. \A f \in F : fs[f].cash \in Int /\ gs[f].cash = fs[f].cash
    BY <1>1, <1>2
<1>6. Cash(fs) = StartingCash + CashIn(fs, F) /\ Cash(gs) = StartingCash + CashIn(gs, G)
    BY DEF Cash, CashIn
<1> HIDE DEF n, gs, F, G
<1>7. CashIn(fs, F) \in Int
    BY <1>3, <1>5, CashLaws
<1>8. CashIn(gs, F) = CashIn(fs, F)
    BY <1>3, <1>5, CashSame
<1>9. CashIn(gs, G) = gs[n].cash + CashIn(gs, G \ {n})
    BY <1>3, <1>4, CashLaws
<1>10. CashIn(gs, G) = fill.cash + CashIn(fs, F)
    BY <1>1, <1>3, <1>8, <1>9
<1>11. StartingCash \in Int
    BY PaperAssumption
<1>12. Cash(fs) \in Int /\ Cash(gs) = Cash(fs) + fill.cash
    BY <1>2, <1>6, <1>7, <1>10, <1>11
<1> QED BY <1>12 DEF gs

-----------------------------------------------------------------------------
(* The account.  Its inductive invariant speaks of bars, signals, orders and *)
(* fills only.                                                               *)

AccountTyped ==
    /\ bars \in Seq(Bar) /\ signals \in Seq(Signal)
    /\ orders \in Seq(Order) /\ fills \in Seq(Fill)
    /\ \A b \in DOMAIN bars : Slip < bars[b].open

\* The orders of a symbol come one after the other: the next one is placed
\* when the one before it is filled, and is filled from later bars.
TurnsInv ==
    /\ \A f \in DOMAIN fills : bars[fills[f].bar].symbol = orders[fills[f].order].symbol
    /\ \A o \in DOMAIN orders : Filled(fills, o) <= orders[o].quantity
    /\ \A o, p \in DOMAIN orders : o < p /\ orders[o].symbol = orders[p].symbol =>
          /\ ~IsOpen(o)
          /\ \A f \in DOMAIN fills :
                fills[f].order = o => fills[f].bar <= signals[orders[p].signal].cutoff
    /\ OneFillPerBar

\* What a symbol will hold is what its newest signal asked for.
TargetsInv ==
    \A s \in {signals[i].symbol : i \in DOMAIN signals} :
        Projected(s) = signals[NewestSignal(s)].target

AccountInv == AccountTyped /\ TurnsInv /\ TargetsInv /\ AccountIsSolvent

LEMMA LeastOfThree ==
    ASSUME NEW i \in Int, NEW j \in Int, NEW k \in Int
    PROVE  /\ Min({i, j, k}) \in Int
           /\ Min({i, j, k}) <= i /\ Min({i, j, k}) <= j /\ Min({i, j, k}) <= k
<1>1. \E m \in {i, j, k} : m <= i /\ m <= j /\ m <= k
    <2>1. CASE i <= j /\ i <= k
        BY <2>1
    <2>2. CASE j <= i /\ j <= k
        BY <2>2
    <2>3. CASE k <= i /\ k <= j
        BY <2>3
    <2> QED BY <2>1, <2>2, <2>3
<1>2. \E m \in {i, j, k} : \A n \in {i, j, k} : m <= n
    BY <1>1
<1> QED BY <1>2 DEF Min

LEMMA DivisionRoundsDown ==
    ASSUME NEW a \in Nat, NEW price \in Nat, price # 0, NEW q \in Nat, q <= a \div price
    PROVE  q * price <= a
<1>1. PICK d : d = a \div price
    OBVIOUS
<1>2. d \in Nat /\ price * d <= a
    BY <1>1
<1>3. q * price <= price * d
    BY <1>1, <1>2
<1>4. q * price \in Int /\ price * d \in Int
    BY <1>2
<1> QED BY ONLY <1>2, <1>3, <1>4, a \in Nat

\* The fill that is made is within the order, and within what the account has.
LEMMA FillMade ==
    ASSUME AccountTyped, AccountIsSolvent, NEW o \in DOMAIN orders, NEW close, NEW token \in Nat,
           orders[o].symbol \in Symbol, FillOrder(o, close, token)
    PROVE  \E fill \in Fill :
              /\ fills' = Append(fills, fill)
              /\ fill.order = o /\ IsOpen(o)
              /\ fill.bar \in FillBars(o) /\ fill.bar \notin UsedBars(fills, o)
              /\ Filled(fills, o) + fill.quantity <= orders[o].quantity
              /\ Cash(fills) + fill.cash >= 0
              /\ orders[o].side = "SELL" => fill.quantity <= Position(fills, orders[o].symbol)
<1> DEFINE B == BarsThrough(o, close)
           C == Candidates(fills, o, B)
           b == Min(C)
           q == FillQuantity(fills, o, b)
           s == orders[o].symbol
           price == Price(o, b)
           cash == CashDelta(o, b, q)
           fill == FillAt(fills, o, B, token)
<1>1. /\ IsOpen(o) /\ C # {} /\ fills' = Append(fills, fill) /\ IsPayable(fill)
    BY DEF FillOrder, CanFill
<1>2. fill = [order |-> o, bar |-> b, quantity |-> q, cash |-> cash, fence |-> token]
    BY DEF FillAt, Choice
<1>3. /\ fill.order = o /\ fill.bar = b /\ fill.quantity = q /\ fill.cash = cash
    BY <1>2
<1>4. C \subseteq FillBars(o) /\ FillBars(o) \subseteq DOMAIN bars /\ DOMAIN bars \subseteq Nat
    BY TypedSequence DEF Candidates, BarsThrough, FillBars, Series, AccountTyped
<1>5. b \in C
    <2> HIDE DEF C
    <2> QED BY <1>1, <1>4, MinOf
<1>6. b \in DOMAIN bars /\ b \in Nat /\ b \in FillBars(o) /\ b \notin UsedBars(fills, o) /\ q > 0
    BY <1>4, <1>5 DEF Candidates
<1>7. /\ orders[o].side \in Side /\ orders[o].quantity \in Nat /\ o \in Nat
      /\ bars[b].open \in Nat /\ bars[b].capacity \in Nat /\ Slip < bars[b].open
    <2>1. orders[o] \in Order /\ bars[b] \in Bar /\ Slip < bars[b].open
        BY <1>6 DEF AccountTyped
    <2>2. o \in Nat
        BY TypedSequence DEF AccountTyped
    <2> QED BY <2>1, <2>2 DEF Order, Bar
<1>8. {Slip, Fee, Tax} \subseteq Nat
    BY PaperAssumption
<1>9. price \in Nat /\ price # 0
    BY <1>7, <1>8 DEF Price
<1>10. /\ Consumed(fills, b) \in Int /\ Filled(fills, o) \in Int
       /\ Position(fills, s) \in Int /\ Cash(fills) \in Int
    <2>1. DOMAIN fills = 1..Len(fills) /\ Len(fills) \in Nat /\ \A f \in DOMAIN fills : fills[f] \in Fill
        BY TypedSequence DEF AccountTyped
    <2>2. PICK any : any \in Fill
        <3>1. [order |-> 0, bar |-> 0, quantity |-> 1, cash |-> 0, fence |-> 0] \in Fill
            BY DEF Fill
        <3> QED BY <3>1
    <2>3. fills \in Seq(Fill)
        BY DEF AccountTyped
    <2>4. {f \in DOMAIN fills : fills[f].bar = b} \in SUBSET DOMAIN fills
        OBVIOUS
    <2>5. Consumed(fills, b) \in Int
        BY <2>2, <2>3, <2>4, SharesAppended DEF Consumed
    <2>6. Filled(fills, o) \in Int /\ Cash(fills) \in Int
        BY <2>2, <2>3, FilledAppended, CashAppended
    <2>7. Traded(fills, s, "BUY") \in Int /\ Traded(fills, s, "SELL") \in Int
        BY <2>2, <2>3, TradedAppended
    <2> QED BY <2>5, <2>6, <2>7 DEF Position
<1>11. Cash(fills) >= 0 /\ Position(fills, s) >= 0
    BY DEF AccountIsSolvent
<1> DEFINE most == IF orders[o].side = "BUY" THEN Affordable(Cash(fills), price)
                                             ELSE Position(fills, s)
<1>12. Affordable(Cash(fills), price) \in Int
    <2>1. Cash(fills) >= Fee => (Cash(fills) - Fee) \div price \in Int
        <3>1. Cash(fills) - Fee \in Int
            BY <1>8, <1>10
        <3> HIDE DEF price
        <3> QED BY <1>9, <3>1
    <2> HIDE DEF price
    <2> QED BY <1>8, <1>10, <2>1 DEF Affordable
<1>13. most \in Int
    BY <1>10, <1>12
<1>14. q \in Int /\ q <= orders[o].quantity - Filled(fills, o) /\ q <= most
    <2>1. q = Min({bars[b].capacity - Consumed(fills, b), orders[o].quantity - Filled(fills, o), most})
        BY DEF FillQuantity
    <2>2. bars[b].capacity - Consumed(fills, b) \in Int /\ orders[o].quantity - Filled(fills, o) \in Int
        BY <1>7, <1>10
    <2> HIDE DEF q, most, b
    <2> QED BY <1>13, <2>1, <2>2, LeastOfThree
<1> HIDE DEF fill, q, b, C, B
<1>15. q \in Nat \ {0}
    BY <1>6, <1>14
<1>16. q * price \in Nat /\ q * Tax \in Nat
    <2> HIDE DEF price
    <2> QED BY <1>8, <1>9, <1>15
<1>17. cash \in Int
    <2> HIDE DEF price
    <2>1. cash = (IF orders[o].side = "BUY" THEN -(q * price + Fee) ELSE q * price - Fee - q * Tax)
        BY DEF CashDelta, price
    <2> QED BY <1>8, <1>16, <2>1
<1>18. fill \in Fill
    BY <1>2, <1>6, <1>7, <1>15, <1>17 DEF Fill
<1>19. Filled(fills, o) + q <= orders[o].quantity
    BY <1>7, <1>10, <1>14
<1>20. orders[o].side = "SELL" => q <= Position(fills, s)
    <2>1. orders[o].side = "SELL" => most = Position(fills, s)
        OBVIOUS
    <2> QED BY <1>14, <2>1
<1>21. Cash(fills) + cash >= 0
    <2>1. CASE orders[o].side = "SELL"
        <3>1. cash >= 0
            BY <1>1, <1>3, <2>1 DEF IsPayable
        <3> HIDE DEF cash
        <3> QED BY <1>10, <1>11, <1>17, <3>1
    <2>2. CASE orders[o].side = "BUY"
        <3>1. q <= Affordable(Cash(fills), price)
            BY <1>14, <2>2
        <3>2. cash = -(q * price + Fee)
            BY <2>2 DEF CashDelta
        <3> HIDE DEF price, cash, most
        <3>3. Cash(fills) >= Fee
            BY <1>8, <1>10, <1>15, <3>1 DEF Affordable
        <3>4. q <= (Cash(fills) - Fee) \div price /\ Cash(fills) - Fee \in Nat
            BY <1>8, <1>10, <3>1, <3>3 DEF Affordable
        <3>5. q * price <= Cash(fills) - Fee
            BY <1>9, <1>15, <3>4, DivisionRoundsDown
        <3> QED BY <1>8, <1>10, <1>16, <3>2, <3>5
    <2> QED BY <1>7, <2>1, <2>2 DEF Side
<1> QED BY <1>1, <1>3, <1>6, <1>18, <1>19, <1>20, <1>21

\* What order o still has to trade.
Missing(o) == (IF orders[o].side = "BUY" THEN 1 ELSE -1) * (orders[o].quantity - Filled(fills, o))

\* A symbol has one open order at most, and that order alone lies between what
\* the symbol holds and what it will hold.
ProjectionIs ==
    \A s : /\ Position(fills, s) \in Int
           /\ \A o \in OpenOrders(s) : OpenOrders(s) = {o}
           /\ OpenOrders(s) = {} => Projected(s) = Position(fills, s)
           /\ \A o \in OpenOrders(s) : Missing(o) \in Int /\ Projected(s) = Position(fills, s) + Missing(o)

LEMMA AccountNumbers ==
    ASSUME AccountTyped
    PROVE  /\ Cash(fills) \in Int
           /\ \A s : Position(fills, s) \in Int
           /\ \A o : Filled(fills, o) \in Int
           /\ \A o \in DOMAIN orders :
                 /\ orders[o].quantity \in Nat \ {0} /\ orders[o].side \in Side
                 /\ orders[o].signal \in Nat /\ o \in Nat
                 /\ Missing(o) \in Int
<1>1. PICK any : any \in Fill
    <2>1. [order |-> 0, bar |-> 0, quantity |-> 1, cash |-> 0, fence |-> 0] \in Fill
        BY DEF Fill
    <2> QED BY <2>1
<1>2. fills \in Seq(Fill)
    BY DEF AccountTyped
<1>3. Cash(fills) \in Int
    BY <1>1, <1>2, CashAppended
<1>4. ASSUME NEW o PROVE Filled(fills, o) \in Int
    BY <1>1, <1>2, FilledAppended
<1>5. ASSUME NEW s PROVE Position(fills, s) \in Int
    <2>1. Traded(fills, s, "BUY") \in Int /\ Traded(fills, s, "SELL") \in Int
        BY <1>1, <1>2, TradedAppended
    <2> QED BY <2>1 DEF Position
<1>6. ASSUME NEW o \in DOMAIN orders
      PROVE  /\ orders[o].quantity \in Nat \ {0} /\ orders[o].side \in Side
             /\ orders[o].signal \in Nat /\ o \in Nat
             /\ Missing(o) \in Int
    <2>1. orders[o] \in Order /\ o \in Nat
        BY TypedSequence DEF AccountTyped
    <2>2. /\ orders[o].quantity \in Nat \ {0} /\ orders[o].side \in Side
          /\ orders[o].signal \in Nat
        BY <2>1 DEF Order
    <2> QED BY <1>4, <2>1, <2>2 DEF Missing
<1> QED BY <1>3, <1>4, <1>5, <1>6

LEMMA Projection == AccountTyped /\ TurnsInv => ProjectionIs
<1> SUFFICES ASSUME AccountTyped, TurnsInv, NEW s
             PROVE  /\ Position(fills, s) \in Int
                    /\ \A o \in OpenOrders(s) : OpenOrders(s) = {o}
                    /\ OpenOrders(s) = {} => Projected(s) = Position(fills, s)
                    /\ \A o \in OpenOrders(s) :
                          Missing(o) \in Int /\ Projected(s) = Position(fills, s) + Missing(o)
    BY DEF ProjectionIs
<1>1. Position(fills, s) \in Int
    BY AccountNumbers
<1>2. OpenOrders(s) \subseteq DOMAIN orders /\ \A o \in OpenOrders(s) : IsOpen(o) /\ orders[o].symbol = s
    BY DEF OpenOrders
<1>3. ASSUME NEW o \in OpenOrders(s), NEW p \in OpenOrders(s) PROVE o = p
    <2>1. o \in Nat /\ p \in Nat
        BY <1>2, AccountNumbers
    <2>2. ~(o < p) /\ ~(p < o)
        BY <1>2 DEF TurnsInv
    <2> QED BY <2>1, <2>2
<1> DEFINE Follows(it, O) ==
              it = [T \in SUBSET O |-> IF T = {} THEN 0 ELSE Missing(Picked(T)) + it[T \ {Picked(T)}]]
           left == CHOOSE it : Follows(it, OpenOrders(s))
<1>4. Projected(s) = Position(fills, s) + left[OpenOrders(s)]
    BY DEF Projected, Missing, MapThenSumSet, MapThenFoldSet, Picked
<1>5. ASSUME OpenOrders(s) = {} PROVE Projected(s) = Position(fills, s)
    <2> DEFINE zero == [T \in SUBSET {} |-> 0]
    <2>1. zero = [T \in SUBSET {} |->
                     IF T = {} THEN 0 ELSE Missing(Picked(T)) + zero[T \ {Picked(T)}]]
        OBVIOUS
    <2>2. \E it : Follows(it, OpenOrders(s))
        BY <1>5, <2>1
    <2>3. Follows(left, OpenOrders(s))
        <3> HIDE DEF Follows
        <3> QED BY <2>2
    <2> HIDE DEF left
    <2>4. left[OpenOrders(s)] = 0
        BY <1>5, <2>3
    <2> QED BY <1>1, <1>4, <2>4
<1>6. ASSUME NEW o \in OpenOrders(s)
      PROVE  OpenOrders(s) = {o} /\ Missing(o) \in Int /\ Projected(s) = Position(fills, s) + Missing(o)
    <2>1. OpenOrders(s) = {o}
        BY <1>3
    <2>2. Missing(o) \in Int
        BY <1>2, AccountNumbers
    <2>3. \A T \in SUBSET {o} : T = {} \/ (T = {o} /\ Picked(T) = o /\ T \ {Picked(T)} = {})
        BY DEF Picked
    <2> DEFINE one == [T \in SUBSET {o} |-> IF T = {} THEN 0 ELSE Missing(o)]
               O == OpenOrders(s)
    <2>4. \A T \in SUBSET {o} :
             one[T] = IF T = {} THEN 0 ELSE Missing(Picked(T)) + one[T \ {Picked(T)}]
        <3>1. one[{}] = 0 /\ one[{o}] = Missing(o) + 0
            BY <2>2
        <3> HIDE DEF one
        <3> QED BY <2>2, <2>3, <3>1
    <2>5. one = [T \in SUBSET {o} |-> one[T]]
        OBVIOUS
    <2>6. one = [T \in SUBSET {o} |->
                    IF T = {} THEN 0 ELSE Missing(Picked(T)) + one[T \ {Picked(T)}]]
        <3> HIDE DEF one
        <3> QED BY <2>4, <2>5
    <2>7. Follows(one, O)
        <3> HIDE DEF one
        <3> QED BY <2>1, <2>6
    <2>8. Follows(left, O)
        <3> HIDE DEF Follows
        <3> QED BY <2>7
    <2> HIDE DEF left
    <2>9. left[{o}] = Missing(o) + left[{}] /\ left[{}] = 0
        <3>1. left = [T \in SUBSET {o} |->
                         IF T = {} THEN 0 ELSE Missing(Picked(T)) + left[T \ {Picked(T)}]]
            BY <2>1, <2>8
        <3>2. \A T \in SUBSET {o} :
                 left[T] = IF T = {} THEN 0 ELSE Missing(Picked(T)) + left[T \ {Picked(T)}]
            BY ONLY <3>1
        <3>3. {} \in SUBSET {o} /\ {o} \in SUBSET {o} /\ {o} # {}
            OBVIOUS
        <3>4. Picked({o}) = o /\ {o} \ {o} = {}
            BY DEF Picked
        <3> QED BY ONLY <3>2, <3>3, <3>4
    <2>10. left[OpenOrders(s)] = Missing(o)
        BY <2>1, <2>2, <2>9
    <2> QED BY <1>4, <2>1, <2>2, <2>10
<1> QED BY <1>1, <1>5, <1>6

\* What a fill does to the sums of its account.
LEMMA FillMoves ==
    ASSUME AccountTyped, NEW fill \in Fill, fills' = Append(fills, fill), UNCHANGED orders,
           NEW o, o = fill.order, NEW s, s = orders[o].symbol
    PROVE  /\ \A p : p # o => Filled(fills, p)' = Filled(fills, p)
           /\ Filled(fills, o)' = Filled(fills, o) + fill.quantity
           /\ Cash(fills)' = Cash(fills) + fill.cash
           /\ \A t : t # s => Position(fills, t)' = Position(fills, t)
           /\ orders[o].side = "BUY" => Position(fills, s)' = Position(fills, s) + fill.quantity
           /\ orders[o].side = "SELL" => Position(fills, s)' = Position(fills, s) - fill.quantity
<1> DEFINE gs == Append(fills, fill)
<1>1. fills \in Seq(Fill) /\ fill.quantity \in Int
    BY DEF AccountTyped, Fill
<1>2. ASSUME NEW p PROVE Filled(fills, p)' = Filled(gs, p)
    OBVIOUS
<1>3. Cash(fills)' = Cash(gs)
    OBVIOUS
<1>4. ASSUME NEW t PROVE Position(fills, t)' = Position(gs, t)
    BY DEF Position, Traded
<1>5. ASSUME NEW p, p # o PROVE Filled(gs, p) = Filled(fills, p)
    BY <1>1, <1>5, FilledAppended
<1>6. Filled(gs, o) = Filled(fills, o) + fill.quantity
    BY <1>1, FilledAppended
<1>7. Cash(gs) = Cash(fills) + fill.cash
    BY <1>1, CashAppended
<1> DEFINE fits(t, side) == orders[o].symbol = t /\ orders[o].side = side
<1>8. ASSUME NEW t, NEW side
      PROVE  /\ Traded(fills, t, side) \in Int
             /\ fits(t, side) => Traded(gs, t, side) = Traded(fills, t, side) + fill.quantity
             /\ ~fits(t, side) => Traded(gs, t, side) = Traded(fills, t, side)
    BY <1>1, TradedAppended
<1> HIDE DEF gs
<1>9. ASSUME NEW t, t # s PROVE Position(gs, t) = Position(fills, t)
    BY <1>8, <1>9 DEF Position
<1>10. ASSUME orders[o].side = "BUY" PROVE Position(gs, s) = Position(fills, s) + fill.quantity
    <2>1. /\ Traded(gs, s, "BUY") = Traded(fills, s, "BUY") + fill.quantity
          /\ Traded(gs, s, "SELL") = Traded(fills, s, "SELL")
        BY <1>8, <1>10
    <2>2. Traded(fills, s, "BUY") \in Int /\ Traded(fills, s, "SELL") \in Int
        BY <1>8
    <2> QED BY ONLY <1>1, <2>1, <2>2 DEF Position
<1>11. ASSUME orders[o].side = "SELL" PROVE Position(gs, s) = Position(fills, s) - fill.quantity
    <2>1. /\ Traded(gs, s, "SELL") = Traded(fills, s, "SELL") + fill.quantity
          /\ Traded(gs, s, "BUY") = Traded(fills, s, "BUY")
        BY <1>8, <1>11
    <2>2. Traded(fills, s, "BUY") \in Int /\ Traded(fills, s, "SELL") \in Int
        BY <1>8
    <2> QED BY ONLY <1>1, <2>1, <2>2 DEF Position
<1> QED BY <1>2, <1>3, <1>4, <1>5, <1>6, <1>7, <1>9, <1>10, <1>11

\* A fill leaves the turns of the orders as they are, and takes a bar that no
\* fill has taken: an earlier order of the symbol had to stop before it, and a
\* later one there is none while this one is open.
LEMMA FillKeepsTurns ==
    ASSUME AccountTyped, TurnsInv, OrdersInv, NEW fill \in Fill, fills' = Append(fills, fill),
           UNCHANGED <<bars, signals, orders>>,
           NEW o \in DOMAIN orders, o = fill.order, IsOpen(o),
           fill.bar \in FillBars(o), fill.bar \notin UsedBars(fills, o),
           Filled(fills, o) + fill.quantity <= orders[o].quantity
    PROVE  TurnsInv'
<1> DEFINE n == Len(fills) + 1
<1>1. /\ DOMAIN fills' = DOMAIN fills \cup {n}
      /\ \A f \in DOMAIN fills : fills'[f] = fills[f]
      /\ fills'[n] = fill
    <2>1. fills \in Seq(Fill) /\ IsSequence(fills)
        BY TypedSequence DEF AccountTyped
    <2>2. /\ DOMAIN fills = 1..Len(fills) /\ Len(fills) \in Nat
          /\ DOMAIN fills' = 1..n
          /\ \A f \in DOMAIN fills : fills'[f] = fills[f]
          /\ fills'[n] = fill
        BY <2>1, Appended
    <2> QED BY <2>2
<1> HIDE DEF n
<1>2. /\ \A p : p # o => Filled(fills, p)' = Filled(fills, p)
      /\ Filled(fills, o)' = Filled(fills, o) + fill.quantity
    <2>1. PICK s : s = orders[o].symbol
        OBVIOUS
    <2> QED BY <2>1, FillMoves
<1>3. /\ bars[fill.bar].symbol = orders[o].symbol
      /\ fill.bar > signals[orders[o].signal].cutoff
      /\ fill.bar \in Nat
    <2>1. fill.bar \in Nat
        BY DEF Fill
    <2> QED BY <2>1 DEF FillBars, Series
<1>4. \A f \in DOMAIN fills' : bars'[fills'[f].bar].symbol = orders'[fills'[f].order].symbol
    BY <1>1, <1>3 DEF TurnsInv
<1>5. \A p \in DOMAIN orders : Filled(fills, p)' <= orders[p].quantity
    BY <1>2 DEF TurnsInv
<1>6. ASSUME NEW p \in DOMAIN orders, NEW r \in DOMAIN orders, p < r, orders[p].symbol = orders[r].symbol
      PROVE  /\ ~IsOpen(p)'
             /\ \A f \in DOMAIN fills' :
                   fills'[f].order = p => fills'[f].bar <= signals[orders[r].signal].cutoff
    <2>1. /\ ~IsOpen(p)
          /\ \A f \in DOMAIN fills :
                fills[f].order = p => fills[f].bar <= signals[orders[r].signal].cutoff
        BY <1>6 DEF TurnsInv
    <2>2. p # o
        BY <2>1
    <2>3. ~IsOpen(p)'
        BY <1>2, <2>1, <2>2 DEF IsOpen
    <2> QED BY <1>1, <2>1, <2>2, <2>3
<1>7. ASSUME NEW f \in DOMAIN fills, fills[f].bar = fill.bar PROVE FALSE
    <2>1. PICK p : p = fills[f].order
        OBVIOUS
    <2>2. p \in DOMAIN orders /\ orders[p].symbol = orders[o].symbol
        BY <1>3, <1>7, <2>1 DEF TurnsInv, OrdersInv
    <2>3. p # o
        BY <1>7, <2>1 DEF UsedBars
    <2>4. ~(o < p)
        BY <2>2 DEF TurnsInv
    <2>5. ~(p < o)
        <3>1. SUFFICES ASSUME p < o PROVE FALSE
            OBVIOUS
        <3>2. fill.bar <= signals[orders[o].signal].cutoff
            BY <1>7, <2>1, <2>2, <3>1 DEF TurnsInv
        <3>3. signals[orders[o].signal].cutoff \in Nat
            <4>1. orders[o].signal \in DOMAIN signals /\ signals \in Seq(Signal)
                BY DEF OrdersInv, AccountTyped
            <4>2. signals[orders[o].signal] \in Signal
                BY ONLY <4>1
            <4> QED BY ONLY <4>2 DEF Signal
        <3> QED BY ONLY <1>3, <3>2, <3>3
    <2>6. p \in Nat /\ o \in Nat
        BY <2>2, AccountNumbers
    <2> QED BY ONLY <2>3, <2>4, <2>5, <2>6
<1>8. OneFillPerBar'
    <2> SUFFICES ASSUME NEW f \in DOMAIN fills \cup {n}, NEW g \in DOMAIN fills \cup {n},
                        fills'[f].bar = fills'[g].bar
                 PROVE  f = g
        BY <1>1 DEF OneFillPerBar
    <2>1. CASE f \in DOMAIN fills /\ g \in DOMAIN fills
        BY <1>1, <2>1 DEF TurnsInv, OneFillPerBar
    <2>2. CASE f = n /\ g \in DOMAIN fills
        BY <1>1, <1>7, <2>2
    <2>3. CASE f \in DOMAIN fills /\ g = n
        BY <1>1, <1>7, <2>3
    <2> QED BY <2>1, <2>2, <2>3
<1> QED BY <1>4, <1>5, <1>6, <1>8 DEF TurnsInv

LEMMA ProjectionSame ==
    ASSUME ProjectionIs, ProjectionIs', NEW t, OpenOrders(t)' = OpenOrders(t),
           \A o \in OpenOrders(t) : Missing(o)' = Missing(o),
           Position(fills, t)' = Position(fills, t)
    PROVE  Projected(t)' = Projected(t)
<1>1. CASE OpenOrders(t) = {}
    BY <1>1 DEF ProjectionIs
<1>2. ASSUME NEW o \in OpenOrders(t) PROVE Projected(t)' = Projected(t)
    BY <1>2 DEF ProjectionIs
<1> QED BY <1>1, <1>2

\* A fill moves what a symbol holds by as much as it takes off the open order,
\* so that what the symbol will hold stays the same.
LEMMA FillKeepsProjection ==
    ASSUME AccountTyped, TurnsInv, ProjectionIs, ProjectionIs', NEW fill \in Fill,
           fills' = Append(fills, fill), UNCHANGED <<bars, signals, orders>>,
           NEW o \in DOMAIN orders, o = fill.order, IsOpen(o),
           Filled(fills, o) + fill.quantity <= orders[o].quantity,
           NEW t
    PROVE  Projected(t)' = Projected(t)
<1>1. PICK s : s = orders[o].symbol
    OBVIOUS
<1>2. /\ \A p : p # o => Filled(fills, p)' = Filled(fills, p)
      /\ Filled(fills, o)' = Filled(fills, o) + fill.quantity
      /\ \A u : u # s => Position(fills, u)' = Position(fills, u)
      /\ orders[o].side = "BUY" => Position(fills, s)' = Position(fills, s) + fill.quantity
      /\ orders[o].side = "SELL" => Position(fills, s)' = Position(fills, s) - fill.quantity
    BY <1>1, FillMoves
<1>3. \A p : p # o => (IsOpen(p)' <=> IsOpen(p)) /\ Missing(p)' = Missing(p)
    BY <1>2 DEF IsOpen, Missing
<1>4. ASSUME t # s PROVE Projected(t)' = Projected(t)
    <2>1. OpenOrders(t)' = OpenOrders(t) /\ \A p \in OpenOrders(t) : Missing(p)' = Missing(p)
        BY <1>1, <1>3, <1>4 DEF OpenOrders
    <2>2. Position(fills, t)' = Position(fills, t)
        BY <1>2, <1>4
    <2> QED BY <2>1, <2>2, ProjectionSame
<1>5. ASSUME t = s PROVE Projected(s)' = Projected(s)
    <2>1. o \in OpenOrders(s)
        BY <1>1 DEF OpenOrders
    <2>2. Projected(s) = Position(fills, s) + Missing(o) /\ OpenOrders(s) = {o}
        BY <2>1 DEF ProjectionIs
    <2>3. /\ Position(fills, s) \in Int /\ Filled(fills, o) \in Int
          /\ orders[o].quantity \in Nat /\ orders[o].side \in Side
          /\ fill.quantity \in Nat
        BY AccountNumbers DEF Fill
    <2>4. Missing(o) = IF orders[o].side = "BUY" THEN orders[o].quantity - Filled(fills, o)
                       ELSE Filled(fills, o) - orders[o].quantity
        BY <2>3 DEF Missing
    <2>5. Missing(o)' = IF orders[o].side = "BUY"
                        THEN orders[o].quantity - (Filled(fills, o) + fill.quantity)
                        ELSE (Filled(fills, o) + fill.quantity) - orders[o].quantity
        BY <1>2, <2>3 DEF Missing
    <2>6. Position(fills, s)' + Missing(o)' = Position(fills, s) + Missing(o)
        BY <1>2, <2>3, <2>4, <2>5 DEF Side
    <2>7. \A p \in OpenOrders(s)' : p = o
        BY <1>3, <2>2 DEF OpenOrders
    <2>8. CASE o \in OpenOrders(s)'
        <3>1. Projected(s)' = Position(fills, s)' + Missing(o)'
            BY <2>8 DEF ProjectionIs
        <3> QED BY <2>2, <2>6, <3>1
    <2>9. CASE o \notin OpenOrders(s)'
        <3>1. OpenOrders(s)' = {}
            BY <2>7, <2>9
        <3>2. Projected(s)' = Position(fills, s)'
            BY <3>1 DEF ProjectionIs
        <3>3. ~IsOpen(o)'
            BY <1>1, <2>9 DEF OpenOrders
        <3>4. Filled(fills, o) + fill.quantity = orders[o].quantity
            BY <1>2, <2>3, <3>3 DEF IsOpen
        <3>5. Missing(o)' = 0
            BY <2>3, <2>5, <3>4
        <3>6. Position(fills, s)' \in Int
            BY DEF ProjectionIs
        <3> QED BY <2>2, <2>6, <3>2, <3>5, <3>6
    <2> QED BY <2>8, <2>9
<1> QED BY <1>4, <1>5

LEMMA ProjectionNext == AccountTyped' /\ TurnsInv' => ProjectionIs'
BY Projection, PTL

LEMMA FillKeepsAccount ==
    ASSUME AccountInv, OrdersInv, NEW o \in DOMAIN orders, NEW close, NEW token \in Nat,
           FillOrder(o, close, token)
    PROVE  AccountInv'
<1>1. AccountTyped /\ TurnsInv /\ TargetsInv /\ AccountIsSolvent
    BY DEF AccountInv
<1>2. PICK s : s = orders[o].symbol /\ s \in Symbol
    <2>1. orders[o] \in Order
        BY <1>1 DEF AccountTyped
    <2> QED BY <2>1 DEF Order
<1>3. UNCHANGED <<bars, signals, orders>>
    BY DEF FillOrder
<1>4. PICK fill \in Fill :
              /\ fills' = Append(fills, fill)
              /\ fill.order = o /\ IsOpen(o)
              /\ fill.bar \in FillBars(o) /\ fill.bar \notin UsedBars(fills, o)
              /\ Filled(fills, o) + fill.quantity <= orders[o].quantity
              /\ Cash(fills) + fill.cash >= 0
              /\ orders[o].side = "SELL" => fill.quantity <= Position(fills, s)
    BY <1>1, <1>2, FillMade
<1>5. AccountTyped'
    <2>1. Append(fills, fill) \in Seq(Fill)
        BY <1>1 DEF AccountTyped
    <2> QED BY <1>1, <1>3, <1>4, <2>1 DEF AccountTyped
<1>6. TurnsInv'
    BY <1>1, <1>3, <1>4, FillKeepsTurns
<1>7. ProjectionIs /\ ProjectionIs'
    BY <1>1, <1>5, <1>6, Projection, ProjectionNext
<1>8. \A t : Projected(t)' = Projected(t)
    BY <1>1, <1>3, <1>4, <1>7, FillKeepsProjection
<1>9. TargetsInv'
    <2>1. \A t : NewestSignal(t)' = NewestSignal(t)
        BY <1>3 DEF NewestSignal
    <2> QED BY <1>1, <1>3, <1>8, <2>1 DEF TargetsInv
<1>10. /\ Cash(fills)' = Cash(fills) + fill.cash
       /\ \A t : t # s => Position(fills, t)' = Position(fills, t)
       /\ orders[o].side = "BUY" => Position(fills, s)' = Position(fills, s) + fill.quantity
       /\ orders[o].side = "SELL" => Position(fills, s)' = Position(fills, s) - fill.quantity
    BY <1>1, <1>2, <1>3, <1>4, FillMoves
<1>11. AccountIsSolvent'
    <2>1. Cash(fills)' >= 0
        BY <1>4, <1>10
    <2>2. Position(fills, s)' >= 0
        <3>1. /\ Position(fills, s) \in Int /\ fill.quantity \in Nat
              /\ orders[o].side \in Side /\ Position(fills, s) >= 0
            BY <1>1, <1>2, AccountNumbers DEF Fill, AccountIsSolvent
        <3> QED BY <1>4, <1>10, <3>1 DEF Side
    <2>3. \A t \in Symbol : Position(fills, t)' >= 0
        BY <1>1, <1>10, <2>2 DEF AccountIsSolvent
    <2> QED BY <2>1, <2>3 DEF AccountIsSolvent
<1> QED BY <1>5, <1>6, <1>9, <1>11 DEF AccountInv

LEMMA MarketKeepsAccount ==
    ASSUME AccountInv, OrdersInv, NEW s \in Symbol, NEW kind \in BarKind, ImportBar(s, kind),
           BarsTyped', MarketGrows
    PROVE  AccountInv'
<1>1. AccountTyped /\ TurnsInv /\ TargetsInv /\ AccountIsSolvent
    BY DEF AccountInv
<1>2. UNCHANGED <<signals, orders, fills>>
    BY DEF ImportBar
<1>3. PICK bar : bars' = Append(bars, bar) /\ bar.open = kind.open
    BY DEF ImportBar
<1>4. /\ DOMAIN bars' = 1..(Len(bars) + 1)
      /\ DOMAIN bars = 1..Len(bars) /\ Len(bars) \in Nat
      /\ \A b \in DOMAIN bars : bars'[b] = bars[b]
      /\ bars'[Len(bars) + 1] = bar
    <2>1. IsSequence(bars)
        BY <1>1, TypedSequence DEF AccountTyped
    <2> QED BY <1>3, <2>1, Appended
<1>5. \A b \in DOMAIN bars' : Slip < bars'[b].open
    <2>1. Slip < kind.open
        BY PaperAssumption
    <2>2. \A b \in DOMAIN bars : Slip < bars[b].open
        BY <1>1 DEF AccountTyped
    <2>3. DOMAIN bars' = DOMAIN bars \cup {Len(bars) + 1}
        BY <1>4
    <2> QED BY <1>3, <1>4, <2>1, <2>2, <2>3
<1>6. AccountTyped'
    BY <1>1, <1>2, <1>5 DEF AccountTyped, BarsTyped
<1>7. /\ \A p : Filled(fills, p)' = Filled(fills, p) /\ (IsOpen(p)' <=> IsOpen(p))
      /\ Cash(fills)' = Cash(fills)
      /\ \A t : Position(fills, t)' = Position(fills, t)
    <2>1. \A p : Filled(fills, p)' = Filled(fills, p)
        BY <1>2
    <2>2. Cash(fills)' = Cash(fills)
        BY <1>2
    <2>3. \A t : Position(fills, t)' = Position(fills, t)
        BY <1>2 DEF Position, Traded
    <2> QED BY <1>2, <2>1, <2>2, <2>3 DEF IsOpen
<1>8. TurnsInv'
    <2>1. \A f \in DOMAIN fills : fills[f].bar \in DOMAIN bars
        BY DEF OrdersInv
    <2>2. \A f \in DOMAIN fills : bars'[fills[f].bar].symbol = orders[fills[f].order].symbol
        BY <1>1, <1>4, <2>1 DEF TurnsInv
    <2>3. OneFillPerBar'
        BY <1>1, <1>2 DEF TurnsInv, OneFillPerBar
    <2> QED BY <1>1, <1>2, <1>7, <2>2, <2>3 DEF TurnsInv
<1>9. TargetsInv'
    <2>1. ASSUME NEW t PROVE Projected(t)' = Projected(t)
        <3>1. ProjectionIs /\ ProjectionIs'
            BY <1>1, <1>6, <1>8, Projection, ProjectionNext
        <3>2. \A o : Missing(o)' = Missing(o)
            BY <1>2, <1>7 DEF Missing
        <3>3. OpenOrders(t)' = OpenOrders(t)
            BY <1>2, <1>7 DEF OpenOrders
        <3> QED BY <1>7, <3>1, <3>2, <3>3, ProjectionSame
    <2>2. \A t : NewestSignal(t)' = NewestSignal(t)
        BY <1>2 DEF NewestSignal
    <2> QED BY <1>1, <1>2, <2>1, <2>2 DEF TargetsInv
<1>10. AccountIsSolvent'
    BY <1>1, <1>7 DEF AccountIsSolvent
<1> QED BY <1>6, <1>8, <1>9, <1>10 DEF AccountInv

\* A new order changes nothing of what was traded before.
LEMMA OrdersKeepSums ==
    ASSUME OrdersInv, UNCHANGED fills, DOMAIN orders \subseteq DOMAIN orders',
           \A o \in DOMAIN orders : orders'[o] = orders[o]
    PROVE  /\ \A o : Filled(fills, o)' = Filled(fills, o)
           /\ Cash(fills)' = Cash(fills)
           /\ \A t : Position(fills, t)' = Position(fills, t)
           /\ \A o \in DOMAIN orders : (IsOpen(o)' <=> IsOpen(o)) /\ Missing(o)' = Missing(o)
<1>1. \A o : Filled(fills, o)' = Filled(fills, o)
    OBVIOUS
<1>2. Cash(fills)' = Cash(fills)
    OBVIOUS
<1>3. ASSUME NEW t PROVE Position(fills, t)' = Position(fills, t)
    <2>1. \A f \in DOMAIN fills : orders'[fills[f].order] = orders[fills[f].order]
        BY DEF OrdersInv
    <2>2. ASSUME NEW side PROVE Traded(fills, t, side)' = Traded(fills, t, side)
        <3>1. {f \in DOMAIN fills : orders'[fills[f].order].symbol = t /\ orders'[fills[f].order].side = side}
                = {f \in DOMAIN fills : orders[fills[f].order].symbol = t /\ orders[fills[f].order].side = side}
            BY <2>1
        <3> QED BY <3>1 DEF Traded
    <2> QED BY <2>2 DEF Position
<1>4. ASSUME NEW o \in DOMAIN orders PROVE (IsOpen(o)' <=> IsOpen(o)) /\ Missing(o)' = Missing(o)
    BY <1>1 DEF IsOpen, Missing
<1> QED BY <1>1, <1>2, <1>3, <1>4

\* The newest signal of a symbol is the one that was just recorded for it.
LEMMA NewestSignalMoves ==
    ASSUME signals \in Seq(Signal), NEW signal, signals' = Append(signals, signal)
    PROVE  /\ \A t : t # signal.symbol => NewestSignal(t)' = NewestSignal(t)
           /\ NewestSignal(signal.symbol)' = Len(signals) + 1
<1> DEFINE n == Len(signals) + 1
           M(t) == {i \in DOMAIN signals' : signals'[i].symbol = t}
<1>1. /\ DOMAIN signals = 1..Len(signals) /\ Len(signals) \in Nat
      /\ DOMAIN signals' = 1..n
      /\ \A i \in DOMAIN signals : signals'[i] = signals[i]
      /\ signals'[n] = signal
    BY TypedSequence, Appended
<1>2. n \in Nat /\ DOMAIN signals' = DOMAIN signals \cup {n}
    BY <1>1
<1>3. ASSUME NEW t, t # signal.symbol PROVE NewestSignal(t)' = NewestSignal(t)
    <2>1. M(t) = {i \in DOMAIN signals : signals[i].symbol = t}
        <3> HIDE DEF n
        <3> QED BY <1>1, <1>2, <1>3
    <2> QED BY <2>1 DEF NewestSignal
<1>4. NewestSignal(signal.symbol)' = n
    <2> DEFINE N == M(signal.symbol)
    <2>1. NewestSignal(signal.symbol)' = Max(N)
        BY DEF NewestSignal
    <2>2. n \in N /\ N \subseteq 1..n /\ N \subseteq 0..n
        BY <1>1
    <2> HIDE DEF N, n
    <2>3. Max(N) \in N /\ \A k \in N : k <= Max(N)
        BY <1>2, <2>2, MaxOf
    <2>4. Max(N) \in 1..n /\ n <= Max(N)
        BY <2>2, <2>3
    <2> QED BY <1>2, <2>1, <2>4
<1> QED BY <1>3, <1>4

\* The step places order for what is missing of the target, and no other order
\* of the symbol is open.
Places(order, s, target) ==
    /\ orders' = Append(orders, order)
    /\ order.symbol = s /\ order.signal = Len(signals) + 1 /\ order.after = Len(fills)
    /\ OpenOrders(s) = {}
    /\ (IF order.side = "BUY" THEN 1 ELSE -1) * order.quantity = target - Position(fills, s)

\* A target that is not reached becomes such an order.
LEMMA AdmitMade ==
    ASSUME AccountInv, NEW b \in DOMAIN bars, NEW target \in Target, NEW sel \in Nat,
           AdmitSignal(b, target, sel), NEW s, s = bars[b].symbol
    PROVE  \E signal \in Signal :
              /\ signals' = Append(signals, signal) /\ UNCHANGED <<bars, fills>>
              /\ signal.symbol = s /\ signal.target = target /\ signal.cutoff = Len(bars)
              /\ \/ UNCHANGED orders /\ Projected(s) = target
                 \/ \E order \in Order : Places(order, s, target)
<1>1. AccountTyped /\ TurnsInv
    BY DEF AccountInv
<1>2. ProjectionIs
    BY <1>1, Projection
<1>3. /\ bars[b] \in Bar /\ b \in Nat /\ Len(bars) \in Nat /\ Len(signals) \in Nat /\ Len(fills) \in Nat
    <2>1. bars \in Seq(Bar) /\ signals \in Seq(Signal) /\ fills \in Seq(Fill)
        BY <1>1 DEF AccountTyped
    <2> QED BY <2>1
<1>4. s \in Symbol /\ target \in Nat
    BY <1>3, PaperAssumption DEF Bar
<1> DEFINE signal == [bar |-> b, symbol |-> s, target |-> target, selection |-> sel, cutoff |-> Len(bars)]
           delta == target - Projected(s)
           order == [signal |-> Len(signals) + 1, symbol |-> s,
                     side |-> IF delta > 0 THEN "BUY" ELSE "SELL",
                     quantity |-> IF delta > 0 THEN delta ELSE -delta,
                     after |-> Len(fills)]
<1>5. /\ signals' = Append(signals, signal) /\ UNCHANGED <<bars, fills>>
      /\ MayOrder(s, target)
      /\ IF delta = 0 THEN UNCHANGED orders ELSE orders' = Append(orders, order)
    BY DEF AdmitSignal, RecordSignal, PlaceOrder, TargetDelta
<1>6. /\ signal \in Signal
      /\ signal.symbol = s /\ signal.target = target /\ signal.cutoff = Len(bars)
    BY <1>3, <1>4 DEF Signal
<1>7. Projected(s) \in Int
    <2>1. CASE OpenOrders(s) = {}
        BY <1>2, <2>1 DEF ProjectionIs
    <2>2. ASSUME NEW o \in OpenOrders(s) PROVE Projected(s) \in Int
        BY <1>2, <2>2 DEF ProjectionIs
    <2> QED BY <2>1, <2>2
<1>8. delta \in Int
    BY <1>4, <1>7
<1>9. CASE delta = 0
    <2>1. Projected(s) = target
        BY <1>4, <1>7, <1>9
    <2> HIDE DEF signal, delta, order
    <2> QED BY <1>5, <1>6, <1>9, <2>1
<1>10. CASE delta # 0
    <2>1. OpenOrders(s) = {}
        BY <1>5, <1>10 DEF MayOrder, TargetDelta
    <2>2. delta = target - Position(fills, s)
        BY <1>2, <2>1 DEF ProjectionIs
    <2>3. order \in Order
        <3> HIDE DEF delta
        <3>1. (IF delta > 0 THEN delta ELSE -delta) \in Nat \ {0}
            BY <1>8, <1>10
        <3>2. (IF delta > 0 THEN "BUY" ELSE "SELL") \in Side
            BY DEF Side
        <3>3. Len(signals) + 1 \in Nat
            BY <1>3
        <3> QED BY <1>3, <1>4, <3>1, <3>2, <3>3 DEF Order
    <2>4. order.symbol = s /\ order.signal = Len(signals) + 1 /\ order.after = Len(fills)
        OBVIOUS
    <2>5. (IF order.side = "BUY" THEN 1 ELSE -1) * order.quantity = delta
        <3> HIDE DEF delta
        <3>1. CASE delta > 0
            BY <1>8, <3>1
        <3>2. CASE ~(delta > 0)
            BY <1>8, <3>2
        <3> QED BY <3>1, <3>2
    <2>6. orders' = Append(orders, order)
        BY <1>5, <1>10
    <2> HIDE DEF signal, delta, order
    <2>7. Places(order, s, target)
        BY <2>1, <2>2, <2>4, <2>5, <2>6 DEF Places
    <2> QED BY <1>5, <1>6, <2>3, <2>7
<1> QED BY <1>9, <1>10

LEMMA AdmitKeepsAccount ==
    ASSUME AccountInv, OrdersInv, OrdersInv', NEW b \in DOMAIN bars, NEW target \in Target,
           NEW sel \in Nat, AdmitSignal(b, target, sel)
    PROVE  AccountInv'
<1>1. /\ AccountTyped /\ TurnsInv /\ TargetsInv /\ AccountIsSolvent /\ ProjectionIs
      /\ signals \in Seq(Signal) /\ orders \in Seq(Order)
    BY Projection DEF AccountInv, AccountTyped
<1>2. PICK s : s = bars[b].symbol
    OBVIOUS
<1> DEFINE Nothing == UNCHANGED orders /\ Projected(s) = target
<1>3. PICK signal \in Signal :
              /\ signals' = Append(signals, signal) /\ UNCHANGED <<bars, fills>>
              /\ signal.symbol = s /\ signal.target = target /\ signal.cutoff = Len(bars)
              /\ Nothing \/ \E order \in Order : Places(order, s, target)
    BY <1>1, <1>2, AdmitMade
<1>0. PICK n, new : n = Len(signals) + 1 /\ new = Len(orders) + 1
    OBVIOUS
<1>4. /\ DOMAIN signals = 1..Len(signals) /\ Len(signals) \in Nat
      /\ DOMAIN signals' = DOMAIN signals \cup {n} /\ n \notin DOMAIN signals
      /\ \A i \in DOMAIN signals : signals'[i] = signals[i]
      /\ signals'[n] = signal
    <2>1. IsSequence(signals)
        BY <1>1, TypedSequence
    <2>2. /\ DOMAIN signals = 1..Len(signals) /\ Len(signals) \in Nat
          /\ DOMAIN signals' = 1..n
          /\ \A i \in DOMAIN signals : signals'[i] = signals[i]
          /\ signals'[n] = signal
        BY <1>0, <1>3, <2>1, Appended
    <2> QED BY <1>0, <2>2
<1>5. ASSUME NEW order \in Order, Places(order, s, target)
      PROVE  /\ DOMAIN orders = 1..Len(orders) /\ Len(orders) \in Nat
             /\ DOMAIN orders' = DOMAIN orders \cup {new} /\ new \notin DOMAIN orders
             /\ \A o \in DOMAIN orders : orders'[o] = orders[o]
             /\ orders'[new] = order
             /\ orders' \in Seq(Order)
    <2>1. IsSequence(orders)
        BY <1>1, TypedSequence
    <2>2. /\ DOMAIN orders = 1..Len(orders) /\ Len(orders) \in Nat
          /\ DOMAIN orders' = 1..new
          /\ \A o \in DOMAIN orders : orders'[o] = orders[o]
          /\ orders'[new] = order
        BY <1>0, <1>5, <2>1, Appended DEF Places
    <2>3. orders' \in Seq(Order)
        BY <1>1, <1>5 DEF Places
    <2> QED BY <1>0, <2>2, <2>3
<1> HIDE DEF Nothing
<1>6. /\ DOMAIN orders \subseteq DOMAIN orders'
      /\ \A o \in DOMAIN orders : orders'[o] = orders[o]
      /\ orders' \in Seq(Order)
    <2>1. CASE Nothing
        BY <1>1, <2>1 DEF Nothing
    <2>2. ASSUME NEW order \in Order, Places(order, s, target)
          PROVE  /\ DOMAIN orders \subseteq DOMAIN orders'
                 /\ \A o \in DOMAIN orders : orders'[o] = orders[o]
                 /\ orders' \in Seq(Order)
        BY <1>5, <2>2
    <2> QED BY <1>3, <2>1, <2>2
<1>7. /\ \A o : Filled(fills, o)' = Filled(fills, o)
      /\ Cash(fills)' = Cash(fills)
      /\ \A t : Position(fills, t)' = Position(fills, t)
      /\ \A o \in DOMAIN orders : (IsOpen(o)' <=> IsOpen(o)) /\ Missing(o)' = Missing(o)
    BY <1>3, <1>6, OrdersKeepSums
<1>8. AccountTyped'
    <2>1. signals' \in Seq(Signal)
        BY <1>1, <1>3
    <2> QED BY <1>1, <1>3, <1>6, <2>1 DEF AccountTyped
<1>9. \A o \in DOMAIN orders : orders[o].signal \in DOMAIN signals
                               /\ signals'[orders[o].signal] = signals[orders[o].signal]
    BY <1>4 DEF OrdersInv
<1>10. \A f \in DOMAIN fills : fills[f].order \in DOMAIN orders /\ fills[f].bar \in 1..Len(bars)
    <2>1. DOMAIN bars = 1..Len(bars)
        BY <1>1, TypedSequence DEF AccountTyped
    <2> QED BY <2>1 DEF OrdersInv
\* A new order has no fill yet, and those of its symbol are all done.
<1>11. ASSUME NEW order \in Order, Places(order, s, target)
       PROVE  /\ Filled(fills, new) = 0
              /\ \A o \in DOMAIN orders : orders[o].symbol = s => ~IsOpen(o)
    <2>1. new \notin DOMAIN orders /\ OpenOrders(s) = {}
        BY <1>5, <1>11 DEF Places
    <2>2. {f \in DOMAIN fills : fills[f].order = new} = {}
        BY <1>10, <2>1
    <2>3. SharesIn(fills, {}) = 0
        BY FS_EmptySet, SharesLaws
    <2>4. Filled(fills, new) = 0
        BY <2>2, <2>3 DEF Filled
    <2> QED BY <2>1, <2>4 DEF OpenOrders
<1>12. TurnsInv'
    <2>1. \A f \in DOMAIN fills' : bars'[fills'[f].bar].symbol = orders'[fills'[f].order].symbol
        BY <1>1, <1>3, <1>6, <1>10 DEF TurnsInv
    <2>2. OneFillPerBar'
        BY <1>1, <1>3 DEF TurnsInv, OneFillPerBar
    <2>3. ASSUME NEW p \in DOMAIN orders, NEW r \in DOMAIN orders, p < r,
                 orders[p].symbol = orders[r].symbol
          PROVE  /\ ~IsOpen(p)'
                 /\ \A f \in DOMAIN fills :
                       fills[f].order = p => fills[f].bar <= signals'[orders[r].signal].cutoff
        BY <1>1, <1>7, <1>9, <2>3 DEF TurnsInv
    <2>4. \A p \in DOMAIN orders : Filled(fills, p)' <= orders'[p].quantity
        BY <1>1, <1>6, <1>7 DEF TurnsInv
    <2>5. CASE Nothing
        <3>1. orders' = orders /\ fills' = fills /\ bars' = bars
            BY <1>3, <2>5 DEF Nothing
        <3>2. \A p, r \in DOMAIN orders' : p < r /\ orders'[p].symbol = orders'[r].symbol =>
                 /\ ~IsOpen(p)'
                 /\ \A f \in DOMAIN fills' :
                       fills'[f].order = p => fills'[f].bar <= signals'[orders'[r].signal].cutoff
            BY <2>3, <3>1
        <3>3. \A p \in DOMAIN orders' : Filled(fills, p)' <= orders'[p].quantity
            BY <2>4, <3>1
        <3> QED BY <2>1, <2>2, <3>2, <3>3 DEF TurnsInv
    <2>6. ASSUME NEW order \in Order, Places(order, s, target) PROVE TurnsInv'
        <3>1. /\ DOMAIN orders = 1..Len(orders) /\ Len(orders) \in Nat
              /\ DOMAIN orders' = DOMAIN orders \cup {new}
              /\ orders'[new] = order
              /\ order.quantity \in Nat /\ order.symbol = s /\ order.signal = n
            BY <1>0, <1>5, <2>6 DEF Order, Places
        <3>2. Filled(fills, new)' <= orders'[new].quantity
            BY <1>7, <1>11, <2>6, <3>1
        <3>3. \A p \in DOMAIN orders' : Filled(fills, p)' <= orders'[p].quantity
            BY <2>4, <3>1, <3>2
        <3>4. ASSUME NEW p \in DOMAIN orders', NEW r \in DOMAIN orders', p < r,
                     orders'[p].symbol = orders'[r].symbol
              PROVE  /\ ~IsOpen(p)'
                     /\ \A f \in DOMAIN fills :
                           fills[f].order = p => fills[f].bar <= signals'[orders'[r].signal].cutoff
            <4>1. p \in DOMAIN orders
                BY <1>0, <3>1, <3>4
            <4>2. CASE r \in DOMAIN orders
                <5>1. orders'[p] = orders[p] /\ orders'[r] = orders[r]
                    BY <1>6, <4>1, <4>2
                <5> QED BY <2>3, <3>4, <4>1, <4>2, <5>1
            <4>3. CASE r = new
                <5>1. orders[p].symbol = s
                    BY <1>6, <3>1, <3>4, <4>1, <4>3
                <5>2. ~IsOpen(p)'
                    BY <1>7, <1>11, <2>6, <4>1, <5>1
                <5>3. signals'[orders'[r].signal].cutoff = Len(bars)
                    BY <1>3, <1>4, <3>1, <4>3
                <5>4. Len(bars) \in Nat
                    BY <1>1 DEF AccountTyped
                <5> QED BY <1>10, <5>2, <5>3, <5>4
            <4> QED BY <3>1, <4>2, <4>3
        <3> QED BY <1>3, <2>1, <2>2, <3>3, <3>4 DEF TurnsInv
    <2> QED BY <1>3, <2>5, <2>6
<1>13. ProjectionIs'
    BY <1>8, <1>12, ProjectionNext
\* What another symbol will hold stays, and this one will hold the new target.
<1>14. ASSUME NEW t, t # s PROVE Projected(t)' = Projected(t)
    <2>1. OpenOrders(t)' = OpenOrders(t)
        <3>1. CASE Nothing
            BY <1>3, <1>7, <3>1 DEF Nothing, OpenOrders
        <3>2. ASSUME NEW order \in Order, Places(order, s, target) PROVE OpenOrders(t)' = OpenOrders(t)
            <4>1. DOMAIN orders' = DOMAIN orders \cup {new} /\ orders'[new].symbol # t
                BY <1>5, <1>14, <3>2 DEF Places
            <4> QED BY <1>6, <1>7, <4>1 DEF OpenOrders
        <3> QED BY <1>3, <3>1, <3>2
    <2>2. \A o \in OpenOrders(t) : Missing(o)' = Missing(o)
        BY <1>7 DEF OpenOrders
    <2> QED BY <1>1, <1>7, <1>13, <2>1, <2>2, ProjectionSame
<1>15. Projected(s)' = target
    <2>1. CASE Nothing
        <3>1. UNCHANGED <<orders, fills>> /\ Projected(s) = target
            BY <1>3, <2>1 DEF Nothing
        <3>2. OpenOrders(s)' = OpenOrders(s)
            BY <1>7, <3>1 DEF OpenOrders
        <3>3. \A o \in OpenOrders(s) : Missing(o)' = Missing(o)
            BY <1>7 DEF OpenOrders
        <3> QED BY <1>1, <1>7, <1>13, <3>1, <3>2, <3>3, ProjectionSame
    <2>2. ASSUME NEW order \in Order, Places(order, s, target) PROVE Projected(s)' = target
        <3>1. /\ orders'[new] = order /\ new \in DOMAIN orders'
              /\ DOMAIN orders' = DOMAIN orders \cup {new}
              /\ order.quantity \in Nat \ {0} /\ order.symbol = s
              /\ (IF order.side = "BUY" THEN 1 ELSE -1) * order.quantity = target - Position(fills, s)
            BY <1>5, <2>2 DEF Order, Places
        <3>2. Filled(fills, new)' = 0
            BY <1>7, <1>11, <2>2
        <3>3. new \in OpenOrders(s)'
            BY <3>1, <3>2 DEF OpenOrders, IsOpen
        <3>4. Missing(new)' = (IF order.side = "BUY" THEN 1 ELSE -1) * (order.quantity - 0)
            BY <3>1, <3>2 DEF Missing
        <3>5. order.quantity - 0 = order.quantity
            BY <3>1
        <3>6. Projected(s)' = Position(fills, s)' + Missing(new)'
            BY <1>13, <3>3 DEF ProjectionIs
        <3>7. Projected(s)' = Position(fills, s) + (target - Position(fills, s))
            BY <1>7, <3>1, <3>4, <3>5, <3>6
        <3>8. Position(fills, s) \in Int /\ target \in Int
            BY <1>1, AccountNumbers, PaperAssumption
        <3> QED BY <3>7, <3>8
    <2> QED BY <1>3, <2>1, <2>2
<1>16. TargetsInv'
    <2>1. /\ \A t : t # s => NewestSignal(t)' = NewestSignal(t)
          /\ NewestSignal(s)' = n
        BY <1>0, <1>1, <1>3, NewestSignalMoves
    <2> SUFFICES ASSUME NEW i \in DOMAIN signals', NEW t, t = signals'[i].symbol
                 PROVE  Projected(t)' = signals'[NewestSignal(t)'].target
        BY DEF TargetsInv
    <2>2. CASE t = s
        BY <1>3, <1>4, <1>15, <2>1, <2>2
    <2>3. CASE t # s
        <3>1. i \in DOMAIN signals /\ signals[i].symbol = t
            BY <1>3, <1>4, <2>3
        <3>2. Projected(t) = signals[NewestSignal(t)].target
            BY <1>1, <3>1 DEF TargetsInv
        <3>3. NewestSignal(t) \in DOMAIN signals
            <4> DEFINE M == {j \in DOMAIN signals : signals[j].symbol = t}
            <4>1. M # {} /\ M \subseteq 0..Len(signals) /\ M \subseteq DOMAIN signals
                BY <1>4, <3>1
            <4>2. NewestSignal(t) = Max(M)
                BY DEF NewestSignal
            <4> HIDE DEF M
            <4>3. Max(M) \in M
                BY <1>4, <4>1, MaxOf
            <4> QED BY <4>1, <4>2, <4>3
        <3> QED BY <1>4, <1>14, <2>1, <2>3, <3>2, <3>3
    <2> QED BY <2>2, <2>3
<1>17. AccountIsSolvent'
    BY <1>1, <1>7 DEF AccountIsSolvent
<1> QED BY <1>8, <1>12, <1>16, <1>17 DEF AccountInv

LEMMA AccountStays ==
    ASSUME AccountInv, UNCHANGED paperVars
    PROVE  AccountInv'
<1>1. AccountTyped /\ TurnsInv /\ TargetsInv /\ AccountIsSolvent
    BY DEF AccountInv
<1>2. bars' = bars /\ signals' = signals /\ orders' = orders /\ fills' = fills
    BY DEF paperVars
<1>3. /\ \A p : Filled(fills, p)' = Filled(fills, p)
      /\ Cash(fills)' = Cash(fills)
    BY <1>2
<1>4. /\ \A p : (IsOpen(p)' <=> IsOpen(p)) /\ Missing(p)' = Missing(p)
      /\ \A t : Position(fills, t)' = Position(fills, t)
      /\ \A t : OpenOrders(t)' = OpenOrders(t)
    BY <1>2, <1>3 DEF IsOpen, Missing, Position, Traded, OpenOrders
<1>5. AccountTyped'
    BY <1>1, <1>2 DEF AccountTyped
<1>6. OneFillPerBar'
    BY <1>1, <1>2 DEF TurnsInv, OneFillPerBar
<1>7. TurnsInv'
    BY <1>1, <1>2, <1>3, <1>4, <1>6 DEF TurnsInv
<1>8. \A t : Projected(t)' = Projected(t) /\ NewestSignal(t)' = NewestSignal(t)
    <2>1. ProjectionIs /\ ProjectionIs'
        BY <1>1, <1>5, <1>7, Projection, ProjectionNext
    <2>2. \A t : NewestSignal(t)' = NewestSignal(t)
        BY <1>2 DEF NewestSignal
    <2> QED BY <1>4, <2>1, <2>2, ProjectionSame
<1>9. TargetsInv' /\ AccountIsSolvent'
    BY <1>1, <1>2, <1>3, <1>4, <1>8 DEF TargetsInv, AccountIsSolvent
<1> QED BY <1>5, <1>7, <1>9 DEF AccountInv

\* A fill of a run is made for one of the orders, at the close it works on.
LEMMA FillOfRun ==
    ASSUME RunInv, NEW p \in Process, FillStep(p)
    PROVE  \E o \in DOMAIN orders, close \in Nat : FillOrder(o, close, exec.fence)
<1>1. /\ proc[p].pc = "fill" /\ proc[p].todo # {} /\ HoldsClaim(p)
      /\ FillOrder(Min(proc[p].todo), AsOf(p), exec.fence)
    BY DEF FillStep, FillThrough
<1>2. proc[p].todo \subseteq Nat /\ proc[p].closes \subseteq Nat
    BY DEF RunInv, RunShapes, Proc
<1>3. Min(proc[p].todo) \in DOMAIN orders
    <2>1. proc[p].todo \subseteq DOMAIN orders
        BY <1>1 DEF RunInv, PlansInv, PlanHolds
    <2> QED BY <1>1, <1>2, <2>1, MinOf
<1>4. AsOf(p) \in Nat
    <2>1. Live(p)
        BY <1>1, HolderIsLive DEF RunInv
    <2>2. proc[p].closes # {}
        BY <1>1, <2>1 DEF RunInv, PlansInv, PlanHolds, Working, PlanFits
    <2> QED BY <1>2, <2>2, FirstClose DEF RunInv
<1> QED BY <1>1, <1>3, <1>4

LEMMA AccountKept ==
    RunInv /\ AccountInv /\ [Next]_vars => AccountInv'
<1> SUFFICES ASSUME RunInv, AccountInv, [Next]_vars PROVE AccountInv'
    OBVIOUS
<1>1. /\ RunShapes /\ BarsInv /\ OrdersInv /\ PlansInv
      /\ BarsTyped /\ BarsTyped' /\ MarketGrows /\ OrdersInv'
    BY MarketHolds, OrdersHold DEF RunInv, RunShapes, BarsTyped
<1>2. exec.fence \in Nat /\ selection.id \in Nat
    BY <1>1 DEF RunShapes
<1>3. CASE UNCHANGED paperVars
    BY <1>3, AccountStays
<1>4. CASE MarketMoves
    BY <1>1, <1>4, MarketKeepsAccount DEF MarketMoves
<1>5. ASSUME NEW p \in Process, FillStep(p) PROVE AccountInv'
    BY <1>1, <1>2, <1>5, FillOfRun, FillKeepsAccount
<1>6. ASSUME NEW p \in Process, Admit(p) PROVE AccountInv'
    <2>1. UNCHANGED paperVars \/ \E target \in Target : AdmitSignal(proc[p].bar, target, selection.id)
        BY <1>6 DEF Admit
    <2>2. proc[p].bar \in DOMAIN bars
        BY <1>1, <1>6 DEF Admit, PlansInv, PlanHolds
    <2> QED BY <1>1, <1>2, <1>3, <2>1, <2>2, AdmitKeepsAccount
<1>7. UNCHANGED vars => UNCHANGED paperVars
    BY DEF vars
<1> QED BY <1>3, <1>4, <1>5, <1>6, <1>7, StepKinds, QuietKeeps, OutsideKeeps

LEMMA AccountInitially == Init => AccountInv
<1> SUFFICES ASSUME Init PROVE AccountInv
    OBVIOUS
<1>1. /\ bars = <<>> /\ signals = <<>> /\ orders = <<>> /\ fills = <<>>
      /\ DOMAIN bars = {} /\ DOMAIN signals = {} /\ DOMAIN orders = {} /\ DOMAIN fills = {}
    BY DEF Init, PaperInit
<1>2. AccountTyped /\ TurnsInv /\ TargetsInv
    BY <1>1 DEF AccountTyped, TurnsInv, TargetsInv, OneFillPerBar
<1>3. Cash(fills) = StartingCash + 0
    <2>1. CashIn(fills, {}) = 0
        BY FS_EmptySet, CashLaws
    <2> QED BY <1>1, <2>1 DEF Cash, CashIn
<1>4. \A s : Position(fills, s) = 0 - 0
    <2>1. SharesIn(fills, {}) = 0
        BY FS_EmptySet, SharesLaws
    <2> QED BY <1>1, <2>1 DEF Position, Traded
<1>5. AccountIsSolvent
    BY <1>3, <1>4, PaperAssumption DEF AccountIsSolvent
<1> QED BY <1>2, <1>5 DEF AccountInv

LEMMA AccountAlways == Spec => []AccountInv
BY AccountInitially, AccountKept, RunAlways, PTL DEF Spec

\* What an account trades is what it was told and could pay for, at bars it
\* could not know: cash and positions never go below zero, whatever the bars
\* cost and in whatever order the symbols are filled; a bar fills one order,
\* once; a symbol holds, or is on its way to, what the newest of its signals
\* asked for (paper_runner.go paperFillUntil, internal/paperdomain
\* CalculateFill), whichever of the runs of the account writes it.
THEOREM FillsAlwaysFair == Spec => []FillsAreFair
<1>1. RunInv /\ AccountInv => FillsAreFair
    <2> SUFFICES ASSUME RunInv, AccountInv PROVE FillsAreFair
        OBVIOUS
    <2>1. AccountIsSolvent /\ OneFillPerBar /\ NoFillFromKnownBar
        BY DEF RunInv, OrdersInv, AccountInv, TurnsInv
    <2>2. ProjectionIs
        BY Projection DEF AccountInv
    <2>3. ASSUME NEW s PROVE Cardinality(OpenOrders(s)) <= 1
        <3>1. CASE OpenOrders(s) = {}
            BY <3>1, FS_EmptySet
        <3>2. ASSUME NEW o \in OpenOrders(s) PROVE Cardinality(OpenOrders(s)) <= 1
            <4>1. OpenOrders(s) = {o}
                BY <2>2, <3>2 DEF ProjectionIs
            <4>2. Cardinality({o}) = 1
                BY FS_Singleton
            <4> QED BY <4>1, <4>2
        <3> QED BY <3>1, <3>2
    <2>4. TargetIsReached
        BY <2>3 DEF TargetIsReached, AccountInv, TargetsInv
    <2> QED BY <2>1, <2>4 DEF FillsAreFair
<1> QED BY <1>1, RunAlways, AccountAlways, PTL

-----------------------------------------------------------------------------
(* The journal.  Its replay sees the bars stored since, so what it must find *)
(* again is that the bars of a fill were the first that could be filled.     *)

\* A row that is stored stays as it is, and a new one comes behind it.
Extends(t, s) ==
    /\ DOMAIN s \subseteq DOMAIN t
    /\ \A i \in DOMAIN s : t[i] = s[i]
    /\ \A i \in DOMAIN s, j \in DOMAIN t \ DOMAIN s : i < j

RowsKept ==
    /\ Extends(bars', bars) /\ Extends(signals', signals) /\ Extends(orders', orders)
    /\ Extends(fills', fills)
    /\ \A m \in 0..Len(fills) : SubSeq(fills', 1, m) = SubSeq(fills, 1, m)

LEMMA AppendExtends ==
    ASSUME NEW s, IsSequence(s), NEW t, t = s \/ \E e : t = Append(s, e)
    PROVE  Extends(t, s)
<1>1. CASE t = s
    BY <1>1 DEF Extends
<1>2. ASSUME NEW e, t = Append(s, e) PROVE Extends(t, s)
    <2>1. /\ DOMAIN s = 1..Len(s) /\ Len(s) \in Nat
          /\ DOMAIN t = 1..(Len(s) + 1)
          /\ \A i \in DOMAIN s : t[i] = s[i]
        BY <1>2, Appended
    <2> QED BY <2>1 DEF Extends
<1> QED BY <1>1, <1>2

LEMMA PrefixKept ==
    ASSUME NEW S, NEW s \in Seq(S), NEW e \in S, NEW m \in 0..Len(s)
    PROVE  /\ SubSeq(Append(s, e), 1, m) = SubSeq(s, 1, m)
           /\ SubSeq(s, 1, Len(s)) = s
           /\ SubSeq(s, 1, m) \in Seq(S)
           /\ Len(SubSeq(s, 1, m)) = m
           /\ \A i \in 1..m : SubSeq(s, 1, m)[i] = s[i] /\ i \in DOMAIN s
<1>1. m \in Nat /\ m <= Len(s) /\ Len(s) \in Nat
    OBVIOUS
<1>2. SubSeq(s, 1, m) = [i \in 1..m |-> s[i]]
    BY <1>1
<1>3. SubSeq(Append(s, e), 1, m) = [i \in 1..m |-> Append(s, e)[i]]
    BY <1>1
<1>4. \A i \in 1..m : Append(s, e)[i] = s[i] /\ i \in DOMAIN s
    BY <1>1
<1>5. SubSeq(s, 1, Len(s)) = s
    BY <1>1
<1>6. SubSeq(s, 1, m) \in Seq(S) /\ Len(SubSeq(s, 1, m)) = m
    BY <1>1, <1>2
<1> QED BY <1>2, <1>3, <1>4, <1>5, <1>6

\* The rows a step of the account may add.
LEMMA RowsStay ==
    ASSUME RunInv, AccountInv, [Next]_vars
    PROVE  RowsKept
<1>1. /\ RunShapes /\ PlansInv /\ AccountTyped /\ OrdersInv /\ AccountIsSolvent
      /\ IsSequence(bars) /\ IsSequence(signals) /\ IsSequence(orders) /\ IsSequence(fills)
      /\ fills \in Seq(Fill)
    BY TypedSequence DEF RunInv, RunShapes, AccountInv, AccountTyped
<1> DEFINE Longer(t, s) == t = s \/ \E e : t = Append(s, e)
<1>2. ASSUME Longer(bars', bars), Longer(signals', signals), Longer(orders', orders),
             fills' = fills \/ \E fill \in Fill : fills' = Append(fills, fill)
      PROVE  RowsKept
    <2>1. Extends(bars', bars) /\ Extends(signals', signals) /\ Extends(orders', orders)
          /\ Extends(fills', fills)
        BY <1>1, <1>2, AppendExtends
    <2>2. \A m \in 0..Len(fills) : SubSeq(fills', 1, m) = SubSeq(fills, 1, m)
        BY <1>1, <1>2, PrefixKept
    <2> QED BY <2>1, <2>2 DEF RowsKept
<1>3. CASE UNCHANGED paperVars
    BY <1>2, <1>3 DEF paperVars
<1>4. CASE MarketMoves
    <2>1. \E e : bars' = Append(bars, e)
        BY <1>4 DEF MarketMoves, ImportBar
    <2>2. UNCHANGED <<signals, orders, fills>>
        BY <1>4 DEF MarketMoves, ImportBar
    <2> QED BY <1>2, <2>1, <2>2
<1>5. ASSUME NEW p \in Process, FillStep(p) PROVE RowsKept
    <2>1. PICK o \in DOMAIN orders, close \in Nat : FillOrder(o, close, exec.fence)
        BY <1>5, FillOfRun
    <2>2. orders[o].symbol \in Symbol /\ exec.fence \in Nat
        <3>1. orders[o] \in Order
            BY <1>1, <2>1 DEF AccountTyped
        <3> QED BY <1>1, <3>1 DEF Order, RunShapes
    <2>3. \E fill \in Fill : fills' = Append(fills, fill)
        BY <1>1, <2>1, <2>2, FillMade
    <2>4. UNCHANGED <<bars, signals, orders>>
        BY <2>1 DEF FillOrder
    <2> QED BY <1>2, <2>3, <2>4
<1>6. ASSUME NEW p \in Process, Admit(p) PROVE RowsKept
    <2>1. UNCHANGED <<bars, fills>>
        BY <1>6, AdmitIs
    <2>2. Longer(signals', signals) /\ Longer(orders', orders)
        BY <1>6, AdmitIs DEF PlaceOrder
    <2> QED BY <1>2, <2>1, <2>2
<1>7. UNCHANGED vars => UNCHANGED paperVars
    BY DEF vars
<1> QED BY <1>3, <1>4, <1>5, <1>6, <1>7, StepKinds, QuietKeeps, OutsideKeeps

\* Fill is what order o takes next after the fills fs.
IsNextFill(fs, o, fill) ==
    LET C == Candidates(fs, o, FillBars(o))
    IN  C # {} /\ fill = FillAt(fs, o, FillBars(o), fill.fence)

Fillable(fs, o, b) == b \notin UsedBars(fs, o) /\ FillQuantity(fs, o, b) > 0

IsFirst(fs, o, b) ==
    /\ b \in FillBars(o) /\ Fillable(fs, o, b)
    /\ \A c \in FillBars(o) : Fillable(fs, o, c) => b <= c

FillFrom(fs, o, b, token) ==
    [order |-> o, bar |-> b, quantity |-> FillQuantity(fs, o, b),
     cash |-> CashDelta(o, b, FillQuantity(fs, o, b)), fence |-> token]

NextFillIs ==
    \A fs, o, fill : IsNextFill(fs, o, fill) <=>
        \E b : IsFirst(fs, o, b) /\ fill = FillFrom(fs, o, b, fill.fence)

LEMMA NextFill == BarsTyped => NextFillIs
<1> SUFFICES ASSUME BarsTyped, NEW fs, NEW o, NEW fill
             PROVE  IsNextFill(fs, o, fill) <=>
                       \E b : IsFirst(fs, o, b) /\ fill = FillFrom(fs, o, b, fill.fence)
    BY DEF NextFillIs
<1> DEFINE C == Candidates(fs, o, FillBars(o))
<1>1. C \subseteq Nat
    BY TypedSequence DEF BarsTyped, Candidates, FillBars, Series
<1>2. \A b : b \in C <=> b \in FillBars(o) /\ Fillable(fs, o, b)
    BY DEF Candidates, Fillable
<1>3. IsNextFill(fs, o, fill) <=> C # {} /\ fill = FillFrom(fs, o, Min(C), fill.fence)
    BY DEF IsNextFill, FillAt, Choice, FillFrom
<1> HIDE DEF C
<1>4. \A b : IsFirst(fs, o, b) <=> b \in C /\ \A c \in C : b <= c
    BY <1>2 DEF IsFirst
<1>5. ASSUME C # {} PROVE Min(C) \in C /\ \A c \in C : Min(C) <= c
    BY <1>1, <1>5, MinOf
<1>6. ASSUME NEW b \in C, \A c \in C : b <= c PROVE b = Min(C)
    <2>1. b <= Min(C) /\ Min(C) <= b /\ b \in Nat /\ Min(C) \in Nat
        BY <1>1, <1>5, <1>6
    <2> QED BY <2>1
<1> QED BY <1>3, <1>4, <1>5, <1>6

LEMMA NextFillNext == BarsTyped' => NextFillIs'
BY NextFill, PTL

\* What an order can take from a bar that is stored depends on nothing that
\* comes later.
LEMMA FillStays ==
    ASSUME RowsKept, NEW fs, \A f \in DOMAIN fs : fs[f].order \in DOMAIN orders,
           NEW o \in DOMAIN orders, NEW b \in DOMAIN bars
    PROVE  /\ \A s : Position(fs, s)' = Position(fs, s)
           /\ Fillable(fs, o, b)' <=> Fillable(fs, o, b)
           /\ \A token : FillFrom(fs, o, b, token)' = FillFrom(fs, o, b, token)
<1>1. orders'[o] = orders[o] /\ bars'[b] = bars[b]
      /\ \A f \in DOMAIN fs : orders'[fs[f].order] = orders[fs[f].order]
    BY DEF RowsKept, Extends
<1>2. ASSUME NEW s PROVE Position(fs, s)' = Position(fs, s)
    <2>1. ASSUME NEW side PROVE Traded(fs, s, side)' = Traded(fs, s, side)
        <3>1. {f \in DOMAIN fs : orders'[fs[f].order].symbol = s /\ orders'[fs[f].order].side = side}
                = {f \in DOMAIN fs : orders[fs[f].order].symbol = s /\ orders[fs[f].order].side = side}
            BY <1>1
        <3> QED BY <3>1 DEF Traded
    <2> QED BY <2>1 DEF Position
<1>3. Price(o, b)' = Price(o, b) /\ \A q : CashDelta(o, b, q)' = CashDelta(o, b, q)
    BY <1>1 DEF Price, CashDelta
<1>4. FillQuantity(fs, o, b)' = FillQuantity(fs, o, b)
    <2>1. PICK s : s = orders[o].symbol
        OBVIOUS
    <2>2. /\ FillQuantity(fs, o, b) =
                Min({bars[b].capacity - Consumed(fs, b), orders[o].quantity - Filled(fs, o),
                     IF orders[o].side = "BUY" THEN Affordable(Cash(fs), Price(o, b)) ELSE Position(fs, s)})
          /\ FillQuantity(fs, o, b)' =
                Min({bars'[b].capacity - Consumed(fs, b), orders'[o].quantity - Filled(fs, o),
                     IF orders'[o].side = "BUY" THEN Affordable(Cash(fs), Price(o, b)') ELSE Position(fs, s)'})
        BY <1>1, <2>1 DEF FillQuantity
    <2> QED BY <1>1, <1>2, <1>3, <2>2
<1>5. Fillable(fs, o, b)' <=> Fillable(fs, o, b)
    BY <1>4 DEF Fillable
<1>6. ASSUME NEW token PROVE FillFrom(fs, o, b, token)' = FillFrom(fs, o, b, token)
    <2>1. PICK q : q = FillQuantity(fs, o, b)
        OBVIOUS
    <2> QED BY <1>3, <1>4, <2>1 DEF FillFrom
<1> QED BY <1>2, <1>5, <1>6

\* A bar that comes later is no fill bar before the others.
LEMMA FillBarsStay ==
    ASSUME RowsKept, BarsTyped, BarsTyped', OrdersInv, NEW o \in DOMAIN orders
    PROVE  /\ FillBars(o) \subseteq DOMAIN bars /\ DOMAIN bars' \subseteq Nat
           /\ \A b \in DOMAIN bars : b \in FillBars(o)' <=> b \in FillBars(o)
           /\ \A b \in FillBars(o)' : b \in DOMAIN bars \/ \A c \in DOMAIN bars : c < b
<1>1. PICK s, cutoff : s = orders[o].symbol /\ cutoff = signals[orders[o].signal].cutoff
    OBVIOUS
<1>2. s = orders'[o].symbol /\ cutoff = signals'[orders'[o].signal].cutoff
    BY <1>1 DEF RowsKept, Extends, OrdersInv
<1> DEFINE later == {b \in DOMAIN bars : bars[b].symbol = s /\ b > cutoff}
           later2 == {b \in DOMAIN bars' : bars'[b].symbol = s /\ b > cutoff}
<1>3. FillBars(o) = {b \in later : Cardinality({c \in later : c < b}) >= DelayBars - 1}
    BY <1>1 DEF FillBars, Series
<1>4. FillBars(o)' = {b \in later2 : Cardinality({c \in later2 : c < b}) >= DelayBars - 1}
    BY <1>2 DEF FillBars, Series
<1>5. DOMAIN bars \subseteq Nat /\ DOMAIN bars' \subseteq Nat
    BY TypedSequence DEF BarsTyped
<1>6. ASSUME NEW b \in DOMAIN bars
      PROVE  (b \in later2 <=> b \in later) /\ {c \in later2 : c < b} = {c \in later : c < b}
    <2>1. b \in later2 <=> b \in later
        BY DEF RowsKept, Extends
    <2>2. ASSUME NEW c \in later2, c < b PROVE c \in later
        <3>1. c \in DOMAIN bars
            <4>1. SUFFICES ASSUME c \notin DOMAIN bars PROVE FALSE
                OBVIOUS
            <4>2. b < c /\ b \in Nat /\ c \in Nat
                BY <1>5, <4>1 DEF RowsKept, Extends
            <4> QED BY ONLY <2>2, <4>2
        <3> QED BY <3>1 DEF RowsKept, Extends
    <2>3. later \subseteq later2
        BY DEF RowsKept, Extends
    <2> HIDE DEF later, later2
    <2> QED BY <2>1, <2>2, <2>3
<1>7. \A b \in later2 : b \in DOMAIN bars \/ \A c \in DOMAIN bars : c < b
    BY DEF RowsKept, Extends
<1>8. later \subseteq DOMAIN bars
    OBVIOUS
<1> HIDE DEF later, later2
<1> QED BY <1>3, <1>4, <1>5, <1>6, <1>7, <1>8

LEMMA NextFillStays ==
    ASSUME RowsKept, BarsTyped, BarsTyped', OrdersInv, NEW o \in DOMAIN orders,
           NEW fs, \A f \in DOMAIN fs : fs[f].order \in DOMAIN orders,
           NEW fill, IsNextFill(fs, o, fill)
    PROVE  IsNextFill(fs, o, fill)'
<1>1. PICK b : IsFirst(fs, o, b) /\ fill = FillFrom(fs, o, b, fill.fence)
    BY NextFill DEF NextFillIs
<1>2. b \in FillBars(o) /\ b \in DOMAIN bars /\ Fillable(fs, o, b)
    BY <1>1, FillBarsStay DEF IsFirst
<1>3. IsFirst(fs, o, b)'
    <2>1. b \in FillBars(o)' /\ Fillable(fs, o, b)'
        BY <1>2, FillBarsStay, FillStays
    <2>2. ASSUME NEW c \in FillBars(o)', Fillable(fs, o, c)' PROVE b <= c
        <3>1. CASE c \in DOMAIN bars
            <4>1. c \in FillBars(o) /\ Fillable(fs, o, c)
                BY <2>2, <3>1, FillBarsStay, FillStays
            <4> QED BY <1>1, <4>1 DEF IsFirst
        <3>2. CASE c \notin DOMAIN bars
            <4>1. b < c
                BY <1>2, <2>2, <3>2, FillBarsStay
            <4>2. b \in DOMAIN bars' /\ c \in DOMAIN bars'
                BY <1>2, <2>2 DEF RowsKept, Extends, FillBars, Series
            <4>3. b \in Nat /\ c \in Nat
                BY <4>2, FillBarsStay
            <4> QED BY <4>1, <4>3
        <3> QED BY <3>1, <3>2
    <2> QED BY <2>1, <2>2 DEF IsFirst
<1>4. fill = FillFrom(fs, o, b, fill.fence)'
    BY <1>1, <1>2, FillStays
<1>5. NextFillIs'
    BY NextFillNext
<1> QED BY <1>3, <1>4, <1>5 DEF NextFillIs

\* An order was placed when these fills were all there were: no other order of
\* its symbol was open, and it trades what was missing.
IsNextOrder(fs, o) ==
    /\ \A p \in 1..(o - 1) :
          orders[p].symbol = orders[o].symbol => Filled(fs, p) = orders[p].quantity
    /\ (IF orders[o].side = "BUY" THEN 1 ELSE -1) * orders[o].quantity
          = signals[orders[o].signal].target - Position(fs, orders[o].symbol)

ReplaysAre ==
    /\ \A f, fs, o, fill :
          fs = SubSeq(fills, 1, f - 1) /\ o = fills[f].order /\ fill = fills[f] =>
              (FillReplays(f) <=> IsNextFill(fs, o, fill))
    /\ \A o, fs : fs = SubSeq(fills, 1, orders[o].after) => (OrderReplays(o) <=> IsNextOrder(fs, o))

LEMMA Replays == ReplaysAre
BY DEF ReplaysAre, FillReplays, OrderReplays, IsNextFill, IsNextOrder

LEMMA ReplaysNext == ReplaysAre'
BY Replays, PTL

LEMMA PositionStays ==
    ASSUME RowsKept, NEW fs, \A f \in DOMAIN fs : fs[f].order \in DOMAIN orders, NEW s
    PROVE  Position(fs, s)' = Position(fs, s)
<1>1. \A f \in DOMAIN fs : orders'[fs[f].order] = orders[fs[f].order]
    BY DEF RowsKept, Extends
<1>2. ASSUME NEW side PROVE Traded(fs, s, side)' = Traded(fs, s, side)
    <2>1. {f \in DOMAIN fs : orders'[fs[f].order].symbol = s /\ orders'[fs[f].order].side = side}
            = {f \in DOMAIN fs : orders[fs[f].order].symbol = s /\ orders[fs[f].order].side = side}
        BY <1>1
    <2> QED BY <2>1 DEF Traded
<1> QED BY <1>2 DEF Position

LEMMA NextOrderStays ==
    ASSUME RowsKept, OrdersInv, NEW o \in DOMAIN orders, DOMAIN orders = 1..Len(orders),
           Len(orders) \in Nat, NEW fs, \A f \in DOMAIN fs : fs[f].order \in DOMAIN orders,
           IsNextOrder(fs, o)
    PROVE  IsNextOrder(fs, o)'
<1>1. \A p \in 1..(o - 1) : orders'[p] = orders[p]
    <2>1. \A p \in 1..(o - 1) : p \in DOMAIN orders
        OBVIOUS
    <2> QED BY <2>1 DEF RowsKept, Extends
<1>2. /\ orders'[o] = orders[o]
      /\ signals'[orders[o].signal] = signals[orders[o].signal]
    BY DEF RowsKept, Extends, OrdersInv
<1>3. PICK s : s = orders[o].symbol
    OBVIOUS
<1>4. Position(fs, s)' = Position(fs, s)
    BY PositionStays
<1>5. \A p : Filled(fs, p)' = Filled(fs, p)
    OBVIOUS
<1>6. /\ \A p \in 1..(o - 1) : orders[p].symbol = s => Filled(fs, p) = orders[p].quantity
      /\ (IF orders[o].side = "BUY" THEN 1 ELSE -1) * orders[o].quantity
            = signals[orders[o].signal].target - Position(fs, s)
    BY <1>3 DEF IsNextOrder
<1>7. /\ \A p \in 1..(o - 1) : orders'[p].symbol = s => Filled(fs, p)' = orders'[p].quantity
      /\ (IF orders'[o].side = "BUY" THEN 1 ELSE -1) * orders'[o].quantity
            = signals'[orders'[o].signal].target - Position(fs, s)'
      /\ s = orders'[o].symbol
    BY <1>1, <1>2, <1>3, <1>4, <1>5, <1>6
<1> QED BY <1>7 DEF IsNextOrder

\* The replay knows all the bars, and no close to stop at: it finds the same.
LEMMA FillIsNext ==
    ASSUME AccountTyped, AccountIsSolvent, BarsInv, NEW o \in DOMAIN orders,
           orders[o].symbol \in Symbol, NEW close \in Nat, NEW token \in Nat,
           FillOrder(o, close, token)
    PROVE  \E fill \in Fill :
              /\ fills' = Append(fills, fill) /\ fill.order = o
              /\ IsNextFill(fills, o, fill)
<1> DEFINE B == BarsThrough(o, close)
           C == Candidates(fills, o, B)
           b == Min(C)
           fill == FillAt(fills, o, B, token)
<1>1. C # {} /\ fills' = Append(fills, fill)
    BY DEF FillOrder, CanFill
<1>2. fill = FillFrom(fills, o, b, token)
    BY DEF FillAt, Choice, FillFrom
<1>3. PICK made \in Fill : fills' = Append(fills, made) /\ made.order = o
    BY FillMade
<1>4. made = fill
    <2>1. PICK n : n = Len(fills) + 1
        OBVIOUS
    <2>2. IsSequence(fills)
        BY TypedSequence DEF AccountTyped
    <2>3. fills'[n] = made /\ fills'[n] = fill
        <3> HIDE DEF fill
        <3> QED BY <1>1, <1>3, <2>1, <2>2, Appended
    <2> QED BY <2>3
<1>5. C \subseteq FillBars(o) /\ FillBars(o) \subseteq DOMAIN bars /\ DOMAIN bars \subseteq Nat
      /\ \A c \in FillBars(o) : bars[c].symbol = orders[o].symbol
    BY TypedSequence DEF Candidates, BarsThrough, FillBars, Series, AccountTyped
<1>6. b \in C /\ \A c \in C : b <= c
    <2> HIDE DEF C
    <2> QED BY <1>1, <1>5, MinOf
<1>7. \A c \in FillBars(o) : c \in C <=> Fillable(fills, o, c) /\ bars[c].close <= close
    BY DEF Candidates, BarsThrough, Fillable
<1>8. \A c \in FillBars(o) : c \in Nat /\ bars[c].close \in Nat
    <2>1. \A c \in DOMAIN bars : bars[c] \in Bar
        BY DEF AccountTyped
    <2> QED BY <1>5, <2>1 DEF Bar
<1> HIDE DEF C, b, B
<1>9. IsFirst(fills, o, b)
    <2>1. b \in FillBars(o) /\ Fillable(fills, o, b) /\ bars[b].close <= close
        BY <1>5, <1>6, <1>7
    <2>2. ASSUME NEW c \in FillBars(o), Fillable(fills, o, c) PROVE b <= c
        <3>1. CASE c \in C
            BY <1>6, <3>1
        <3>2. CASE c \notin C
            <4>1. ~(bars[c].close <= close)
                BY <1>7, <2>2, <3>2
            <4>2. ~(c < b)
                BY <1>5, <1>8, <2>1, <4>1 DEF BarsInv
            <4> QED BY <1>8, <2>1, <4>2
        <3> QED BY <3>1, <3>2
    <2> QED BY <2>1, <2>2 DEF IsFirst
<1>10. fill.fence = token
    BY <1>2 DEF FillFrom
<1> HIDE DEF fill
<1>11. IsNextFill(fills, o, fill)
    <2>1. BarsTyped
        BY DEF AccountTyped, BarsTyped
    <2> QED BY <1>2, <1>9, <1>10, <2>1, NextFill DEF NextFillIs
<1> QED BY <1>1, <1>3, <1>4, <1>11

JournalInv ==
    /\ \A o \in DOMAIN orders : orders[o].after \in 0..Len(fills)
    /\ JournalReplays

\* What replayed before a step replays after it.
LEMMA OldRowsReplay ==
    ASSUME RowsKept, AccountTyped, AccountTyped', OrdersInv, JournalInv
    PROVE  /\ \A f \in DOMAIN fills : FillReplays(f)'
           /\ \A o \in DOMAIN orders : OrderReplays(o)' /\ orders'[o].after \in 0..Len(fills)
<1>1. /\ BarsTyped /\ BarsTyped' /\ ReplaysAre /\ ReplaysAre'
      /\ DOMAIN fills = 1..Len(fills) /\ Len(fills) \in Nat
      /\ DOMAIN orders = 1..Len(orders) /\ Len(orders) \in Nat
      /\ fills \in Seq(Fill)
    BY TypedSequence, Replays, ReplaysNext DEF AccountTyped, BarsTyped
<1>2. ASSUME NEW m \in 0..Len(fills)
      PROVE  /\ SubSeq(fills', 1, m) = SubSeq(fills, 1, m)
             /\ \A f \in DOMAIN SubSeq(fills, 1, m) : SubSeq(fills, 1, m)[f].order \in DOMAIN orders
    <2>1. SubSeq(fills', 1, m) = SubSeq(fills, 1, m)
        BY DEF RowsKept
    <2>2. PICK any : any \in Fill
        <3>1. [order |-> 0, bar |-> 0, quantity |-> 1, cash |-> 0, fence |-> 0] \in Fill
            BY DEF Fill
        <3> QED BY <3>1
    <2>3. /\ SubSeq(fills, 1, m) \in Seq(Fill) /\ Len(SubSeq(fills, 1, m)) = m
          /\ \A f \in 1..m : SubSeq(fills, 1, m)[f] = fills[f] /\ f \in DOMAIN fills
        BY <1>1, <2>2, PrefixKept
    <2>4. DOMAIN SubSeq(fills, 1, m) = 1..m
        BY <2>3
    <2> QED BY <2>1, <2>3, <2>4 DEF OrdersInv
<1>3. ASSUME NEW f \in DOMAIN fills PROVE FillReplays(f)'
    <2>1. PICK fs, o, fill : fs = SubSeq(fills, 1, f - 1) /\ o = fills[f].order /\ fill = fills[f]
        OBVIOUS
    <2>2. f - 1 \in 0..Len(fills)
        BY <1>1
    <2>3. /\ fs = SubSeq(fills', 1, f - 1) /\ o = fills'[f].order /\ fill = fills'[f]
          /\ \A g \in DOMAIN fs : fs[g].order \in DOMAIN orders
          /\ o \in DOMAIN orders
        BY <1>2, <2>1, <2>2 DEF RowsKept, Extends, OrdersInv
    <2>4. IsNextFill(fs, o, fill)
        BY <1>1, <2>1 DEF ReplaysAre, JournalInv, JournalReplays
    <2>5. IsNextFill(fs, o, fill)'
        BY <1>1, <2>3, <2>4, NextFillStays
    <2> QED BY <1>1, <2>3, <2>5 DEF ReplaysAre
<1>4. ASSUME NEW o \in DOMAIN orders PROVE OrderReplays(o)' /\ orders'[o].after \in 0..Len(fills)
    <2>1. PICK fs : fs = SubSeq(fills, 1, orders[o].after)
        OBVIOUS
    <2>2. orders[o].after \in 0..Len(fills) /\ orders'[o] = orders[o]
        BY DEF JournalInv, RowsKept, Extends
    <2>3. /\ fs = SubSeq(fills', 1, orders'[o].after)
          /\ \A g \in DOMAIN fs : fs[g].order \in DOMAIN orders
        BY <1>2, <2>1, <2>2
    <2>4. IsNextOrder(fs, o)
        BY <1>1, <2>1 DEF ReplaysAre, JournalInv, JournalReplays
    <2>5. IsNextOrder(fs, o)'
        BY <1>1, <2>3, <2>4, NextOrderStays
    <2> QED BY <1>1, <2>2, <2>3, <2>5 DEF ReplaysAre
<1> QED BY <1>3, <1>4

LEMMA AdmitIsNext ==
    ASSUME AccountInv, OrdersInv, OrdersInv', RowsKept, NEW signal, signals' = Append(signals, signal),
           UNCHANGED <<bars, fills>>, NEW s, NEW order \in Order, Places(order, s, signal.target),
           NEW o, o = Len(orders) + 1, NEW fs, fs = fills
    PROVE  /\ DOMAIN orders' = DOMAIN orders \cup {o}
           /\ IsNextOrder(fs, o)'
           /\ orders'[o].after = Len(fills)
<1>1. AccountTyped /\ TurnsInv /\ IsSequence(orders) /\ IsSequence(signals)
    BY TypedSequence DEF AccountInv, AccountTyped
<1>2. PICK n : n = Len(signals) + 1
    OBVIOUS
<1>3. orders' = Append(orders, order) /\ order.symbol = s /\ order.signal = n /\ order.after = Len(fills)
      /\ OpenOrders(s) = {}
      /\ (IF order.side = "BUY" THEN 1 ELSE -1) * order.quantity = signal.target - Position(fills, s)
    BY <1>2 DEF Places
<1>4. /\ DOMAIN orders = 1..Len(orders) /\ Len(orders) \in Nat
      /\ DOMAIN orders' = 1..o
      /\ \A p \in DOMAIN orders : orders'[p] = orders[p]
      /\ orders'[o] = order
      /\ signals'[n] = signal
    BY <1>1, <1>2, <1>3, Appended
<1>5. DOMAIN orders' = DOMAIN orders \cup {o} /\ 1..(o - 1) = DOMAIN orders
    BY <1>2, <1>4
<1>6. ASSUME NEW p \in DOMAIN orders, orders[p].symbol = s PROVE Filled(fs, p)' = orders[p].quantity
    <2>1. ~IsOpen(p)
        BY <1>3, <1>6 DEF OpenOrders
    <2>2. Filled(fills, p) <= orders[p].quantity
        BY <1>1 DEF TurnsInv
    <2>3. Filled(fills, p) \in Int /\ orders[p].quantity \in Int
        BY <1>1, AccountNumbers
    <2>4. Filled(fills, p) = orders[p].quantity
        BY <2>1, <2>2, <2>3 DEF IsOpen
    <2> QED BY <1>2, <2>4
<1>7. Position(fs, s)' = Position(fills, s)
    <2>1. \A f \in DOMAIN fs : fs[f].order \in DOMAIN orders
        BY <1>2 DEF OrdersInv
    <2> QED BY <1>2, <2>1, PositionStays
<1>8. IsNextOrder(fs, o)'
    <2>1. \A p \in 1..(o - 1) : orders'[p].symbol = s => Filled(fs, p)' = orders'[p].quantity
        BY <1>4, <1>5, <1>6
    <2>2. (IF orders'[o].side = "BUY" THEN 1 ELSE -1) * orders'[o].quantity
             = signals'[orders'[o].signal].target - Position(fs, s)'
        BY <1>3, <1>4, <1>7
    <2>3. orders'[o].symbol = s
        BY <1>3, <1>4
    <2> QED BY <2>1, <2>2, <2>3 DEF IsNextOrder
<1> QED BY <1>3, <1>4, <1>5, <1>8

LEMMA JournalKept ==
    RunInv /\ AccountInv /\ JournalInv /\ [Next]_vars => JournalInv'
<1> SUFFICES ASSUME RunInv, AccountInv, JournalInv, [Next]_vars PROVE JournalInv'
    OBVIOUS
<1>1. /\ RunShapes /\ BarsInv /\ OrdersInv /\ PlansInv /\ OrdersInv' /\ RowsKept
      /\ AccountTyped /\ AccountTyped' /\ AccountIsSolvent
      /\ ReplaysAre'
    BY OrdersHold, RowsStay, AccountKept, ReplaysNext DEF RunInv, AccountInv
<1>2. /\ \A f \in DOMAIN fills : FillReplays(f)'
      /\ \A o \in DOMAIN orders : OrderReplays(o)' /\ orders'[o].after \in 0..Len(fills)
    BY <1>1, OldRowsReplay
<1>3. /\ IsSequence(fills) /\ DOMAIN fills = 1..Len(fills) /\ Len(fills) \in Nat
      /\ fills \in Seq(Fill)
      /\ exec.fence \in Nat /\ selection.id \in Nat
    BY <1>1, TypedSequence DEF AccountTyped, RunShapes
<1>4. CASE UNCHANGED <<orders, fills>>
    BY <1>2, <1>4 DEF JournalInv, JournalReplays
<1>5. ASSUME NEW p \in Process, FillStep(p) PROVE JournalInv'
    <2>1. PICK o \in DOMAIN orders, close \in Nat : FillOrder(o, close, exec.fence)
        BY <1>5, FillOfRun
    <2>2. orders[o].symbol \in Symbol
        <3>1. orders[o] \in Order
            BY <1>1, <2>1 DEF AccountTyped
        <3> QED BY <3>1 DEF Order
    <2>3. PICK fill \in Fill : fills' = Append(fills, fill) /\ fill.order = o /\ IsNextFill(fills, o, fill)
        BY <1>1, <1>3, <2>1, <2>2, FillIsNext
    <2>4. PICK n, fs : n = Len(fills) + 1 /\ fs = fills
        OBVIOUS
    <2>5. /\ DOMAIN fills' = DOMAIN fills \cup {n} /\ fills'[n] = fill
          /\ Len(fills') = Len(fills) + 1
        BY <1>3, <2>3, <2>4, Appended
    <2>6. SubSeq(fills', 1, n - 1) = fs
        <3>1. SubSeq(fills', 1, Len(fills)) = fills
            BY <1>3, <2>3, PrefixKept
        <3> QED BY <1>3, <2>4, <3>1
    <2>7. IsNextFill(fs, o, fill)'
        <3>1. \A f \in DOMAIN fs : fs[f].order \in DOMAIN orders
            BY <1>1, <2>4 DEF OrdersInv
        <3>2. BarsTyped /\ BarsTyped'
            BY <1>1 DEF AccountTyped, BarsTyped
        <3> QED BY <1>1, <2>1, <2>3, <2>4, <3>1, <3>2, NextFillStays
    <2>8. FillReplays(n)'
        BY <1>1, <2>3, <2>5, <2>6, <2>7 DEF ReplaysAre
    <2>9. UNCHANGED orders
        BY <2>1 DEF FillOrder
    <2> QED BY <1>2, <1>3, <2>5, <2>8, <2>9 DEF JournalInv, JournalReplays
<1>6. ASSUME NEW p \in Process, Admit(p) PROVE JournalInv'
    <2>1. UNCHANGED paperVars \/ \E target \in Target : AdmitSignal(proc[p].bar, target, selection.id)
        BY <1>6 DEF Admit
    <2>2. CASE UNCHANGED paperVars
        BY <1>4, <2>2 DEF paperVars
    <2>3. ASSUME NEW target \in Target, AdmitSignal(proc[p].bar, target, selection.id) PROVE JournalInv'
        <3>1. proc[p].bar \in DOMAIN bars
            BY <1>1, <1>6 DEF Admit, PlansInv, PlanHolds
        <3>0. PICK s : s = bars[proc[p].bar].symbol
            OBVIOUS
        <3>2. PICK signal \in Signal :
                 /\ signals' = Append(signals, signal) /\ UNCHANGED <<bars, fills>>
                 /\ signal.target = target
                 /\ UNCHANGED orders \/ \E order \in Order : Places(order, s, target)
            BY <1>3, <2>3, <3>0, <3>1, AdmitMade
        <3>3. ASSUME NEW order \in Order, Places(order, s, target) PROVE JournalInv'
            <4>1. PICK o, fs : o = Len(orders) + 1 /\ fs = fills
                OBVIOUS
            <4>2. /\ DOMAIN orders' = DOMAIN orders \cup {o}
                  /\ IsNextOrder(fs, o)' /\ orders'[o].after = Len(fills)
                BY <1>1, <3>2, <3>3, <4>1, AdmitIsNext
            <4>3. SubSeq(fills', 1, orders'[o].after) = fs
                <5>1. SubSeq(fills, 1, Len(fills)) = fills
                    BY <1>3
                <5> QED BY <3>2, <4>1, <4>2, <5>1
            <4>4. OrderReplays(o)'
                BY <1>1, <4>2, <4>3 DEF ReplaysAre
            <4> QED BY <1>2, <1>3, <3>2, <4>2, <4>4 DEF JournalInv, JournalReplays
        <3> QED BY <1>4, <3>2, <3>3
    <2> QED BY <2>1, <2>2, <2>3
<1>7. MarketMoves => UNCHANGED <<orders, fills>>
    BY DEF MarketMoves, ImportBar
<1>8. (UNCHANGED vars => UNCHANGED paperVars) /\ (UNCHANGED paperVars => UNCHANGED <<orders, fills>>)
    BY DEF vars, paperVars
<1> QED BY <1>4, <1>5, <1>6, <1>7, <1>8, StepKinds, QuietKeeps, OutsideKeeps

LEMMA JournalAlways == Spec => []JournalInv
<1>1. Init => JournalInv
    BY DEF Init, PaperInit, JournalInv, JournalReplays
<1> QED BY <1>1, JournalKept, AccountAlways, RunAlways, PTL DEF Spec

-----------------------------------------------------------------------------
(* The valuations.  The value of an account at a close is a sum over the     *)
(* bars of that close, and bars that come later do not enter it.             *)

\* The bars a valuation at close k takes its prices from.
PricedAt(fs, k) == {b \in MarksAt(k) : bars[b].symbol \in Held(fs)}

\* What each of these bars adds to the value.
Worths(fs, M, amount) ==
    \A b \in M : \A s \in {bars[b].symbol} : amount[b] = Position(fs, s) * bars[b].open

EquityIs ==
    \A fs, k, M, amount, sum :
        M = PricedAt(fs, k) /\ IsFiniteSet(M) /\ Worths(fs, M, amount) /\ SumsUp(sum, M, amount)
            => Equity(fs, k) = Cash(fs) + sum[M]

LEMMA Equities == EquityIs
<1> SUFFICES ASSUME NEW fs, NEW k, NEW M, M = PricedAt(fs, k), IsFiniteSet(M),
                    NEW amount, Worths(fs, M, amount), NEW sum, SumsUp(sum, M, amount)
             PROVE  Equity(fs, k) = Cash(fs) + sum[M]
    BY DEF EquityIs
<1> DEFINE Follows(it) ==
              it = [T \in SUBSET M |->
                       IF T = {} THEN 0
                       ELSE Position(fs, bars[Picked(T)].symbol) * bars[Picked(T)].open + it[T \ {Picked(T)}]]
           it == CHOOSE it : Follows(it)
<1>1. Equity(fs, k) = Cash(fs) + it[M]
    BY DEF Equity, PricedAt, MapThenSumSet, MapThenFoldSet, Picked
<1>2. \A T \in SUBSET M : T # {} =>
         amount[Picked(T)] = Position(fs, bars[Picked(T)].symbol) * bars[Picked(T)].open
    BY DEF Picked, Worths
<1>3. ASSUME NEW other PROVE Follows(other) <=> Recurses(other, M, amount)
    BY <1>2 DEF Recurses
<1> HIDE DEF Follows
<1>4. Follows(sum)
    BY <1>3, SumRecurses
<1>5. Follows(it)
    BY <1>4
<1> HIDE DEF it
<1>6. it[M] = sum[M]
    BY <1>3, <1>5, RecursionSums
<1> QED BY <1>1, <1>6

LEMMA EquitiesNext == EquityIs'
BY Equities, PTL

\* Fills of the account: part of them, in any order.
SomeFills(fs) ==
    /\ IsFiniteSet(DOMAIN fs)
    /\ \A f \in DOMAIN fs : fs[f] \in Fill /\ fs[f].order \in DOMAIN orders

LEMMA NumbersOfSome ==
    ASSUME NEW fs, SomeFills(fs)
    PROVE  Cash(fs) \in Int /\ \A s : Position(fs, s) \in Int
<1>1. IsFiniteSet(DOMAIN fs) /\ \A f \in DOMAIN fs : fs[f].quantity \in Int /\ fs[f].cash \in Int
    BY DEF SomeFills, Fill
<1>2. Cash(fs) \in Int
    <2>1. CashIn(fs, DOMAIN fs) \in Int
        BY <1>1, CashLaws
    <2> QED BY <2>1, PaperAssumption DEF Cash, CashIn
<1>3. ASSUME NEW s PROVE Position(fs, s) \in Int
    <2>1. ASSUME NEW side PROVE Traded(fs, s, side) \in Int
        <3> DEFINE F == {f \in DOMAIN fs : orders[fs[f].order].symbol = s /\ orders[fs[f].order].side = side}
        <3>1. IsFiniteSet(F) /\ \A f \in F : fs[f].quantity \in Int
            <4>1. F \subseteq DOMAIN fs
                OBVIOUS
            <4> HIDE DEF F
            <4> QED BY <1>1, <4>1, FS_Subset
        <3>2. Traded(fs, s, side) = SharesIn(fs, F)
            BY DEF Traded
        <3> HIDE DEF F
        <3> QED BY <3>1, <3>2, SharesLaws
    <2> QED BY <2>1 DEF Position
<1> QED BY <1>2, <1>3

\* The prices of a close and the value of the account stay what they are.
LEMMA EquityStays ==
    ASSUME RowsKept, BarsTyped, BarsTyped', BarsInv, BarsInv',
           NEW fs, SomeFills(fs), NEW k, CanValue(fs, k)
    PROVE  CanValue(fs, k)' /\ Equity(fs, k)' = Equity(fs, k) /\ Equity(fs, k) \in Int
<1>1. /\ DOMAIN bars \subseteq DOMAIN bars' /\ \A b \in DOMAIN bars : bars'[b] = bars[b]
      /\ DOMAIN bars = 1..Len(bars) /\ Len(bars) \in Nat /\ \A b \in DOMAIN bars : bars[b] \in Bar
      /\ DOMAIN bars' \subseteq Nat /\ \A b \in DOMAIN bars' : bars'[b] \in Bar
    BY TypedSequence DEF RowsKept, Extends, BarsTyped
<1>2. /\ Cash(fs)' = Cash(fs) /\ Cash(fs) \in Int
      /\ \A s : Position(fs, s)' = Position(fs, s) /\ Position(fs, s) \in Int
    <2>1. \A f \in DOMAIN fs : fs[f].order \in DOMAIN orders
        BY DEF SomeFills
    <2>2. \A s : Position(fs, s)' = Position(fs, s)
        BY <2>1, PositionStays
    <2> QED BY <2>2, NumbersOfSome
<1>3. PICK H : H = Held(fs) /\ Held(fs)' = H
    BY <1>2 DEF Held
<1>4. CanValue(fs, k)'
    <2>1. MarksAt(k) \subseteq MarksAt(k)'
        BY <1>1 DEF MarksAt
    <2>2. /\ MarksAt(k) # {} /\ \A s \in H : \E b \in MarksAt(k) : bars[b].symbol = s
        BY <1>3 DEF CanValue
    <2>3. MarksAt(k)' # {} /\ \A s \in H : \E b \in MarksAt(k)' : bars'[b].symbol = s
        BY <1>1, <2>1, <2>2 DEF MarksAt
    <2> QED BY <1>3, <2>3 DEF CanValue
<1>5. PICK M : M = PricedAt(fs, k)
    OBVIOUS
<1>6. PricedAt(fs, k)' = M
    <2>1. M = {b \in DOMAIN bars : bars[b].close = k /\ bars[b].symbol \in H}
        BY <1>3, <1>5 DEF PricedAt, MarksAt
    <2>2. PricedAt(fs, k)' = {b \in DOMAIN bars' : bars'[b].close = k /\ bars'[b].symbol \in H}
        BY <1>3 DEF PricedAt, MarksAt
    <2>3. ASSUME NEW b \in DOMAIN bars', bars'[b].close = k, bars'[b].symbol \in H PROVE b \in DOMAIN bars
        <3>1. PICK c \in DOMAIN bars : bars[c].close = k /\ bars[c].symbol = bars'[b].symbol
            BY <1>3, <2>3 DEF CanValue, MarksAt
        <3>2. c \in DOMAIN bars' /\ bars'[c].close = k /\ bars'[c].symbol = bars'[b].symbol
            BY <1>1, <3>1
        <3>3. b \in Nat /\ c \in Nat /\ bars'[b].close \in Nat
            BY <1>1, <3>2 DEF Bar
        <3>4. ~(b < c) /\ ~(c < b)
            <4>1. ~(bars'[b].close < bars'[c].close) /\ ~(bars'[c].close < bars'[b].close)
                BY <2>3, <3>2, <3>3
            <4> QED BY <3>2, <4>1 DEF BarsInv
        <3> QED BY <3>1, <3>3, <3>4
    <2> QED BY <1>1, <2>1, <2>2, <2>3
<1>7. IsFiniteSet(M) /\ M \subseteq DOMAIN bars
    <2>1. M \subseteq 1..Len(bars)
        BY <1>1, <1>5 DEF PricedAt, MarksAt
    <2>2. IsFiniteSet(1..Len(bars))
        BY <1>1, FS_Interval
    <2> QED BY <1>1, <2>1, <2>2, FS_Subset
<1>8. PICK amount : /\ Worths(fs, M, amount) /\ Worths(fs, M, amount)'
                    /\ \A b \in M : amount[b] \in Int
    <2> DEFINE worth == [b \in M |-> Position(fs, bars[b].symbol) * bars[b].open]
    <2>1. ASSUME NEW b \in M, NEW s, s = bars[b].symbol
          PROVE  worth[b] = Position(fs, s) * bars[b].open /\ worth[b] \in Int
        <3>1. worth[b] = Position(fs, s) * bars[b].open
            BY <2>1
        <3>2. Position(fs, s) \in Int /\ bars[b].open \in Int
            BY <1>1, <1>2, <1>7 DEF Bar
        <3> QED BY <3>1, <3>2
    <2>2. \A b \in M : bars'[b] = bars[b]
        BY <1>1, <1>7
    <2> HIDE DEF worth
    <2>3. PICK amount : amount = worth
        OBVIOUS
    <2>4. Worths(fs, M, amount)
        BY <2>1, <2>3 DEF Worths
    <2>5. ASSUME NEW b \in M, NEW s \in {bars'[b].symbol}
          PROVE  amount[b] = Position(fs, s)' * bars'[b].open
        BY <1>2, <2>1, <2>2, <2>3, <2>5
    <2>6. Worths(fs, M, amount)'
        BY <2>5 DEF Worths
    <2> QED BY <2>1, <2>3, <2>4, <2>6
<1>9. PICK sum : SumsUp(sum, M, amount)
    BY <1>7, <1>8, SumExists
<1>10. Equity(fs, k) = Cash(fs) + sum[M]
    BY <1>5, <1>7, <1>8, <1>9, Equities DEF EquityIs
<1>11. Equity(fs, k)' = Cash(fs)' + sum[M]
    BY <1>6, <1>7, <1>8, <1>9, EquitiesNext DEF EquityIs
<1>12. sum[M] \in Int
    BY <1>9 DEF SumsUp
<1> QED BY <1>2, <1>4, <1>10, <1>11, <1>12

\* A valuation holds of these fills.
IsValue(point, fs) == CanValue(fs, point.asOf) /\ point.equity = Equity(fs, point.asOf)

PointReplaysIs ==
    \A i, point, fs :
        point = points[i] /\ fs = Bounded(point.cutoff, point.asOf) =>
            (PointReplays(i) <=> IsValue(point, fs) /\ (i > 1 => points[i - 1].asOf < point.asOf))

LEMMA PointReplay == PointReplaysIs
BY DEF PointReplaysIs, PointReplays, IsValue

LEMMA PointReplayNext == PointReplaysIs'
BY PointReplay, PTL

\* The fills of a valuation are fills that are stored.
LEMMA BoundedIs ==
    ASSUME AccountTyped, OrdersInv, NEW n \in 0..Len(fills), NEW k, NEW fs, fs = Bounded(n, k)
    PROVE  SomeFills(fs) /\ (RowsKept => Bounded(n, k)' = fs)
<1>1. /\ DOMAIN fills = 1..Len(fills) /\ Len(fills) \in Nat /\ n \in Nat
      /\ \A f \in DOMAIN fills : fills[f] \in Fill
    BY TypedSequence DEF AccountTyped
<1>2. 1..n \subseteq DOMAIN fills
    BY <1>1
<1> DEFINE F == {g \in 1..n : bars[fills[g].bar].close <= k}
<1>3. DOMAIN fs = F /\ \A f \in F : fs[f] = fills[f]
    BY DEF Bounded
<1>4. IsFiniteSet(F)
    <2>1. IsFiniteSet(1..n)
        BY <1>1, FS_Interval
    <2> QED BY <2>1, FS_Subset
<1>5. SomeFills(fs)
    <2>1. F \subseteq DOMAIN fills
        BY <1>2
    <2> HIDE DEF F
    <2> QED BY <1>1, <1>3, <1>4, <2>1 DEF SomeFills, OrdersInv
<1>6. ASSUME RowsKept PROVE Bounded(n, k)' = fs
    <2>1. \A g \in 1..n : fills'[g] = fills[g] /\ bars'[fills[g].bar] = bars[fills[g].bar]
        BY <1>2, <1>6 DEF RowsKept, Extends, OrdersInv
    <2>2. {g \in 1..n : bars'[fills'[g].bar].close <= k} = F
        BY <2>1
    <2>3. Bounded(n, k)' = [f \in {g \in 1..n : bars'[fills'[g].bar].close <= k} |-> fills'[f]]
        BY DEF Bounded
    <2>4. Bounded(n, k) = [f \in F |-> fills[f]]
        BY DEF Bounded
    <2>5. \A f \in F : fills'[f] = fills[f]
        BY <2>1
    <2> HIDE DEF F
    <2> QED BY <2>2, <2>3, <2>4, <2>5
<1> QED BY <1>5, <1>6

\* A value that was right stays right.
LEMMA ValueStays ==
    ASSUME RowsKept, AccountTyped, AccountTyped', BarsInv, BarsInv', OrdersInv,
           NEW point, point.cutoff \in 0..Len(fills),
           NEW fs, fs = Bounded(point.cutoff, point.asOf), IsValue(point, fs)
    PROVE  /\ Bounded(point.cutoff, point.asOf)' = fs
           /\ IsValue(point, fs)' /\ point.equity \in Int
<1>1. SomeFills(fs) /\ Bounded(point.cutoff, point.asOf)' = fs
    BY BoundedIs
<1>2. CanValue(fs, point.asOf) /\ point.equity = Equity(fs, point.asOf)
    BY DEF IsValue
<1>3. BarsTyped /\ BarsTyped'
    BY DEF AccountTyped, BarsTyped
<1>4. PICK k : k = point.asOf
    OBVIOUS
<1>5. CanValue(fs, k)' /\ Equity(fs, k)' = Equity(fs, k) /\ Equity(fs, k) \in Int
    BY <1>1, <1>2, <1>3, <1>4, EquityStays
<1> QED BY <1>1, <1>2, <1>4, <1>5 DEF IsValue

ValuationsInv ==
    /\ \A i \in DOMAIN points : points[i].cutoff \in 0..Len(fills) /\ points[i].equity \in Int
    /\ ValuationsReplay

LEMMA NewValue ==
    ASSUME NEW p \in Process, Value(p)
    PROVE  \/ UNCHANGED points
           \/ \E point : /\ points' = Append(points, point)
                         /\ points # <<>> => Newest.asOf < point.asOf
                         /\ point.cutoff = Len(fills)
                         /\ IsValue(point, Bounded(point.cutoff, point.asOf))
<1>1. SUFFICES ASSUME ~ UNCHANGED points
      PROVE  \E point : /\ points' = Append(points, point)
                        /\ points # <<>> => Newest.asOf < point.asOf
                        /\ point.cutoff = Len(fills)
                        /\ IsValue(point, Bounded(point.cutoff, point.asOf))
    OBVIOUS
<1> DEFINE k == AsOf(p)
           n == Len(fills)
           e == Equity(Bounded(n, k), k)
           point == [asOf |-> k, cutoff |-> n, equity |-> e, selection |-> selection.id, decision |-> "none"]
<1>2. /\ points # <<>> => Newest.asOf < k
      /\ CanValue(Bounded(n, k), k)
      /\ points' = Append(points, point)
    BY <1>1 DEF Value
<1> HIDE DEF k, n, e
<1>3. point.asOf = k /\ point.cutoff = n /\ point.equity = e
    OBVIOUS
<1>4. IsValue(point, Bounded(point.cutoff, point.asOf))
    BY <1>2, <1>3 DEF IsValue, e
<1> QED BY <1>2, <1>3, <1>4 DEF n

LEMMA ValuationsKept ==
    RunInv /\ AccountInv /\ ValuationsInv /\ [Next]_vars => ValuationsInv'
<1> SUFFICES ASSUME RunInv, AccountInv, ValuationsInv, [Next]_vars PROVE ValuationsInv'
    OBVIOUS
<1>1. /\ RunShapes /\ BarsInv /\ BarsInv' /\ OrdersInv /\ PointsInv /\ RowsKept
      /\ AccountTyped /\ AccountTyped' /\ PointShapes /\ PointReplaysIs /\ PointReplaysIs'
      /\ LeasesInv /\ PlansInv
    BY StepKeeps, RowsStay, AccountKept, PointReplay, PointReplayNext
    DEF RunInv, RunShapes, PointShapes, AccountInv
<1>2. /\ DOMAIN fills = 1..Len(fills) /\ Len(fills) \in Nat
      /\ DOMAIN fills' = 1..Len(fills') /\ Len(fills') \in Nat
      /\ DOMAIN points = 1..Len(points) /\ Len(points) \in Nat
    BY <1>1, TypedSequence, PointsIndexed DEF AccountTyped
<1>3. 0..Len(fills) \subseteq 0..Len(fills')
    <2>1. 1..Len(fills) \subseteq 1..Len(fills')
        BY <1>1, <1>2 DEF RowsKept, Extends
    <2> QED BY <1>2, <2>1
<1>4. ASSUME NEW i \in DOMAIN points,
             points'[i].asOf = points[i].asOf, points'[i].cutoff = points[i].cutoff,
             points'[i].equity = points[i].equity,
             i > 1 => points'[i - 1].asOf < points[i].asOf
      PROVE  PointReplays(i)' /\ points'[i].cutoff \in 0..Len(fills') /\ points'[i].equity \in Int
    <2>1. PICK point, fs : point = points[i] /\ fs = Bounded(point.cutoff, point.asOf)
        OBVIOUS
    <2>2. point.cutoff \in 0..Len(fills) /\ point.equity \in Int /\ IsValue(point, fs)
        BY <1>1, <2>1 DEF ValuationsInv, ValuationsReplay, PointReplaysIs
    <2>3. Bounded(point.cutoff, point.asOf)' = fs /\ IsValue(point, fs)'
        BY <1>1, <2>1, <2>2, ValueStays
    <2>4. PICK next : next = points'[i]
        OBVIOUS
    <2>5. /\ next.asOf = point.asOf /\ next.cutoff = point.cutoff /\ next.equity = point.equity
          /\ i > 1 => points'[i - 1].asOf < next.asOf
        BY <1>4, <2>1, <2>4
    <2>6. fs = Bounded(next.cutoff, next.asOf)'
        <3>1. PICK n, k : n = point.cutoff /\ k = point.asOf
            OBVIOUS
        <3>2. Bounded(n, k)' = fs
            BY <2>3, <3>1
        <3>3. n = next.cutoff /\ k = next.asOf
            BY <2>5, <3>1
        <3> QED BY <3>2, <3>3
    <2>7. IsValue(next, fs)'
        BY <2>3, <2>5 DEF IsValue
    <2>8. PointReplays(i)'
        BY <1>1, <2>4, <2>5, <2>6, <2>7 DEF PointReplaysIs
    <2> QED BY <1>3, <2>2, <2>4, <2>5, <2>8
<1>5. \A i \in DOMAIN points : i > 1 => i - 1 \in DOMAIN points /\ points[i - 1].asOf < points[i].asOf
    <2>1. ASSUME NEW i \in DOMAIN points, i > 1
          PROVE  i - 1 \in DOMAIN points /\ points[i - 1].asOf < points[i].asOf
        <3>1. i - 1 \in DOMAIN points /\ i - 1 < i
            BY <1>2, <2>1
        <3> QED BY <1>1, <3>1 DEF PointsInv
    <2> QED BY <2>1
<1>6. CASE UNCHANGED points
    <2>1. \A i \in DOMAIN points : PointReplays(i)' /\ points'[i].cutoff \in 0..Len(fills')
                                   /\ points'[i].equity \in Int
        BY <1>4, <1>5, <1>6
    <2> QED BY <1>6, <2>1 DEF ValuationsInv, ValuationsReplay
<1>7. ASSUME NEW p \in Process, Value(p) PROVE ValuationsInv'
    <2>1. ASSUME NEW point, points' = Append(points, point), points # <<>> => Newest.asOf < point.asOf,
                 point.cutoff = Len(fills), IsValue(point, Bounded(point.cutoff, point.asOf))
          PROVE  ValuationsInv'
        <3>1. PICK n, fs : n = Len(points) + 1 /\ fs = Bounded(point.cutoff, point.asOf)
            OBVIOUS
        <3>2. /\ DOMAIN points' = DOMAIN points \cup {n}
              /\ \A i \in DOMAIN points : points'[i] = points[i]
              /\ points'[n] = point
            BY <1>1, <1>2, <2>1, <3>1, Appended DEF PointShapes
        <3>3. \A i \in DOMAIN points : PointReplays(i)' /\ points'[i].cutoff \in 0..Len(fills')
                                       /\ points'[i].equity \in Int
            BY <1>4, <1>5, <3>2
        <3>4. point.cutoff \in 0..Len(fills)
            BY <1>2, <2>1
        <3>5. Bounded(point.cutoff, point.asOf)' = fs /\ IsValue(point, fs)' /\ point.equity \in Int
            BY <1>1, <2>1, <3>1, <3>4, ValueStays
        <3>6. n > 1 => points'[n - 1].asOf < point.asOf
            <4>1. ASSUME n > 1 PROVE points # <<>> /\ n - 1 = Len(points) /\ n - 1 \in DOMAIN points
                BY <1>1, <1>2, <3>1, <4>1, PointsIndexed
            <4> QED BY <2>1, <3>2, <4>1 DEF Newest
        <3>7. PointReplays(n)'
            BY <1>1, <3>2, <3>5, <3>6 DEF PointReplaysIs
        <3> QED BY <1>3, <3>2, <3>3, <3>4, <3>5, <3>7 DEF ValuationsInv, ValuationsReplay
    <2> QED BY <1>6, <1>7, <2>1, NewValue
<1>8. ASSUME NEW p \in Process, Decide(p) PROVE ValuationsInv'
    <2>1. PICK d \in {"INSUFFICIENT", "HOLD", "HALT_AND_ROLLBACK"} :
             Len(points) \in DOMAIN points /\ points' = [points EXCEPT ![Len(points)].decision = d]
        BY <1>1, <1>8, DecideIs
    <2>2. /\ DOMAIN points' = DOMAIN points
          /\ \A i \in DOMAIN points : /\ points'[i].asOf = points[i].asOf
                                      /\ points'[i].cutoff = points[i].cutoff
                                      /\ points'[i].equity = points[i].equity
        BY <1>1, <2>1, Decided
    <2>3. \A i \in DOMAIN points : PointReplays(i)' /\ points'[i].cutoff \in 0..Len(fills')
                                   /\ points'[i].equity \in Int
        BY <1>4, <1>5, <2>2
    <2> QED BY <2>2, <2>3 DEF ValuationsInv, ValuationsReplay
<1> QED BY <1>6, <1>7, <1>8, PointsKept

LEMMA ValuationsAlways == Spec => []ValuationsInv
<1>1. Init => ValuationsInv
    BY DEF Init, ValuationsInv, ValuationsReplay
<1> QED BY <1>1, ValuationsKept, AccountAlways, RunAlways, PTL DEF Spec

\* What is stored is accepted by the proofs that every later operation of the
\* database begins with, whatever bars were stored since and whichever runs
\* wrote it: every fill takes the first bar that gives anything, with the
\* amounts that the fills before it allow, every order trades what was missing,
\* and every valuation follows from the fills up to its two cutoffs
\* (paper_accounting.go replayPaperAccountingState, paper_performance.go
\* provePaperPerformanceRecovery).
THEOREM RecoveryAlwaysAccepts == Spec => []RecoveryAccepts
<1>1. RunInv /\ AccountInv /\ JournalInv /\ ValuationsInv => RecoveryAccepts
    <2> SUFFICES ASSUME RunInv, AccountInv, JournalInv, ValuationsInv PROVE RecoveryAccepts
        OBVIOUS
    <2>1. FillsTypeOK /\ JournalReplays /\ ValuationsReplay
        BY DEF RunInv, OrdersInv, AccountInv, AccountTyped, JournalInv, FillsTypeOK, ValuationsInv
    <2>2. points \in Seq(Point)
        <3>1. IsSequence(points) /\ DOMAIN points = 1..Len(points)
            BY PointsIndexed DEF RunInv, RunShapes, PointShapes
        <3>2. ASSUME NEW i \in DOMAIN points PROVE points[i] \in Point
            <4>1. IsPoint(points[i]) /\ points[i].cutoff \in Nat /\ points[i].equity \in Int
                BY DEF RunInv, RunShapes, ValuationsInv
            <4> QED BY <4>1 DEF IsPoint, Point
        <3>3. Len(points) \in Nat /\ points = [i \in 1..Len(points) |-> points[i]]
            BY <3>1 DEF IsSequence
        <3> QED BY <3>1, <3>2, <3>3
    <2>3. RunTypeOK
        BY <2>1, <2>2 DEF RunTypeOK, RunInv, RunShapes
    <2> QED BY <2>1, <2>3 DEF RecoveryAccepts
<1> QED BY <1>1, JournalAlways, ValuationsAlways, AccountAlways, RunAlways, PTL
=============================================================================
