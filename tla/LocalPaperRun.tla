---------------------------- MODULE LocalPaperRun ----------------------------
(***************************************************************************)
(* paper-execute and paper-execute-stream (paper_local.go, paper_stream.go)*)
(* work through the market closes of one account: at each close the open   *)
(* orders are filled, the account is valued and the safety policy decides, *)
(* and only after the last close a new order is admitted.  A run holds the *)
(* runner lease and the execution lease of the account, every transaction  *)
(* checks them, and it may die, lose a lease or be stopped between any two *)
(* transactions.                                                           *)
(*                                                                         *)
(* Orders and fills are those of PaperFills.  A lease is its newest fence, *)
(* and time is whether it is still live (FencedLease says what that        *)
(* stands for).  A strategy trades one symbol.                             *)
(***************************************************************************)
EXTENDS PaperFills

CONSTANTS
    Process,
    DrawdownParts,  \* a loss of 1/DrawdownParts of the peak halts: 10 in the code
    ReturnParts,    \* so does one of 1/ReturnParts of the first value: 20
    MaxRuns,        \* bound on the claims of the runner lease
    MaxRenewals,    \* bound on the renewals of the execution lease
    MaxFaults,      \* bound on kills, expiries and what operators do
    MaxSelections   \* bound on the selections of a strategy

VARIABLES
    runner,     \* the runner lease: held or not, its fence and its selection
    exec,       \* the execution authority of the account
    selection,  \* the current selection: its number, symbol, first close and event
    points,     \* the valuations of the account, in order
    proc,       \* what each process is doing
    renewals,   \* the renewals so far
    faults,     \* the kills, expiries and operator's actions so far
    stop        \* the last stop by an operator: its fence and the fills before it

bounds == <<renewals, faults>>

runVars == <<runner, exec, selection, points, proc, stop, bounds>>

vars == <<paperVars, runVars>>

Pc == {"idle", "acquire", "prepare", "start", "plan", "close", "fill", "value", "decide",
       "admit", "wait", "halt", "release"}

Proc == [pc: Pc, bar: Nat, claim: Nat, lease: Nat, selection: Nat,
         closes: SUBSET Nat, todo: SUBSET Nat]

Point == [asOf: Nat, cutoff: Nat, equity: Int, selection: Nat,
          decision: {"none", "INSUFFICIENT", "HOLD", "HALT_AND_ROLLBACK"}]

Event == {"SELECT", "ROLLBACK"}

RunTypeOK ==
    /\ FillsTypeOK
    /\ runner \in [held: BOOLEAN, live: BOOLEAN, fence: Nat, selection: Nat]
    /\ exec \in [armed: BOOLEAN, leased: BOOLEAN, live: BOOLEAN, fence: Nat]
    /\ selection \in [id: Nat, symbol: Symbol, since: Nat, event: Event]
    /\ points \in Seq(Point)
    /\ proc \in [Process -> Proc]

Newest == points[Len(points)]

PointsAt(k) == {i \in DOMAIN points : points[i].asOf = k}

StoredCloses == {bars[b].close : b \in DOMAIN bars}

-----------------------------------------------------------------------------
(* Valuation and policy *)

\* The fills a valuation at close k saw when it was written after n fills.
Bounded(n, k) == [f \in {g \in 1..n : bars[fills[g].bar].close <= k} |-> fills[f]]

MarksAt(k) == {b \in DOMAIN bars : bars[b].close = k}

Held(fs) == {s \in Symbol : Position(fs, s) > 0}

\* Every position has a bar at this very close, and there is a bar at all.
CanValue(fs, k) ==
    /\ MarksAt(k) # {}
    /\ Held(fs) \subseteq {bars[b].symbol : b \in MarksAt(k)}

\* ValueAccount; a bar closes at the price it opened with.
Equity(fs, k) ==
    Cash(fs) + MapThenSumSet(LAMBDA b : Position(fs, bars[b].symbol) * bars[b].open,
                             {b \in MarksAt(k) : bars[b].symbol \in Held(fs)})

\* provePaperPerformanceRecovery accepts valuation i: it is later than the one
\* before it, and the fills up to its two cutoffs give its equity again.
PointReplays(i) ==
    LET point == points[i]
        fs == Bounded(point.cutoff, point.asOf)
    IN  /\ i > 1 => points[i - 1].asOf < point.asOf
        /\ CanValue(fs, point.asOf)
        /\ point.equity = Equity(fs, point.asOf)

\* The valuations the strategy is measured on: those of the current selection
\* from its first close on.
Window(i) == {j \in 1..i : /\ points[j].selection = selection.id
                           /\ points[j].asOf >= selection.since}

\* EvaluatePaperPerformancePolicy
IsLoss(W) ==
    \/ \E i, j \in W : i < j /\ DrawdownParts * (points[i].equity - points[j].equity) >= points[i].equity
    \/ ReturnParts * (points[Min(W)].equity - points[Max(W)].equity) >= points[Min(W)].equity

DecisionFor(i) ==
    IF Cardinality(Window(i)) < 2 THEN "INSUFFICIENT"
    ELSE IF IsLoss(Window(i)) THEN "HALT_AND_ROLLBACK" ELSE "HOLD"

-----------------------------------------------------------------------------
(* Leases *)

HoldsClaim(p) ==
    /\ runner.held /\ runner.live
    /\ runner.fence = proc[p].claim
    /\ runner.selection = selection.id

HoldsExec(p) ==
    /\ exec.armed /\ exec.leased /\ exec.live
    /\ exec.fence = proc[p].lease

Goto(p, pc) == proc' = [proc EXCEPT ![p].pc = pc]

\* Broken RenewBoth: the run goes on with its old token.
RenewBothKeepingToken(p) ==
    /\ exec' = [exec EXCEPT !.fence = @ + 1]
    /\ UNCHANGED proc

\* heartbeatLocalPaperExecution: the execution lease moves to the next fence
\* and the run takes it over; the runner lease keeps its fence.
RenewBoth(p) ==
    /\ exec' = [exec EXCEPT !.fence = @ + 1]
    /\ proc' = [proc EXCEPT ![p].lease = exec.fence + 1]

Refresh(p) ==
    /\ proc[p].pc \in {"close", "fill", "value", "admit", "wait"}
    /\ renewals < MaxRenewals
    /\ renewals' = renewals + 1
    /\ HoldsClaim(p) /\ HoldsExec(p)
    /\ RenewBoth(p)
    /\ UNCHANGED <<paperVars, runner, selection, points, stop, faults>>

-----------------------------------------------------------------------------
(* One run *)

NoRun == [pc |-> "idle", bar |-> 0, claim |-> 0, lease |-> 0, selection |-> 0,
          closes |-> {}, todo |-> {}]

\* paper-execute is called with a snapshot that ends with bar b.
Begin(p, b) ==
    /\ proc[p].pc = "idle"
    /\ bars[b].symbol = selection.symbol
    /\ proc' = [proc EXCEPT ![p] = [NoRun EXCEPT !.pc = "acquire", !.bar = b,
                                                 !.selection = selection.id]]
    /\ UNCHANGED <<paperVars, runner, exec, selection, points, stop, bounds>>

Acquire(p) ==
    /\ proc[p].pc = "acquire"
    /\ ~(runner.held /\ runner.live)
    /\ selection.id = proc[p].selection
    /\ runner.fence < MaxRuns
    /\ runner' = [held |-> TRUE, live |-> TRUE, fence |-> runner.fence + 1, selection |-> selection.id]
    /\ proc' = [proc EXCEPT ![p].claim = runner.fence + 1, ![p].pc = "prepare"]
    /\ UNCHANGED <<paperVars, exec, selection, points, stop, bounds>>

IsCommitted(p) == SignalsFor(proc[p].bar, proc[p].selection) # {}

\* The bars are stored and the proposal is checked without writing anything: a
\* signal that is not recorded yet must be about the newest bar.
Prepare(p) ==
    /\ proc[p].pc = "prepare"
    /\ proc[p].lease # 0 => HoldsExec(p)
    /\ HoldsClaim(p)
    /\ IsCommitted(p) \/ IsNewestBar(proc[p].bar)
    /\ Goto(p, IF proc[p].lease = 0 THEN "start" ELSE "plan")
    /\ UNCHANGED <<paperVars, runner, exec, selection, points, stop, bounds>>

\* startLocalPaperExecutionWithClaim arms the account and takes the lease.
StartExecution(p) ==
    LET fence == exec.fence + (IF exec.armed THEN 1 ELSE 2)
    IN  /\ proc[p].pc = "start"
        /\ HoldsClaim(p)
        /\ ~(exec.leased /\ exec.live)
        /\ exec' = [armed |-> TRUE, leased |-> TRUE, live |-> TRUE, fence |-> fence]
        /\ proc' = [proc EXCEPT ![p].lease = fence, ![p].pc = "plan"]
        /\ UNCHANGED <<paperVars, runner, selection, points, stop, bounds>>

\* The last close of a run: that of its bar, or the newest for a signal that
\* is recorded already.
LastCloseOf(p) == IF IsCommitted(p) THEN Max(StoredCloses) ELSE bars[proc[p].bar].close

\* Broken ClosesOf: only the last close is worked on.
LastCloseOnly(p) == {LastCloseOf(p)}

\* localPaperPolicyCloses: the closes after the newest valuation, and that
\* valuation's own when it is unfinished or the last.
ClosesOf(p) ==
    LET last == LastCloseOf(p)
        previous == IF points = <<>> THEN last ELSE Newest.asOf
        again == \/ points = <<>>
                 \/ Newest.decision = "none"
                 \/ previous = last
    IN  {k \in StoredCloses :
            /\ k <= last
            /\ k > previous \/ (k = previous /\ again)
            /\ k >= selection.since \/ (k = previous /\ again /\ points # <<>>)}

Plan(p) ==
    /\ proc[p].pc = "plan"
    /\ LastCloseOf(p) \in ClosesOf(p)
    /\ proc' = [proc EXCEPT ![p].closes = ClosesOf(p), ![p].pc = "close"]
    /\ UNCHANGED <<paperVars, runner, exec, selection, points, stop, bounds>>

AsOf(p) == Min(proc[p].closes)

\* Nothing is filled any more at a close that is valued.
BeginClose(p) ==
    /\ proc[p].pc = "close"
    /\ proc' = [proc EXCEPT
           ![p].todo = IF PointsAt(AsOf(p)) = {} THEN {o \in DOMAIN orders : IsOpen(o)} ELSE {},
           ![p].pc = "fill"]
    /\ UNCHANGED <<paperVars, runner, exec, selection, points, stop, bounds>>

\* The bars a run may fill at the close it works on.
FillThrough(p) == AsOf(p)

FillStep(p) ==
    LET o == Min(proc[p].todo)
    IN  /\ proc[p].pc = "fill" /\ proc[p].todo # {}
        /\ HoldsClaim(p)
        /\ HoldsExec(p)
        /\ CanFill(o, FillThrough(p))
        /\ FillOrder(o, FillThrough(p), exec.fence)
        /\ UNCHANGED runVars

\* The oldest order takes no more from these bars, and the next one follows.
NextOrder(p) ==
    /\ proc[p].pc = "fill"
    /\ \/ /\ proc[p].todo # {}
          /\ HoldsClaim(p) /\ HoldsExec(p)
          /\ ~CanFill(Min(proc[p].todo), FillThrough(p))
          /\ proc' = [proc EXCEPT ![p].todo = @ \ {Min(@)}]
       \/ proc[p].todo = {} /\ Goto(p, "value")
    /\ UNCHANGED <<paperVars, runner, exec, selection, points, stop, bounds>>

\* evaluatePaperPerformanceTx
Value(p) ==
    LET k == AsOf(p)
        fs == Bounded(Len(fills), k)
    IN  /\ proc[p].pc = "value"
        /\ HoldsClaim(p)
        /\ \/ /\ \E i \in PointsAt(k) : points[i].selection = selection.id
              /\ UNCHANGED points
           \/ /\ points # <<>> => Newest.asOf < k
              /\ CanValue(fs, k)
              /\ points' = Append(points, [asOf |-> k, cutoff |-> Len(fills),
                                           equity |-> Equity(fs, k),
                                           selection |-> selection.id, decision |-> "none"])
        /\ Goto(p, "decide")
        /\ UNCHANGED <<paperVars, runner, exec, selection, stop, bounds>>

\* The selection moves on to another strategy, at the newest close.
Select(s, event) ==
    selection' = [id |-> selection.id + 1, symbol |-> s, event |-> event,
                  since |-> 1 + Max({0} \cup StoredCloses)]

LaterCloses(p) == proc[p].closes \ {AsOf(p)}

\* The strategy performance and the policy.  A policy under a ROLLBACK does not
\* prove and fails the run.  A loss disarms the account and takes the strategy
\* back, and the run ends.
Decide(p) ==
    LET i == Max(PointsAt(AsOf(p)))
        decision == DecisionFor(i)
    IN  /\ proc[p].pc = "decide"
        /\ HoldsClaim(p)
        /\ i \in Window(i)
        /\ selection.event = "SELECT"
        /\ points' = [points EXCEPT ![i].decision = decision]
        /\ IF decision = "HALT_AND_ROLLBACK"
           THEN /\ selection.id < MaxSelections
                /\ \E s \in Symbol : Select(s, "ROLLBACK")
                /\ exec' = IF exec.armed
                           THEN [exec EXCEPT !.armed = FALSE, !.leased = FALSE, !.live = FALSE, !.fence = @ + 1]
                           ELSE exec
                /\ Goto(p, "halt")
           ELSE /\ proc' = [proc EXCEPT ![p].closes = LaterCloses(p),
                                        ![p].pc = IF LaterCloses(p) = {} THEN "admit" ELSE "close"]
                /\ UNCHANGED <<selection, exec>>
        /\ UNCHANGED <<paperVars, runner, stop, bounds>>

\* The proposal of the run becomes a signal, unless it says none or is
\* recorded already.
Admit(p) ==
    /\ proc[p].pc = "admit"
    /\ HoldsClaim(p)
    /\ HoldsExec(p)
    /\ \/ ~IsCommitted(p) /\ \E target \in Target : AdmitSignal(proc[p].bar, target, selection.id)
       \/ /\ IsCommitted(p) \/ IsNewestBar(proc[p].bar)
          /\ UNCHANGED paperVars
    /\ Goto(p, "wait")
    /\ UNCHANGED <<runner, exec, selection, points, stop, bounds>>

\* A stream brings another snapshot to the same run.
NextFrame(p, b) ==
    /\ proc[p].pc = "wait"
    /\ bars[b].symbol = selection.symbol
    /\ b > proc[p].bar
    /\ proc' = [proc EXCEPT ![p].bar = b, ![p].pc = "prepare"]
    /\ UNCHANGED <<paperVars, runner, exec, selection, points, stop, bounds>>

\* The one-shot run is over, or the stream ends.
Finish(p) ==
    /\ proc[p].pc = "wait"
    /\ Goto(p, "halt")
    /\ UNCHANGED <<paperVars, runner, exec, selection, points, stop, bounds>>

\* A step is refused, fails or is cancelled.
Fail(p) ==
    /\ proc[p].pc \notin {"idle", "wait", "halt", "release"}
    /\ Goto(p, "halt")
    /\ UNCHANGED <<paperVars, runner, exec, selection, points, stop, bounds>>

\* close: the execution lease is halted and then the claim released, each only
\* when it is still the run's own; an expired one is given up as well.
HaltOwned(p) ==
    /\ proc[p].pc = "halt"
    /\ exec' = IF exec.armed /\ exec.leased /\ exec.fence = proc[p].lease
               THEN [exec EXCEPT !.armed = FALSE, !.leased = FALSE, !.live = FALSE, !.fence = @ + 1]
               ELSE exec
    /\ Goto(p, "release")
    /\ UNCHANGED <<paperVars, runner, selection, points, stop, bounds>>

Release(p) ==
    /\ proc[p].pc = "release"
    /\ runner' = IF runner.held /\ runner.fence = proc[p].claim
                 THEN [runner EXCEPT !.held = FALSE, !.live = FALSE] ELSE runner
    /\ proc' = [proc EXCEPT ![p] = [NoRun EXCEPT !.claim = proc[p].claim, !.lease = proc[p].lease]]
    /\ UNCHANGED <<paperVars, exec, selection, points, stop, bounds>>

Step(p) ==
    \/ Acquire(p) \/ Prepare(p) \/ StartExecution(p) \/ Plan(p)
    \/ BeginClose(p) \/ FillStep(p) \/ NextOrder(p) \/ Value(p) \/ Decide(p) \/ Admit(p)
    \/ HaltOwned(p) \/ Release(p)

-----------------------------------------------------------------------------
(* What comes between the steps *)

Fault == faults < MaxFaults /\ faults' = faults + 1

\* A killed process forgets its leases, the rows stay.  It may be started again.
Kill(p) ==
    /\ proc[p].pc # "idle"
    /\ Fault
    /\ proc' = [proc EXCEPT ![p] = NoRun]
    /\ UNCHANGED <<paperVars, runner, exec, selection, points, stop, renewals>>

\* Time passes and one of the leases runs out, or both.
LeasesExpire ==
    /\ Fault
    /\ \E r \in {runner.live, FALSE}, e \in {exec.live, FALSE} :
          /\ runner' = [runner EXCEPT !.live = r]
          /\ exec' = [exec EXCEPT !.live = e]
    /\ <<runner, exec>>' # <<runner, exec>>
    /\ UNCHANGED <<paperVars, selection, points, proc, stop, renewals>>

\* An operator halts the account.
OperatorStops ==
    /\ exec.armed
    /\ Fault
    /\ exec' = [exec EXCEPT !.armed = FALSE, !.leased = FALSE, !.live = FALSE, !.fence = @ + 1]
    /\ stop' = [fence |-> exec.fence + 1, after |-> Len(fills)]
    /\ UNCHANGED <<paperVars, runner, selection, points, proc, renewals>>

\* An operator selects a strategy; a live or unfinished run forbids it.
OperatorSelects(s) ==
    /\ selection.id < MaxSelections
    /\ Fault
    /\ runner.held => ~runner.live /\ (points # <<>> => Newest.decision # "none")
    /\ Select(s, "SELECT")
    /\ UNCHANGED <<paperVars, runner, exec, points, proc, stop, renewals>>

MarketMoves ==
    /\ \E s \in Symbol, kind \in BarKind : ImportBar(s, kind)
    /\ UNCHANGED runVars

Init ==
    /\ PaperInit
    /\ runner = [held |-> FALSE, live |-> FALSE, fence |-> 0, selection |-> 0]
    /\ exec = [armed |-> FALSE, leased |-> FALSE, live |-> FALSE, fence |-> 0]
    /\ selection \in [id: {1}, symbol: Symbol, since: {1}, event: {"SELECT"}]
    /\ points = <<>>
    /\ proc = [p \in Process |-> NoRun]
    /\ stop = [fence |-> 0, after |-> 0]
    /\ renewals = 0 /\ faults = 0

Next ==
    \/ \E p \in Process :
          \/ Step(p) \/ Refresh(p) \/ Finish(p) \/ Fail(p) \/ Kill(p)
          \/ \E b \in DOMAIN bars : Begin(p, b) \/ NextFrame(p, b)
    \/ LeasesExpire \/ OperatorStops
    \/ \E s \in Symbol : OperatorSelects(s)
    \/ MarketMoves

Spec == Init /\ [][Next]_vars

-----------------------------------------------------------------------------
(* Properties *)

NewFillClose == bars[fills'[Len(fills')].bar].close

\* The old closes come first: nothing is filled from a bar while an earlier
\* close is unvalued or undecided, and nothing after a loss of the strategy
\* that is still selected.  Only closes from before the selection and before
\* the first valuation are passed over.
PolicyBeforeLaterFill ==
    [][fills' # fills =>
         /\ \A i \in DOMAIN points :
               points[i].asOf < NewFillClose =>
                  /\ points[i].decision # "none"
                  /\ \/ points[i].selection # selection.id
                     \/ points[i].decision # "HALT_AND_ROLLBACK"
         /\ points # <<>> =>
               \A k \in StoredCloses :
                  ~(Newest.asOf < k /\ k < NewFillClose /\ k >= selection.since)]_vars

\* An order is admitted only when the close of its bar is valued and decided
\* under the same selection, and no valuation waits for a decision.
PolicyBeforeOrder ==
    [][signals' # signals =>
         LET close == bars[signals'[Len(signals')].bar].close
         IN  /\ \E i \in PointsAt(close) : points[i].selection = selection.id
             /\ \A i \in DOMAIN points : points[i].decision # "none"]_vars

\* After an operator's stop nothing is filled under a lease from before it, by
\* a run that was under way or by one that comes back.
StopIsRespected ==
    \A f \in DOMAIN fills : f > stop.after => fills[f].fence > stop.fence

\* A run that ended, with success or with an error, has given up its claim, and
\* while no other run claimed the account nobody holds its execution lease, as
\* often as the run renewed it.
EndedRunHoldsNothing ==
    \A p \in Process : proc[p].pc = "idle" /\ proc[p].claim # 0 =>
        /\ ~(runner.held /\ runner.fence = proc[p].claim)
        /\ proc[p].lease # 0 /\ runner.fence = proc[p].claim => ~exec.leased

\* Every valuation stays provable, whatever is filled and stored after it, old
\* bars included.
ValuationsReplay == \A i \in DOMAIN points : PointReplays(i)

\* Nothing is filled from a bar that a committed valuation has passed.
NoFillBehindValuation ==
    [][fills' # fills => \A i \in DOMAIN points : points[i].asOf < NewFillClose]_vars

\* What is stored is accepted by the proofs that every later operation of the
\* database begins with: the replay of the fills and that of each valuation
\* (paper_accounting.go replayPaperAccountingState, paper_performance.go).
RecoveryAccepts == RunTypeOK /\ JournalReplays /\ ValuationsReplay

\* A run keeps to its two leases (paper_local_heartbeat.go): it fills nothing
\* after a stop, and it leaves neither of them behind.
LeasesAreRespected == StopIsRespected /\ EndedRunHoldsNothing

\* Valuation and policy of a close come before what follows it, the fills of a
\* later close and the order of its own (paper_local.go step).
PolicyComesFirst == PolicyBeforeLaterFill /\ PolicyBeforeOrder
=============================================================================
