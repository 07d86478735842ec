--------------------------- MODULE PaperPolicyRun ---------------------------
(***************************************************************************)
(* The standalone paper runner: paper-run-due (paper_scheduled_runner.go)  *)
(* and paper-run-loop (paper_runner_loop.go) value each account at a       *)
(* market close and act on the result in three committed stages,           *)
(*    C3  paper_performance.go            value the account,               *)
(*    D   paper_strategy_performance.go   measure the selected strategy,   *)
(*    E   paper_performance_policy.go     decide, and on a loss halt every *)
(*                                        account and roll back,           *)
(* each in a transaction that checks and renews the runner lease.  Runs of *)
(* several processes and accounts, manual changes of the strategy, kills   *)
(* and cancellation come between the stages.                               *)
(*                                                                         *)
(* A valuation is abstracted to whether it breaches the loss limits; a     *)
(* close is identified by its time.  Of the execution authority only who   *)
(* is armed is kept here (ExecutionAuthority models the rest).             *)
(***************************************************************************)
EXTENDS PaperRunnerLease

CONSTANTS
    MinSamples,     \* samples the policy wants before it decides: 2 in the code
    MaxCloses       \* bound on the closes published

ASSUME PolicyAssumption == MinSamples \in Nat /\ MaxCloses \in Nat

VARIABLES
    closes,     \* the times of the market closes stored so far
    points,     \* the valuations of each account, in order, with the stage reached
    armed,      \* the accounts whose execution is armed
    run         \* what each process is doing

policyVars == <<closes, points, armed, run>>

allVars == <<vars, policyVars>>

Stage == {"C3", "D", "E"}

Decision == {"none", "INSUFFICIENT", "HOLD", "HALT_AND_ROLLBACK"}

Point == [asOf: Nat, selection: Nat, breach: BOOLEAN, stage: Stage, decision: Decision]

\* The steps of a run; the beat before each stage is a transaction of its own.
Pc == {"idle", "check", "acquire", "due", "beatC3", "C3", "beatD", "D", "beatE", "E",
       "wait", "release", "ended"}

BeatBefore == [C3 |-> "beatC3", D |-> "beatD", E |-> "beatE"]

Idle == [pc |-> "idle", kind |-> "none", account |-> NoAccount, asOf |-> 0]

RunState == [pc: Pc, kind: {"none", "once", "loop"},
             account: Account \cup {NoAccount}, asOf: Nat]

RunTypeOK ==
    /\ LeaseTypeOK
    /\ closes \subseteq Nat
    /\ points \in [Account -> Seq(Point)]
    /\ armed \subseteq Account
    /\ run \in [Process -> RunState]

Newest(a) == Last(points[a])

IsComplete(pt) == pt.stage = "E"

\* An account whose newest valuation still lacks its policy.
IsUnfinished(a) == points[a] # <<>> /\ ~IsComplete(Newest(a))

PointAt(a, k) == {i \in DOMAIN points[a] : points[a][i].asOf = k}

\* The last of the closes stored and available at this time, or 0.
LatestClose == Max({0} \cup {k \in closes : k <= now})

\* The window of strategy evidence for point i of account a: the valuations of
\* the same selection event that are not from before it.
Window(a, i) ==
    LET s == points[a][i].selection
    IN  {j \in 1..i : points[a][j].selection = s /\ points[a][j].asOf >= selections[s].at}

\* EvaluatePaperPerformancePolicy
Evaluate(samples, breach) ==
    IF samples < MinSamples THEN "INSUFFICIENT"
    ELSE IF breach THEN "HALT_AND_ROLLBACK" ELSE "HOLD"

\* Broken DecisionAt: the oldest valuation decides.
DecisionOnOldest(a, i) == Evaluate(Cardinality(Window(a, i)), points[a][1].breach)

\* The decision applyPaperPerformancePolicyTx takes on point i of account a.
DecisionAt(a, i) == Evaluate(Cardinality(Window(a, i)), points[a][i].breach)

\* The SELECT events among the selections; the others are ROLLBACKs.
IsSelect(s) == selections[s].reason \in SelectReason

\* Broken MayDecide: the new policy is committed without its proof.
DecideUnproved == TRUE

\* provePaperPerformancePolicyRecovery, run over the new policy before its
\* commit, refuses one whose selection event is a ROLLBACK.
MayDecide == IsSelect(CurrentEvent)

-----------------------------------------------------------------------------
(* Which close a run works on *)

\* Broken DueClose: always the newest close.
NewestClose(a) == LatestClose

\* The close prepareDuePaperPerformancePolicy picks: a newest valuation of the
\* current selection that is unfinished goes first.
DueClose(a) ==
    IF /\ IsUnfinished(a)
       /\ Newest(a).asOf < LatestClose
       /\ Newest(a).selection = CurrentEvent
    THEN Newest(a).asOf ELSE LatestClose

CompletedAt(a, k) == {i \in PointAt(a, k) : IsComplete(points[a][i])}

IsDone(a) == CompletedAt(a, DueClose(a)) # {}

CanPrepare == selections # <<>> /\ LatestClose # 0

Goto(p, pc) == run' = [run EXCEPT ![p].pc = pc]

\* Broken NotDue: the one-shot run waits for its work like the loop.
NotDueWaits(p) == Goto(p, "wait")

\* What a run does when a stage or its check ends without a policy: the loop
\* polls again for work that is not due, everything else is fatal.
NotDue(p) == Goto(p, IF run[p].kind = "loop" THEN "wait" ELSE "release")

-----------------------------------------------------------------------------
(* One run *)

\* A process starts paper-run-due or paper-run-loop for an account.
Start(p, kind, a) ==
    /\ p \in alive
    /\ run[p].pc = "idle"
    /\ run' = [run EXCEPT ![p] =
           [Idle EXCEPT !.kind = kind, !.account = a,
                        !.pc = IF kind = "loop" THEN "acquire" ELSE "check"]]
    /\ UNCHANGED <<vars, closes, points, armed>>

\* The one-shot run looks before it asks for the lease, and again while it
\* waits for it: a finished chain is returned as it is.
Check(p) ==
    LET a == run[p].account
    IN  /\ p \in alive
        /\ run[p].pc = "check"
        /\ Goto(p, IF CanPrepare /\ ~IsDone(a) /\ Selected # NoStrategy
                   THEN "acquire" ELSE "ended")
        /\ UNCHANGED <<vars, closes, points, armed>>

AcquireForRun(p) ==
    /\ run[p].pc = "acquire"
    /\ Acquire(p, run[p].account)
    /\ Goto(p, "due")
    /\ UNCHANGED <<closes, points, armed>>

\* The lease is held: the one-shot run waits for it or for the result of its
\* holder, the loop ends.  With nothing selected or a clock set back both end.
AcquireRefused(p) ==
    /\ p \in alive
    /\ run[p].pc = "acquire"
    /\ ~CanAcquire(p, run[p].account)
    /\ \/ /\ run[p].kind = "once" /\ Selected # NoStrategy
          /\ IsHeld /\ lease.beat <= now /\ now < lease.expires
          /\ Goto(p, "check")
       \/ Goto(p, "ended")
    /\ UNCHANGED <<vars, closes, points, armed>>

\* prepareDuePaperPerformancePolicyWithClaim; a valid claim names a selected
\* strategy.
Prepare(p) ==
    LET a == run[p].account
    IN  /\ p \in alive
        /\ run[p].pc = "due"
        /\ IF ~ValidClaim(p) THEN Goto(p, "release")
           ELSE IF LatestClose = 0 THEN NotDue(p)
           ELSE IF IsDone(a)
                THEN Goto(p, IF run[p].kind = "loop"
                                /\ \A i \in CompletedAt(a, DueClose(a)) :
                                      points[a][i].decision # "HALT_AND_ROLLBACK"
                             THEN "wait" ELSE "release")
           ELSE run' = [run EXCEPT ![p].pc = "beatC3", ![p].asOf = DueClose(a)]
        /\ UNCHANGED <<vars, closes, points, armed>>

\* The renewal that opens a stage.
Beat(p, stage) ==
    /\ run[p].pc = BeatBefore[stage]
    /\ Heartbeat(p)
    /\ Goto(p, stage)
    /\ UNCHANGED <<closes, points, armed>>

\* The renewal that closes a stage, in the transaction of the stage.
RenewInStage(p) == SetLease(p, Renewed) /\ UNCHANGED <<alive, now>>

\* evaluatePaperPerformanceTx: value the account at the close.  A valuation
\* already there is reused under its own selection only, and one behind the
\* newest is refused.
StageC3(p) ==
    LET a == run[p].account
        k == run[p].asOf
    IN  /\ p \in alive
        /\ run[p].pc = "C3" /\ ValidClaim(p)
        /\ \/ /\ PointAt(a, k) # {}
              /\ \A i \in PointAt(a, k) : points[a][i].selection = lease.selection
              /\ RenewInStage(p)
              /\ Goto(p, "beatD")
              /\ UNCHANGED points
           \/ /\ \E i \in PointAt(a, k) : points[a][i].selection # lease.selection
              /\ NotDue(p)
              /\ UNCHANGED <<leaseVars, points>>
           \/ /\ k <= now /\ \A i \in DOMAIN points[a] : points[a][i].asOf < k
              /\ \E breach \in BOOLEAN :
                    points' = [points EXCEPT ![a] = Append(@,
                        [asOf |-> k, selection |-> CurrentEvent, breach |-> breach,
                         stage |-> "C3", decision |-> "none"])]
              /\ RenewInStage(p)
              /\ Goto(p, "beatD")
        /\ UNCHANGED <<registryVars, closes, armed>>

\* The marks of held positions are incomplete: nothing is written.
MarksIncomplete(p) ==
    /\ p \in alive
    /\ run[p].pc = "C3" /\ ValidClaim(p) /\ PointAt(run[p].account, run[p].asOf) = {}
    /\ NotDue(p)
    /\ UNCHANGED <<vars, closes, points, armed>>

\* evaluatePaperStrategyPerformanceTx: only the newest valuation, of the
\* current selection and inside its window, is measured.
StageD(p) ==
    LET a == run[p].account
        i == Len(points[a])
    IN  /\ p \in alive
        /\ run[p].pc = "D" /\ ValidClaim(p)
        /\ points[a][i].asOf = run[p].asOf /\ points[a][i].selection = CurrentEvent
        /\ Selected # NoStrategy
        /\ \/ points[a][i].stage = "C3" /\ i \in Window(a, i)
              /\ points' = [points EXCEPT ![a][i].stage = "D"]
           \/ points[a][i].stage # "C3" /\ UNCHANGED points
        /\ RenewInStage(p)
        /\ Goto(p, "beatE")
        /\ UNCHANGED <<registryVars, closes, armed>>

\* applyPaperPerformancePolicyTx: a policy decided before is returned; a new
\* HALT_AND_ROLLBACK halts every armed account and takes the selection back.
\* Where MayDecide is false the stage is an error (RunFails), and the valuation
\* stays unfinished.
StageE(p) ==
    LET a == run[p].account
        i == Len(points[a])
        d == DecisionAt(a, i)
        after(decision) ==
            IF run[p].kind = "loop" /\ decision # "HALT_AND_ROLLBACK" THEN "wait" ELSE "release"
    IN  /\ p \in alive
        /\ run[p].pc = "E" /\ ValidClaim(p)
        /\ points[a][i].asOf = run[p].asOf /\ points[a][i].selection = CurrentEvent
        /\ \/ /\ points[a][i].stage = "E"
              /\ RenewInStage(p)
              /\ Goto(p, after(points[a][i].decision))
              /\ UNCHANGED <<registryVars, points, armed>>
           \/ /\ points[a][i].stage = "D" /\ MayDecide
              /\ points' = [points EXCEPT ![a][i].stage = "E", ![a][i].decision = d]
              /\ IF d = "HALT_AND_ROLLBACK"
                 THEN armed' = {} /\ PolicyRollback(p)
                 ELSE UNCHANGED <<registryVars, armed>> /\ RenewInStage(p)
              /\ Goto(p, after(d))
        /\ UNCHANGED closes

\* Broken RunFails: the error path skips the release.
RunFailsAbruptly(p) ==
    /\ p \in alive
    /\ run[p].pc \in {"due", "beatC3", "C3", "beatD", "D", "beatE", "E"}
    /\ Goto(p, "ended")
    /\ UNCHANGED <<vars, closes, points, armed>>

\* A stage, its renewal or its check ends in an error: the claim is refused,
\* an input is stale, the policy does not prove, the stage timed out or the run
\* was cancelled.
RunFails(p) ==
    /\ p \in alive
    /\ run[p].pc \in {"due", "beatC3", "C3", "beatD", "D", "beatE", "E"}
    /\ Goto(p, "release")
    /\ UNCHANGED <<vars, closes, points, armed>>

\* The loop polls again: a heartbeat, and after some of them the due work.
LoopHeartbeat(p) ==
    /\ run[p].pc = "wait"
    /\ Heartbeat(p)
    /\ Goto(p, "wait") \/ Goto(p, "due")
    /\ UNCHANGED <<closes, points, armed>>

\* The loop is cancelled while it waits.
CancelWait(p) ==
    /\ p \in alive
    /\ run[p].pc = "wait"
    /\ Goto(p, "release")
    /\ UNCHANGED <<vars, closes, points, armed>>

\* The heartbeat of the loop fails, because the claim is refused or because the
\* run is cancelled inside it; its nil result has replaced the claim.
LoopHeartbeatFails(p) ==
    /\ p \in alive
    /\ run[p].pc = "wait"
    /\ claim' = [claim EXCEPT ![p] = NoClaim]
    /\ Goto(p, "release")
    /\ UNCHANGED <<registryVars, lease, alive, now, closes, points, armed>>

\* The deferred release; a claim that is gone or not the row any more releases
\* nothing, and the run ends either way.  A release that itself fails, by its
\* timeout or its recovery proof, leaves the row as it is and the command exits
\* with the error: that is KillRun.
ReleaseRun(p) ==
    /\ p \in alive
    /\ run[p].pc = "release"
    /\ IF claim[p] # NoClaim /\ claim[p] = lease
       THEN Release(p)
       ELSE claim' = [claim EXCEPT ![p] = NoClaim]
            /\ UNCHANGED <<registryVars, lease, alive, now>>
    /\ Goto(p, "ended")
    /\ UNCHANGED <<closes, points, armed>>

-----------------------------------------------------------------------------
(* Everything else *)

\* The process is killed, or exits because the release of its lease failed; the
\* row keeps its name until the time is over.
KillRun(p) ==
    /\ run[p].pc \notin {"idle", "ended"}
    /\ Kill(p)
    /\ Goto(p, "ended")
    /\ UNCHANGED <<closes, points, armed>>

\* The bars of a close arrive.
PublishClose ==
    /\ Cardinality(closes) < MaxCloses
    /\ now \notin closes
    /\ closes' = closes \cup {now}
    /\ UNCHANGED <<vars, points, armed, run>>

ArmAccount(a) ==
    /\ a \notin armed
    /\ armed' = armed \cup {a}
    /\ UNCHANGED <<vars, closes, points, run>>

\* rejectIncompletePaperRunForExpiredClaim: the account of the row left work.
LeaseLeftUnfinished ==
    /\ IsHeld
    /\ \E i \in DOMAIN points[lease.account] :
          /\ points[lease.account][i].selection = lease.selection
          /\ ~IsComplete(points[lease.account][i])

Select(r) ==
    /\ ~LeaseLeftUnfinished
    /\ ManualSelect(r)
    /\ UNCHANGED policyVars

\* rollbackPaperCandidate halts every armed account first.
RollBack ==
    /\ ~LeaseLeftUnfinished
    /\ ManualRollback
    /\ armed' = {}
    /\ UNCHANGED <<closes, points, run>>

TimeMoves == (Tick \/ SetBack) /\ UNCHANGED policyVars

RunInit ==
    /\ evidence = Result /\ selections = <<>>
    /\ LeaseInit
    /\ closes = {}
    /\ points = [a \in Account |-> <<>>]
    /\ armed = {}
    /\ run = [p \in Process |-> Idle]

RunStep(p) ==
    \/ Check(p) \/ AcquireForRun(p) \/ AcquireRefused(p) \/ Prepare(p)
    \/ \E stage \in Stage : Beat(p, stage)
    \/ StageC3(p) \/ MarksIncomplete(p) \/ StageD(p) \/ StageE(p)
    \/ RunFails(p)
    \/ LoopHeartbeat(p) \/ LoopHeartbeatFails(p) \/ CancelWait(p)
    \/ ReleaseRun(p)

RunNext ==
    \/ \E p \in Process, kind \in {"once", "loop"}, a \in Account : Start(p, kind, a)
    \/ \E p \in Process : RunStep(p) \/ KillRun(p)
    \/ \E r \in Result : Select(r)
    \/ \E a \in Account : ArmAccount(a)
    \/ RollBack \/ PublishClose \/ TimeMoves

RunSpec == RunInit /\ [][RunNext]_allVars

\* Every wait of a run has its timeout: a poll, a transaction, a stage, and
\* the wait of a one-shot run for the lease as a whole.
RunsGoOn ==
    /\ \A p \in Process : WF_allVars(RunStep(p))
    /\ \A p \in Process : SF_allVars(AcquireRefused(p) /\ run'[p].pc = "ended")

FairRunSpec == RunSpec /\ RunsGoOn

\* The strategy in use before event s, its previous_selected_result_sha256.
PreviousResult(s) == IF s = 1 THEN NoStrategy ELSE selections[s - 1].result

\* The rollback that a halt under event s links: the next event, back to the
\* strategy that event s had replaced.
HaltPops(s) ==
    /\ s < CurrentEvent
    /\ selections[s + 1].reason = "automatic_performance_rollback"
    /\ selections[s + 1].result = PreviousResult(s)

\* replayPaperPerformancePolicyRecovery accepts the policy of point i: it was
\* taken under a SELECT, its decision is recomputed from the evidence that is
\* stored now, and a halt has its rollback.
DecisionReplays(a, i) ==
    LET pt == points[a][i]
    IN  IsComplete(pt) =>
            /\ IsSelect(pt.selection)
            /\ pt.decision = Evaluate(Cardinality(Window(a, i)), pt.breach)
            /\ pt.decision = "HALT_AND_ROLLBACK" => HaltPops(pt.selection)

-----------------------------------------------------------------------------
(* Properties *)

\* No loss is skipped: a run never goes on to a later close of a selection
\* before the policy for the earlier valuation is decided.  Whatever process
\* takes over, a loss that was valued cannot hide behind a later recovery.
LossNeverSkipped ==
    \A a \in Account : \A i \in 1..(Len(points[a]) - 1) :
        points[a][i].selection = points[a][i + 1].selection => IsComplete(points[a][i])

\* Each decision was taken under a SELECT, is the one its evidence gives and,
\* when it halts, took back exactly that selection: the recovery proof checks it
\* all from the stored rows and would refuse the database otherwise.
DecisionsReplay == \A a \in Account : \A i \in DOMAIN points[a] : DecisionReplays(a, i)

\* A selection is rolled back automatically at most once, by the one account
\* whose policy says so: two accounts that both lost under it, or two runs of
\* the same loss, never take back two strategies.
OneRollbackPerSelection ==
    \A s \in 1..Len(selections) :
        LET halts == {x \in UNION {{a} \X DOMAIN points[a] : a \in Account} :
                         /\ points[x[1]][x[2]].selection = s
                         /\ points[x[1]][x[2]].decision = "HALT_AND_ROLLBACK"}
        IN  /\ Cardinality(halts) <= 1
            /\ halts # {} <=> /\ s < Len(selections)
                              /\ selections[s + 1].reason = "automatic_performance_rollback"

\* A one-shot run ends, with the result, the lease or an error: also while
\* another process holds the lease, dies, or is replaced before its expiry.
OneShotEnds ==
    \A p \in Process : run[p].kind = "once" ~> run[p].pc = "ended"

\* Evidence of an account is written only under a live lease for that account
\* and for the selection the evidence names, and it is never rewritten once a
\* policy was decided on it: a superseded runner changes nothing.
EvidenceIsFenced ==
    [][\A a \in Account : points'[a] # points[a] =>
          /\ lease.account = a /\ now < lease.expires
          /\ Last(points'[a]).selection = lease.selection
          /\ \A i \in DOMAIN points[a] :
                IsComplete(points[a][i]) => points'[a][i] = points[a][i]]_allVars

\* A one-shot run that ends by itself leaves no lease behind, whichever stage
\* failed, timed out or lost the lease.  A release that fails is no such end: it
\* leaves the row, like a kill.
OneShotReleases ==
    \A p \in alive :
        run[p].pc = "ended" /\ run[p].kind = "once" => lease.owner # p

\* The same for the loop: cancellation releases the exact owned claim.
LoopReleases ==
    \A p \in alive :
        run[p].pc = "ended" /\ run[p].kind = "loop" => lease.owner # p

\* Work that a killed runner left unfinished blocks manual changes of the
\* strategy until its account's next run: no later run of another account
\* lifts that, because only the owner could release the claim.
KilledPrefixBlocksSelection ==
    [][\A a \in Account :
          /\ IsUnfinished(a) /\ Newest(a).selection = CurrentEvent
          /\ \A p \in Process : run[p].account = a => p \notin alive
          /\ selections' # selections
          => Last(selections').reason = "automatic_performance_rollback"]_allVars

\* A new valuation falls inside the window of its selection: the next stage
\* can consume it.
PointsInsideWindow ==
    \A a \in Account : \A i \in DOMAIN points[a] :
        points[a][i].asOf >= selections[points[a][i].selection].at

\* After a rollback to an earlier strategy the runner goes on with that one
\* (gates/g3ae-paper-pending-policy-recovery.md: "the existing selection rules
\* permit a later invocation to evaluate the newer close for that candidate"):
\* a run that valued and measured a close under its claim can decide on it.
RolledBackIsEvaluated ==
    \A p \in alive : run[p].pc = "E" /\ ValidClaim(p) => ENABLED StageE(p)

\* What the runs store is accepted by the replays that every later operation
\* begins with: the selections and rollbacks as a stack, and each policy from
\* its SELECT event, the evidence of its window and its rollback
\* (strategy_registry.go replayStrategyRegistry, paper_performance_policy.go).
EvidenceReplays == RunTypeOK /\ RegistryReplays /\ DecisionsReplay
=============================================================================
