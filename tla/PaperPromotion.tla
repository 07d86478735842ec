--------------------------- MODULE PaperPromotion ---------------------------
(***************************************************************************)
(* The automatic comparison of paper_promotion.go, its recovery proof and  *)
(* migration 027.  An attempt is claimed in one transaction with the state *)
(* it starts from, compares candidate and incumbent outside of any, and is *)
(* decided in another one, by the process that claimed it or by an abort.  *)
(* Meanwhile runs trade, operators select and halt, research is registered *)
(* and the clock moves both ways.                                          *)
(*                                                                         *)
(* There is one account.  Order events are bought and sold positions;      *)
(* what the comparison says is a part of the claim, as it is computed from *)
(* the stored input each time.  Bars and the clock share one scale.        *)
(***************************************************************************)
EXTENDS StrategySelection

CONSTANTS
    Process,
    StartingCash,
    MaxTime,        \* bound on the clock
    MaxClaims,      \* bound on the attempts
    MaxTrades,      \* bound on the order events
    MaxChanges,     \* bound on the arming and halting by operators
    MaxLeases,      \* bound on the takeovers of the runner lease
    MaxSignals,     \* bound on the signals
    ClockMayRegress \* bound: whether the clock is set back

ASSUME PromotionAssumption ==
    /\ {StartingCash, MaxTime, MaxClaims, MaxTrades, MaxChanges, MaxLeases, MaxSignals} \subseteq Nat
    /\ ClockMayRegress \in BOOLEAN

VARIABLES
    research,   \* the registered evidence in order: result, last bar, time
    journal,    \* order_events: what was traded, the close it used, time
    authority,  \* execution authority: events so far, whether it is armed
    runner,     \* the runner lease and whether a run was left unfinished
    claims,     \* paper_promotion_claims
    decisions,  \* paper_promotion_decisions, the i-th for the i-th claim
    signals,    \* recorded signals: selection and the bar they are about
    proc,       \* the claim each process compares, or 0
    now,        \* the wall clock
    newest      \* the newest time a bar was stored

worldVars == <<registryVars, research, journal, authority, runner, signals, newest>>

vars == <<worldVars, claims, decisions, proc, now>>

Trade == [kind: {"buy", "sell"}, close: Nat, at: Nat]
Research == [result: Result, last: Nat, at: Nat]

\* The rows that finishPaperPromotion compares by their hash.
State == [selection |-> CurrentEvent, orders |-> Len(journal), research |-> Len(research),
          authority |-> authority, runner |-> runner]

Score == {"PROMOTE", "HOLD"}

Decision == [decision: Score \cup {"STALE", "ERROR", "ABORTED"}, event: Nat, at: Nat]

PromotionTypeOK ==
    /\ RegistryTypeOK
    /\ research \in Seq(Research) /\ journal \in Seq(Trade)
    /\ authority \in [events: Nat, armed: BOOLEAN]
    /\ runner \in [fence: Nat, held: BOOLEAN, expires: Nat, unfinished: BOOLEAN]
    /\ decisions \in Seq(Decision)
    /\ Len(decisions) <= Len(claims) /\ Len(claims) <= Len(decisions) + 1
    /\ proc \in [Process -> 0..Len(claims)]

IsPending == Len(decisions) < Len(claims)

Cash(j) == StartingCash - Len(SelectSeq(j, LAMBDA t : t.kind = "sell"))

IsFlat(j) == j # <<>> => Last(j).kind = "sell"

\* The trades among j that were filled from bars that closed by time t.
ClosedBy(j, t) == SelectSeq(j, LAMBDA trade : trade.close <= t)

\* Those of the first n order events.
Prefix(n, t) == ClosedBy(SubSeq(journal, 1, n), t)

IsLive == runner.held /\ now < runner.expires

\* Broken IsQuiet: the lease is not looked at.
IsQuietButLeased ==
    /\ ~runner.unfinished
    /\ IsFlat(journal)
    /\ ~authority.armed

\* capturePaperPromotionState: nobody runs or may run, and nothing is open.
IsQuiet ==
    /\ ~IsLive
    /\ ~runner.unfinished
    /\ IsFlat(journal)
    /\ ~authority.armed

-----------------------------------------------------------------------------
(* The recovery proof *)

\* Broken IsFresh: an aborted or failed attempt gives its interval back.
IsFreshAmongDecided(c, i) ==
    /\ \A r \in 1..c.research : research[r].last < c.start
    /\ \A j \in 1..(i - 1) : decisions[j].decision \in Score => claims[j].end < c.start

\* validatePaperPromotionFreshRange: the i-th claim compares on bars that no
\* research and no earlier claim has used.
IsFresh(c, i) ==
    /\ \A r \in 1..c.research : research[r].last < c.start
    /\ \A j \in 1..(i - 1) : claims[j].end < c.start

\* validatePaperPromotionJournalCutoffs: the rows a claim counted are exactly
\* those from before it.
CutoffsMatch(c) ==
    /\ \A k \in DOMAIN journal : k <= c.orders <=> journal[k].at <= c.at
    /\ \A k \in DOMAIN research : k <= c.research <=> research[k].at <= c.at

\* validateStoredPaperPromotionClaim accepts c as the i-th claim.
ClaimReplays(c, i) ==
    /\ c.candidate # c.incumbent
    /\ c.start <= c.end /\ c.end <= c.at
    /\ selections[c.expected].result = c.incumbent
    /\ selections[c.expected].at <= c.at
    /\ {c.candidate, c.incumbent} \subseteq {research[r].result : r \in 1..c.research}
    /\ CutoffsMatch(c)
    /\ \A k \in 1..c.orders : journal[k].close <= c.at
    /\ Cash(Prefix(c.orders, c.at)) = c.cash
    /\ IsFlat(Prefix(c.orders, c.at))
    /\ IsFresh(c, i)

\* validateStoredPaperPromotionDecision
DecisionReplays(i) ==
    LET c == claims[i]
        d == decisions[i]
    IN  /\ d.at >= c.at
        /\ d.decision \in Score => d.decision = c.score
        /\ IF d.decision = "PROMOTE"
           THEN /\ d.event = c.expected + 1
                /\ selections[d.event] =
                     [result |-> c.candidate, reason |-> "auto_comparison", at |-> d.at]
           ELSE d.event = 0

\* provePaperPromotionRecovery, which precedes every operation of the registry,
\* the runner and the policy.
RecoveryHolds ==
    /\ \A i \in DOMAIN claims : ClaimReplays(claims[i], i)
    /\ \A i \in DOMAIN decisions :
          /\ DecisionReplays(i)
          /\ i < Len(claims) => decisions[i].at <= claims[i + 1].at
    /\ {s \in DOMAIN selections : selections[s].reason = "auto_comparison"}
         = {decisions[i].event : i \in DOMAIN decisions} \ {0}

-----------------------------------------------------------------------------
(* An attempt *)

\* claimPaperPromotion by a caller that saw the selection `expected'.
Claim(p, candidate, expected, start, end, score) ==
    LET c == [candidate |-> candidate, incumbent |-> Selected, expected |-> expected,
              start |-> start, end |-> end, orders |-> Len(journal), research |-> Len(research),
              cash |-> Cash(journal), state |-> State, score |-> score, at |-> now]
    IN  /\ proc[p] = 0
        /\ ~IsPending
        /\ Len(claims) < MaxClaims
        /\ IsQuiet
        /\ CurrentEvent = expected
        /\ Selected \notin {candidate, NoStrategy}
        /\ claims # <<>> => decisions[Len(claims)].at <= now
        /\ ClaimReplays(c, Len(claims) + 1)
        /\ claims' = Append(claims, c)
        /\ proc' = [proc EXCEPT ![p] = Len(claims) + 1]
        /\ UNCHANGED <<worldVars, decisions, now>>

Unchanged(c) == State = c.state

\* A comparison that was computed promotes or holds only over the state that
\* was claimed.
Outcome(c, failed) ==
    IF failed THEN "ERROR"
    ELSE IF IsQuiet /\ Unchanged(c) THEN c.score ELSE "STALE"

\* finishPaperPromotion: the decision and the selection are one transaction.
Decide(i, outcome) ==
    /\ i = Len(decisions) + 1
    /\ claims[i].at <= now
    /\ decisions' = Append(decisions, [decision |-> outcome, at |-> now,
                                       event |-> IF outcome = "PROMOTE" THEN CurrentEvent + 1 ELSE 0])
    /\ IF outcome = "PROMOTE"
       THEN SelectByComparison(claims[i].candidate, claims[i].expected, now)
       ELSE UNCHANGED registryVars

\* The process that compared writes its result, or finds the attempt decided.
Finish(p) ==
    /\ proc[p] # 0
    /\ \/ \E failed \in BOOLEAN : Decide(proc[p], Outcome(claims[proc[p]], failed))
       \/ proc[p] <= Len(decisions) /\ UNCHANGED <<decisions, registryVars>>
       \/ now < claims[proc[p]].at /\ UNCHANGED <<decisions, registryVars>>
    /\ proc' = [proc EXCEPT ![p] = 0]
    /\ UNCHANGED <<research, journal, authority, runner, signals, newest, claims, now>>

\* abortPaperPromotion, from any process.
Abort ==
    /\ IsPending
    /\ Decide(Len(claims), "ABORTED")
    /\ UNCHANGED <<research, journal, authority, runner, signals, newest, claims, proc, now>>

\* A killed process leaves its attempt pending; a retry only reads it.
Kill(p) ==
    /\ proc[p] # 0
    /\ proc' = [proc EXCEPT ![p] = 0]
    /\ UNCHANGED <<worldVars, claims, decisions, now>>

-----------------------------------------------------------------------------
(* What goes on beside it *)

\* Broken MayAppend: a row may have the time of the claim.
MayAppendAtClaim == claims # <<>> => claims[Len(claims)].at <= now

\* requirePaperPromotionAppendTime
MayAppend == claims # <<>> => claims[Len(claims)].at < now

\* registerStrategyEvidence
Register(r, last) ==
    /\ MayAppend
    /\ RegisterEvidence(r)
    /\ research' = Append(research, [result |-> r, last |-> last, at |-> now])
    /\ UNCHANGED <<journal, authority, runner, signals, newest, claims, decisions, proc, now>>

\* An order of the account is filled from a stored bar.
FillTrade(close) ==
    /\ authority.armed
    /\ Len(journal) < MaxTrades
    /\ MayAppend
    /\ close <= newest
    /\ journal' = Append(journal, [kind |-> IF IsFlat(journal) THEN "buy" ELSE "sell",
                                   close |-> close, at |-> now])
    /\ UNCHANGED <<registryVars, research, authority, runner, signals, newest, claims, decisions, proc, now>>

SetArmed(armed) ==
    /\ authority.armed # armed
    /\ authority.events < MaxChanges
    /\ authority' = [events |-> authority.events + 1, armed |-> armed]
    /\ UNCHANGED <<registryVars, research, journal, runner, signals, newest, claims, decisions, proc, now>>

TakeRunner ==
    /\ ~IsLive
    /\ Selected # NoStrategy
    /\ runner.fence < MaxLeases
    /\ runner' = [runner EXCEPT !.fence = @ + 1, !.held = TRUE, !.expires = now + 1]
    /\ UNCHANGED <<registryVars, research, journal, authority, signals, newest, claims, decisions, proc, now>>

\* The run values the account and decides, stops in between, or gives the
\* lease back; the policy may roll the strategy back.
RunnerWorks ==
    /\ IsLive
    /\ \/ /\ runner' \in {[runner EXCEPT !.unfinished = ~@], [runner EXCEPT !.held = FALSE, !.expires = 0]}
          /\ UNCHANGED <<registryVars, authority>>
       \/ /\ RollbackPaperCandidate(CurrentEvent, "automatic_performance_rollback", now)
          /\ authority' = IF authority.armed THEN [events |-> authority.events + 1, armed |-> FALSE]
                                             ELSE authority
          /\ runner' = [runner EXCEPT !.unfinished = FALSE]
    /\ UNCHANGED <<research, journal, signals, newest, claims, decisions, proc, now>>

\* selectPaperCandidate and rollbackPaperCandidate
ManualChange ==
    /\ ~IsLive /\ ~(runner.held /\ runner.unfinished)
    /\ CurrentEvent < MaxSelections
    /\ \/ /\ \E r \in Result : SelectPaperCandidate(r, CurrentEvent, now)
          /\ UNCHANGED authority
       \/ /\ RollbackPaperCandidate(CurrentEvent, "manual_rollback", now)
          /\ authority' = IF authority.armed THEN [events |-> authority.events + 1, armed |-> FALSE]
                                             ELSE authority
    /\ UNCHANGED <<research, journal, runner, signals, newest, claims, decisions, proc, now>>

\* validatePaperPromotionSignalCutoff: the end of the bars on which `result'
\* was promoted up to that selection.
SignalCutoff(result, selection) ==
    Max({0} \cup {claims[i].end : i \in {j \in DOMAIN decisions :
                     /\ decisions[j].event \in 1..selection
                     /\ selections[decisions[j].event].result = result}})

\* recordPaperSignalEventTx under the current selection.
RecordSignal(asOf) ==
    /\ Selected # NoStrategy
    /\ Len(signals) < MaxSignals
    /\ asOf <= newest
    /\ SignalCutoff(Selected, CurrentEvent) < asOf
    /\ signals' = Append(signals, [selection |-> CurrentEvent, asOf |-> asOf])
    /\ UNCHANGED <<registryVars, research, journal, authority, runner, newest, claims, decisions, proc, now>>

Tick ==
    /\ now < MaxTime
    /\ now' = now + 1
    /\ newest' = IF now' > newest THEN now' ELSE newest
    /\ UNCHANGED <<registryVars, research, journal, authority, runner, signals, claims, decisions, proc>>

SetBack ==
    /\ ClockMayRegress
    /\ now' \in 1..(now - 1)
    /\ UNCHANGED <<worldVars, claims, decisions, proc>>

Init ==
    /\ RegistryInit
    /\ research = <<>> /\ journal = <<>> /\ signals = <<>>
    /\ claims = <<>> /\ decisions = <<>>
    /\ authority = [events |-> 0, armed |-> FALSE]
    /\ runner = [fence |-> 0, held |-> FALSE, expires |-> 0, unfinished |-> FALSE]
    /\ proc = [p \in Process |-> 0]
    /\ now = 1 /\ newest = 1

Next ==
    \/ \E p \in Process :
          \/ \E candidate \in evidence, start, end \in 1..now, score \in Score :
                Claim(p, candidate, CurrentEvent, start, end, score)
          \/ Finish(p) \/ Kill(p)
    \/ Abort
    \/ \E r \in Result, last \in 0..now : Register(r, last)
    \/ \E close \in 1..newest : FillTrade(close) \/ RecordSignal(close)
    \/ \E armed \in BOOLEAN : SetArmed(armed)
    \/ TakeRunner \/ RunnerWorks \/ ManualChange
    \/ Tick \/ SetBack

Spec == Init /\ [][Next]_vars

-----------------------------------------------------------------------------
(* Properties *)

\* A signal stays acceptable to the recovery proof: its bar is younger than the
\* bars its strategy had been promoted on, and a later promotion of the same
\* strategy does not take that back.
SignalsReplay ==
    \A i \in DOMAIN signals :
        SignalCutoff(selections[signals[i].selection].result, signals[i].selection) < signals[i].asOf

\* Whatever is registered, traded or selected after a claim, at whatever time
\* the clock shows, the recovery proof accepts every claim, decision and signal
\* again.  One that failed would stop all paper operations.
PromotionsReplay == PromotionTypeOK /\ RecoveryHolds /\ SignalsReplay

\* The decision that promotes.
Promotes == decisions' # decisions /\ decisions'[Len(decisions')].decision = "PROMOTE"

\* A strategy is promoted only by bars that are younger than all research that
\* is registered by then, that of its competitors included.
PromotedOnFreshBars ==
    [][Promotes => \A r \in DOMAIN research : research[r].last < claims[Len(claims)].start]_vars

\* No two attempts compare on a common bar, not even when the first one was
\* aborted, failed or went stale: a comparison cannot be repeated until it wins.
BarsComparedOnce ==
    \A i, j \in DOMAIN claims : i < j => claims[i].end < claims[j].start

\* The selection changes under nobody's feet: at a promotion no run holds a
\* live lease, nobody may trade and nothing is held.
PromotedWhileQuiet ==
    [][Promotes => ~IsLive /\ ~authority.armed /\ IsFlat(journal)]_vars

\* A promotion is decided on equal terms: the account is quiet and flat, and no
\* strategy has seen the bars (paper_promotion.go finishPaperPromotion).
PromotedOnEqualTerms == PromotedWhileQuiet /\ PromotedOnFreshBars
=============================================================================
