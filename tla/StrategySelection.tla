------------------------- MODULE StrategySelection -------------------------
(***************************************************************************)
(* The strategy registry of strategy_registry.go and migrations 006, 020   *)
(* and 027: research evidence is registered once, and an insert-only list  *)
(* of SELECT and ROLLBACK events says which strategy paper trading uses.   *)
(* A rollback takes the selection back by exactly one.                     *)
(*                                                                         *)
(* An event is identified by its position (its event_id is fresh), a       *)
(* result by its hash.  Every change names the event it expects to be the  *)
(* newest; there is one global selection, not one for each account.        *)
(***************************************************************************)
EXTENDS Integers, SequencesExt

CONSTANTS
    Result,             \* hashes of research results
    PaperCandidate,     \* the results whose target is paper_candidate
    NoStrategy,
    MaxSelections       \* bound on the manual changes

ASSUME ResultAssumption ==
    PaperCandidate \subseteq Result /\ NoStrategy \notin Result

ASSUME SelectionBoundAssumption == MaxSelections \in Nat

VARIABLES
    evidence,       \* strategy_research_evidence: the registered results
    selections      \* strategy_selection_events

registryVars == <<evidence, selections>>

SelectReason == {"manual_selection", "auto_comparison"}

RollbackReason == {"manual_rollback", "automatic_performance_rollback"}

SelectionEvent ==
    [result: Result \cup {NoStrategy}, reason: SelectReason \cup RollbackReason, at: Nat]

RegistryTypeOK ==
    /\ evidence \subseteq Result
    /\ selections \in Seq(SelectionEvent)

\* What an event does to the stack of selected strategies.
Applied(stack, e) ==
    IF e.reason \in SelectReason THEN Append(stack, e.result) ELSE Front(stack)

\* The stack replayStrategyRegistry builds from events h.
StackOf(h) ==
    LET stack[n \in 0..Len(h)] == IF n = 0 THEN <<>> ELSE Applied(stack[n - 1], h[n])
    IN  stack[Len(h)]

Top(stack) == IF stack = <<>> THEN NoStrategy ELSE Last(stack)

CurrentEvent == Len(selections)

Selected == IF selections = <<>> THEN NoStrategy ELSE Last(selections).result

-----------------------------------------------------------------------------
RegistryInit == evidence = {} /\ selections = <<>>

\* registerStrategyEvidence: a hash registered before returns what is stored.
RegisterEvidence(r) ==
    /\ r \notin evidence
    /\ evidence' = evidence \cup {r}
    /\ UNCHANGED selections

\* selectPaperCandidate at time t by a caller that saw `expected' as newest.
SelectPaperCandidate(r, expected, t) ==
    /\ CurrentEvent = expected
    /\ r \in evidence \cap PaperCandidate
    /\ Selected # r
    /\ selections' = Append(selections,
           [result |-> r, reason |-> "manual_selection", at |-> t])
    /\ UNCHANGED evidence

\* finishPaperPromotion selects the winner of a comparison at time t, after the
\* event the comparison was claimed under.
SelectByComparison(r, expected, t) ==
    /\ CurrentEvent = expected
    /\ r \in evidence \cap PaperCandidate
    /\ selections' = Append(selections,
           [result |-> r, reason |-> "auto_comparison", at |-> t])
    /\ UNCHANGED evidence

\* rollbackPaperCandidateTx: back to the strategy below the newest one.
RollbackPaperCandidate(expected, reason, t) ==
    LET stack == StackOf(selections)
    IN  /\ CurrentEvent = expected
        /\ stack # <<>>
        /\ selections' = Append(selections,
               [result |-> Top(Front(stack)), reason |-> reason, at |-> t])
        /\ UNCHANGED evidence

-----------------------------------------------------------------------------
(* Properties *)

\* Every stored event passes the replay that precedes each registry, lease and
\* policy operation: a selection picks a registered candidate other than the
\* one in use, a rollback has something to take back and lands on the entry
\* below.  One event that failed would stop all paper operations for good.
RegistryReplays ==
    \A i \in DOMAIN selections :
        LET before == StackOf(SubSeq(selections, 1, i - 1))
            e      == selections[i]
        IN  IF e.reason \in SelectReason
            THEN e.result \in evidence \cap PaperCandidate /\ e.result # Top(before)
            ELSE before # <<>> /\ e.result = Top(Front(before))
=============================================================================
