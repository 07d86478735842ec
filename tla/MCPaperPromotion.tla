-------------------------- MODULE MCPaperPromotion --------------------------
(* The three parts of an automatic comparison: attempts are claimed and     *)
(* decided, or one fold is played to its end, or three strategies are       *)
(* scored over their windows.                                               *)
EXTENDS PaperPromotion, ResearchFold, PromotionPolicy

\* Rising and falling bars, one of them thin.
ThinMarket ==
    {[open |-> 2, close |-> 5, capacity |-> 2], [open |-> 4, close |-> 2, capacity |-> 1],
     [open |-> 2, close |-> 1, capacity |-> 0]}

\* The first, the second and the fourth can beat each other in a row; the third
\* and the fifth have one cost lower and one higher than others.
MCMetrics ==
    {[trades |-> 1, return |-> 1, drawdown |-> 1, turnover |-> 1],
     [trades |-> 1, return |-> 2, drawdown |-> 1, turnover |-> 0],
     [trades |-> 2, return |-> 3, drawdown |-> 1, turnover |-> 2],
     [trades |-> 1, return |-> 3, drawdown |-> 0, turnover |-> 0],
     [trades |-> 1, return |-> 1, drawdown |-> 0, turnover |-> 1]}

MCInit == Init /\ FoldInit /\ PolicyInit

\* Each of the three only where the other two have not begun.
MCNext ==
    \/ FoldInit /\ ~hold /\ PolicyInit /\ Next /\ UNCHANGED <<foldVars, windows>>
    \/ Init /\ PolicyInit /\ FoldNext /\ UNCHANGED <<vars, windows>>
    \/ Init /\ FoldInit /\ ~hold /\ PolicyNext /\ UNCHANGED <<vars, foldVars>>

MCSpec == MCInit /\ [][MCNext]_<<vars, foldVars, windows>>

Symmetry == Permutations(Result)

\* Bound: research ends at its own time or before all of it, an order is filled
\* from the newest bar, a comparison ends with the bar of its time, and the clock
\* is set back during or after the first attempt.
NewestBars ==
    /\ research' # research => Last(research').last \in {0, now}
    /\ journal' # journal => Last(journal').close = newest
    /\ claims' # claims => Last(claims').end = now
    /\ now' < now => Len(claims) = 1 /\ Cardinality(evidence) < 3

\* Bound: what happens beside the attempts is trading, or a run, or a signal, or
\* nothing of it once there is a second attempt or a third strategy.
OneOtherThing ==
    /\ \/ journal = <<>> /\ authority.events = 0
       \/ runner.fence + Len(signals) = 0
    /\ runner.fence + Len(signals) <= 1
    /\ Len(claims) = 2 \/ Cardinality(evidence) = 3 =>
          Len(journal) + authority.events + runner.fence + Len(signals) = 0
=============================================================================
