-------------------------- MODULE PromotionPolicy --------------------------
(***************************************************************************)
(* The comparison of paper_promotion_comparison.go: candidate, incumbent   *)
(* and buy and hold are scored over three windows one after the other, and *)
(* a fixed list of gates decides.                                          *)
(*                                                                         *)
(* A window is what SimulateFold (ResearchFold) says of each strategy on   *)
(* its bars.  The model scores several strategies on the same bars, so     *)
(* that any two of them can be compared; metrics are whole numbers.        *)
(***************************************************************************)
EXTENDS Integers, Sequences

CONSTANTS
    Strategy,
    Metrics,        \* the metrics a fold may have
    HoldReturn,     \* the returns buy and hold may have
    NumWindows      \* three

ASSUME PolicyAssumption ==
    /\ Metrics \subseteq [trades: Nat, return: Int, drawdown: Nat, turnover: Nat]
    /\ HoldReturn \subseteq Int
    /\ NumWindows \in Nat \ {0}

VARIABLE windows    \* the scored windows: [of: Strategy -> Metrics, hold]

Window == [of: [Strategy -> Metrics], hold: HoldReturn]

PolicyTypeOK == windows \in Seq(Window) /\ Len(windows) <= NumWindows

PolicyInit == windows = <<>>

\* One more window is simulated.
ScoreWindow(of, hold) ==
    /\ Len(windows) < NumWindows
    /\ windows' = Append(windows, [of |-> of, hold |-> hold])

PolicyNext == \E of \in [Strategy -> Metrics], hold \in HoldReturn : ScoreWindow(of, hold)

PolicySpec == PolicyInit /\ [][PolicyNext]_windows

-----------------------------------------------------------------------------
(* evaluatePaperPromotionWindows *)

\* Broken PassesWindow: one of the two costs may be worse.
PassesWindowAtOneCost(c, i) ==
    /\ c.trades >= 1 /\ i.trades >= 1
    /\ c.return >= 0 /\ c.return >= i.return
    /\ c.drawdown <= i.drawdown \/ c.turnover <= i.turnover

\* Metrics c of the candidate are not worse than i of the incumbent.
PassesWindow(c, i) ==
    /\ c.trades >= 1 /\ i.trades >= 1
    /\ c.return >= 0 /\ c.return >= i.return
    /\ c.drawdown <= i.drawdown
    /\ c.turnover <= i.turnover

\* In the last window the candidate must be better than both.
BeatsHoldout(c, i, hold) == c.return > i.return /\ c.return > hold

\* Whether `candidate' would replace `incumbent'.
Beats(candidate, incumbent) ==
    /\ Len(windows) = NumWindows
    /\ \A w \in 1..NumWindows :
          PassesWindow(windows[w].of[candidate], windows[w].of[incumbent])
    /\ BeatsHoldout(windows[NumWindows].of[candidate], windows[NumWindows].of[incumbent],
                    windows[NumWindows].hold)

-----------------------------------------------------------------------------
(* Properties *)

\* Two strategies never beat each other on the same bars: after a promotion
\* the way back is closed until the bars have changed.
PromotionIsStrict ==
    \A a, b \in Strategy : Beats(a, b) => ~Beats(b, a)

\* What beats the strategy that beat another one beats that one too, so a row
\* of promotions on the same bars leads uphill and has no cycle.
PromotionIsTransitive ==
    \A a, b, c \in Strategy : Beats(a, b) /\ Beats(b, c) => Beats(a, c)
=============================================================================
