-------------------------- MODULE MCPaperPolicyRun --------------------------
(* Two processes run for one account or for two.                           *)
EXTENDS PaperPolicyRun, TLC

\* Processes and accounts differ by name only.
Symmetry == Permutations(Process) \cup Permutations(Account)

Older == CHOOSE r \in Result : TRUE

Newer == CHOOSE r \in Result : r # Older

\* RunInit after two manual selections: one of them can be taken back and
\* leaves a strategy.
SelectedTwice ==
    /\ evidence = Result
    /\ selections = <<[result |-> Older, reason |-> "manual_selection", at |-> 1],
                      [result |-> Newer, reason |-> "manual_selection", at |-> 1]>>
    /\ LeaseInit
    /\ closes = {}
    /\ points = [a \in Account |-> <<>>]
    /\ armed = {}
    /\ run = [p \in Process |-> Idle]

SelectedTwiceSpec == SelectedTwice /\ [][RunNext]_allVars

FairSelectedTwiceSpec == SelectedTwiceSpec /\ RunsGoOn
=============================================================================
