----------------------------- MODULE MCBrokerSync -----------------------------
(* A small instance of BrokerSync, told as three stories.                   *)
EXTENDS BrokerSync, TLC

CONSTANTS p1, p2, a1, a2

MCSymmetry == Permutations(Procs) \cup Permutations(Accounts)

ClockStands == now = 0 /\ \A p \in Procs : sync[p].fetched = 0

NothingMoves == ledger = <<>> /\ \A a \in Accounts : Len(books[a]) = 1

\* The second symbol is never held, every page is the next one and no token is
\* lost.
OneSymbol ==
    /\ \A a \in Accounts : \A i \in DOMAIN books[a] : books[a][i][Pages] = 0
    /\ \A i \in DOMAIN ledger : ledger[i][Pages] = 0
    /\ \A p \in Procs : /\ sync[p].token # "revoked"
                         /\ \A i \in DOMAIN sync[p].rows : sync[p].rows[i].symbol = i

\* Two commands side by side, imports and trades between their steps; the
\* clock stands still, so that a repeated command finds the first snapshot.
SideBySide == ClockStands /\ OneSymbol

\* One command after the other, over pages that change while they are read.
PageByPage ==
    /\ ClockStands /\ ledger = <<>> /\ started < MaxSyncs
    /\ Cardinality({p \in Procs : Reading(p) \/ sync[p].phase = "read"}) <= 1

\* Commands for one account that stays as it is, while the clock moves and is
\* set back by half seconds.
ClockMoves ==
    /\ OneSymbol /\ NothingMoves
    /\ \A a \in Accounts : books[a] = <<[s \in Symbols |-> 0]>>
    /\ \E a \in Accounts : \A p \in Procs : sync[p].account = a /\ sync[p].opened = a

OneStory == SideBySide \/ PageByPage \/ ClockMoves
=============================================================================
