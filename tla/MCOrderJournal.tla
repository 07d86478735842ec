--------------------------- MODULE MCOrderJournal ---------------------------
(* Two orders of one account, two provider orders and two executions. *)
EXTENDS OrderJournal

CONSTANTS o1, o2, acct

MCAccountOf == [o \in Order |-> acct]
MCIntent == {[qty |-> 2, notional |-> 1]}
=============================================================================
