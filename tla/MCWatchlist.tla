---------------------------- MODULE MCWatchlist ----------------------------
(* A small instance of Watchlist: two clients and two entries. *)
EXTENDS Watchlist, TLC

CONSTANTS c1, c2, e1, e2

Symmetry == Permutations(Client) \cup Permutations(Entry)
=============================================================================
