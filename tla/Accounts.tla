------------------------------ MODULE Accounts ------------------------------
(***************************************************************************)
(* What the modules of the core service share: the opaque account aliases  *)
(* (orderAlias) and sums of whole amounts.                                 *)
(***************************************************************************)
EXTENDS Integers, FiniteSetsExt

CONSTANT Account

\* The sum of f[i] over the indices i in S.
SumOver(S, f) == MapThenSumSet(LAMBDA i : f[i], S)
=============================================================================
