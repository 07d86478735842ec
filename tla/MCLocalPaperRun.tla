---------------------------- MODULE MCLocalPaperRun ----------------------------
(* A small instance of LocalPaperRun: one symbol, three bars, two runs.        *)
EXTENDS LocalPaperRun, TLC

\* A thin dear bar and a thick cheap one: buying the first loses half.
MCBarKind == {[open |-> 3, capacity |-> 1], [open |-> 1, capacity |-> 2]}
=============================================================================
