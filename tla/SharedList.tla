----------------------------- MODULE SharedList -----------------------------
(***************************************************************************)
(* What the stored watchlist promises its editors: whoever edits, from     *)
(* whichever device, adds or removes one entry of the list as it is at     *)
(* that moment, and every edit has a revision of its own.                  *)
(***************************************************************************)
EXTENDS Integers

CONSTANT Entry

VARIABLES list, revision

listVars == <<list, revision>>

ListInit == list = {} /\ revision = 0

\* b is a with one entry more or one entry less.
OneEdit(a, b) == \E e \in Entry :
    \/ e \notin a /\ b = a \cup {e}
    \/ e \in a /\ b = a \ {e}

Edit == OneEdit(list, list') /\ revision' = revision + 1

ListSpec == ListInit /\ [][Edit]_listVars
=============================================================================
