-------------------------- MODULE MCOrderDispatch --------------------------
(* Two processes with one call each work on two orders of one account; the  *)
(* orders come in two sizes of which two large ones pass the account limit.  *)
EXTENDS OrderDispatch, TLC

CONSTANTS o1, o2, a1, p1, p2, t1, t2

MCAccountOf == [o \in Order |-> a1]
MCOwnerOf == (t1 :> p1) @@ (t2 :> p2)
MCRefOf == [o \in Order |-> o]
\* Orders of both sizes: two of the larger pass the limit, the others fit.
MCBothSizes == {[qty |-> n, notional |-> n] : n \in {1, 2}}

\* One lookup while two orders are there, two that can be applied in either
\* order while there is one.  A lookup without an execution is never applied.
LookupBound ==
    /\ Cardinality(lookups) <= IF \A o \in Order : IsRecorded(o) THEN 1 ELSE 2
    /\ \A l \in lookups : \E o \in Order : l.seen[o] # 0

Symmetry == Permutations(Order) \cup {(p1 :> p2) @@ (p2 :> p1) @@ (t1 :> t2) @@ (t2 :> t1)}
=============================================================================
