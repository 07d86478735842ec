---------------------------- MODULE FencedLease ----------------------------
(***************************************************************************)
(* What a fenced lease promises its holders.  Two leases of the program    *)
(* implement it: the execution lease of each account (ExecutionAuthority)  *)
(* and the paper runner lease (PaperRunnerLease).                          *)
(*                                                                         *)
(* The fence is what a holder shows with every write.  A lease is handed   *)
(* to an owner only with a fence no one has seen and only after it was     *)
(* given up or its time was over, whatever the wall clock does.            *)
(***************************************************************************)
EXTENDS Integers

CONSTANTS Owner, NoOwner

VARIABLES
    holder,     \* the owner of the lease, or NoOwner
    fence,      \* the newest fence handed out
    left        \* how long the lease of the holder still runs

leaseVars == <<holder, fence, left>>

LeaseInit ==
    /\ holder = NoOwner
    /\ fence = 0
    /\ left \in Int

IsLive == holder # NoOwner /\ left > 0

\* The lease goes to p under a new fence; a live lease is never taken over.
Grant(p) ==
    /\ ~IsLive
    /\ holder' = p
    /\ fence' > fence
    /\ left' > 0

\* The holder of a live lease moves its end forward; an owner may renew under
\* a newer fence or under the one it has.
Renew ==
    /\ IsLive
    /\ holder' = holder
    /\ fence' >= fence
    /\ left' >= left

\* The lease is given up or revoked.  The fence is retained.
Drop ==
    /\ holder' = NoOwner
    /\ fence' >= fence

\* The wall clock moves, in either direction.
TimePasses ==
    /\ left' \in Int
    /\ UNCHANGED <<holder, fence>>

LeaseNext == (\E p \in Owner : Grant(p)) \/ Renew \/ Drop \/ TimePasses

LeaseSpec == LeaseInit /\ [][LeaseNext]_leaseVars
=============================================================================
