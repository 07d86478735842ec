-------------------------- MODULE PaperRunnerLease --------------------------
(***************************************************************************)
(* The paper runner lease of paper_runner_lease.go and migration 021: one  *)
(* row for the whole database that says which process may value paper      *)
(* accounts and act on the result, for which account and under which       *)
(* strategy selection.                                                     *)
(*                                                                         *)
(* A process keeps the row it wrote as its claim and every later write     *)
(* compares all of it.  A process that starts again has a new owner id.    *)
(* The clock starts at 1, because paperRunnerTimeNS wants a positive time, *)
(* and may be set back; MaxFence stands for math.MaxInt64.                 *)
(***************************************************************************)
EXTENDS StrategySelection

CONSTANTS
    Account, NoAccount,
    Process,            \* paperRunnerOwner values, one for each process
    NoOwner,
    NoClaim,            \* the nil claim
    TTL,                \* paperRunnerLeaseTTL
    MaxFence,
    MaxTime,            \* bound on the clock
    ClockMayRegress     \* bound: whether the clock is set back

ASSUME LeaseAssumption ==
    /\ NoOwner \notin Process /\ NoAccount \notin Account
    /\ TTL \in Nat \ {0} /\ MaxFence \in Nat /\ MaxTime \in Nat \ {0}
    /\ ClockMayRegress \in BOOLEAN

VARIABLES
    lease,      \* the row of paper_runner_leases
    claim,      \* the claim each process holds, or NoClaim
    alive,      \* the processes that run
    now         \* the wall clock

leaseVars == <<lease, claim, alive, now>>

vars == <<registryVars, leaseVars>>

Row == [token: Nat, owner: Process \cup {NoOwner}, account: Account \cup {NoAccount},
        beat: Nat, expires: Nat, selection: Nat]

Released(token) ==
    [token |-> token, owner |-> NoOwner, account |-> NoAccount,
     beat |-> 0, expires |-> 0, selection |-> 0]

\* The nil claim is no row.
ASSUME NoClaimAssumption == NoClaim \notin Row

LeaseTypeOK ==
    /\ RegistryTypeOK
    /\ lease \in Row
    /\ claim \in [Process -> Row \cup {NoClaim}]
    /\ alive \subseteq Process
    /\ now \in Nat \ {0}

\* The row p writes when it gets the lease.
Granted(p, a) ==
    [token |-> lease.token + 1, owner |-> p, account |-> a,
     beat |-> now, expires |-> now + TTL, selection |-> CurrentEvent]

\* renewPaperRunnerLeaseRowTx: the same row from now on.
Renewed == [lease EXCEPT !.beat = now, !.expires = now + TTL]

IsHeld == lease.owner # NoOwner

\* Broken HoldsLease: a heartbeat from the future is accepted.
HoldsFutureLease(p) ==
    claim[p] # NoClaim /\ claim[p] = lease /\ lease.owner = p /\ now < lease.expires

\* Broken HoldsLease: the expiry is not looked at.
HoldsRow(p) ==
    claim[p] # NoClaim /\ claim[p] = lease /\ lease.owner = p /\ lease.beat <= now

\* validatePaperRunnerLeaseTx without the selection: p's claim is the row, and
\* the clock is inside its time.
HoldsLease(p) ==
    /\ claim[p] # NoClaim /\ claim[p] = lease /\ lease.owner = p
    /\ lease.beat <= now /\ now < lease.expires

ValidClaim(p) == HoldsLease(p) /\ lease.selection = CurrentEvent

\* rejectLivePaperRunnerLease without its look at unfinished work: a live
\* lease and one from the future both forbid a manual change.
LeaseAllowsSelection == IsHeld => lease.expires <= now

SetLease(p, row) == lease' = row /\ claim' = [claim EXCEPT ![p] = row]

-----------------------------------------------------------------------------
LeaseInit ==
    /\ lease = Released(0)
    /\ claim = [p \in Process |-> NoClaim]
    /\ alive = Process
    /\ now = 1

\* A retry of the owner gets its live row back unchanged.
MayRetry(p, a) ==
    /\ lease.beat <= now /\ now < lease.expires
    /\ lease.owner = p /\ lease.account = a /\ lease.selection = CurrentEvent

\* The lease is free or over.
MayTake ==
    /\ IsHeld => lease.beat <= now /\ lease.expires <= now
    /\ lease.token < MaxFence

CanAcquire(p, a) == Selected # NoStrategy /\ (MayRetry(p, a) \/ MayTake)

\* acquirePaperRunnerLease
Acquire(p, a) ==
    /\ p \in alive
    /\ CanAcquire(p, a)
    /\ SetLease(p, IF MayRetry(p, a) THEN lease ELSE Granted(p, a))
    /\ UNCHANGED <<registryVars, alive, now>>

\* heartbeatPaperRunnerLease
Heartbeat(p) ==
    /\ p \in alive
    /\ ValidClaim(p)
    /\ SetLease(p, Renewed)
    /\ UNCHANGED <<registryVars, alive, now>>

\* releasePaperRunnerLease: only the exact row is given up, expired or not;
\* its fence stays.
Release(p) ==
    /\ p \in alive
    /\ claim[p] # NoClaim /\ claim[p] = lease
    /\ lease' = Released(lease.token)
    /\ claim' = [claim EXCEPT ![p] = NoClaim]
    /\ UNCHANGED <<registryVars, alive, now>>

\* Broken PolicyRollback: the selection stays as it is.
PolicyHaltOnly(p) ==
    /\ p \in alive
    /\ ValidClaim(p)
    /\ SetLease(p, Renewed)
    /\ UNCHANGED <<registryVars, alive, now>>

\* The part of a HALT_AND_ROLLBACK policy the lease sees: the selection is
\* rolled back under the claim, and renewPaperRunnerLeaseAfterPolicyRollbackTx
\* renews the row with the selection that just ended.
PolicyRollback(p) ==
    /\ p \in alive
    /\ ValidClaim(p)
    /\ RollbackPaperCandidate(lease.selection, "automatic_performance_rollback", now)
    /\ SetLease(p, Renewed)
    /\ UNCHANGED <<alive, now>>

\* strategy-select and the manual rollback.
ManualSelect(r) ==
    /\ LeaseAllowsSelection
    /\ CurrentEvent < MaxSelections
    /\ SelectPaperCandidate(r, CurrentEvent, now)
    /\ UNCHANGED leaseVars

ManualRollback ==
    /\ LeaseAllowsSelection
    /\ CurrentEvent < MaxSelections
    /\ RollbackPaperCandidate(CurrentEvent, "manual_rollback", now)
    /\ UNCHANGED leaseVars

Register(r) == RegisterEvidence(r) /\ UNCHANGED leaseVars

\* SIGKILL: the claim is gone, the row stays.
Kill(p) ==
    /\ p \in alive
    /\ alive' = alive \ {p}
    /\ claim' = [claim EXCEPT ![p] = NoClaim]
    /\ UNCHANGED <<registryVars, lease, now>>

Tick == now < MaxTime /\ now' = now + 1 /\ UNCHANGED <<registryVars, lease, claim, alive>>

SetBack ==
    /\ ClockMayRegress
    /\ now > 1
    /\ now' = now - 1
    /\ UNCHANGED <<registryVars, lease, claim, alive>>

LeaseNext ==
    \/ \E p \in Process, a \in Account : Acquire(p, a)
    \/ \E p \in Process : Heartbeat(p) \/ Release(p) \/ PolicyRollback(p) \/ Kill(p)
    \/ \E r \in Result : Register(r) \/ ManualSelect(r)
    \/ ManualRollback
    \/ Tick \/ SetBack

RunnerInit == RegistryInit /\ LeaseInit

LeaseSpec == RunnerInit /\ [][LeaseNext]_vars

-----------------------------------------------------------------------------
(* Properties *)

\* The row implements a fenced lease: it changes hands only when it was given
\* up or its time was over, and never under a fence seen before.
Fenced == INSTANCE FencedLease WITH
    Owner <- Process,
    holder <- lease.owner,
    fence <- lease.token,
    left <- lease.expires - now

ImplementsFencedLease == Fenced!LeaseSpec

\* The transitions the trigger paper_runner_leases_state_guard of migration
\* 021 lets through, for row q replaced by row r.
GuardAllows(q, r) ==
    LET span == r.expires - r.beat = TTL
    IN  \/ /\ q.owner # NoOwner
           /\ r.token = q.token /\ r.owner = q.owner /\ r.account = q.account
           /\ r.selection = q.selection
           /\ q.beat <= r.beat /\ r.beat < q.expires /\ span
        \/ q.owner # NoOwner /\ r = Released(q.token)
        \/ /\ r.owner # NoOwner
           /\ q.token < MaxFence /\ r.token = q.token + 1
           /\ r.beat > 0 /\ span
           /\ q.owner = NoOwner \/ (q.expires <= r.beat /\ q.beat <= r.beat)

\* The code never writes a row that the trigger aborts: the conditions in Go
\* and those in SQL agree on renewals, releases and takeovers, also after the
\* clock was set back.
WritesPassGuard == [][lease' # lease => GuardAllows(lease, lease')]_vars

\* Once the selection moved on under a lease, nobody renews that lease under
\* the old selection: it can only be given up or replaced under a new fence.
\* The one renewal that may name an older selection is the rollback's own.
OutdatedLeaseNotRenewed ==
    [][IsHeld /\ lease.selection # CurrentEvent /\ lease' # lease
       => lease'.owner = NoOwner \/ lease'.token > lease.token]_vars

\* A process that lost the lease never passes validation again with the claim
\* it has, although the row may be released, retaken and the clock set back.
LostClaimStaysLost ==
    [][\A p \in Process :
          claim[p] # NoClaim /\ claim[p] # lease /\ claim'[p] = claim[p]
          => ~HoldsLease(p)']_vars
=============================================================================
