------------------------- MODULE ExecutionAuthority -------------------------
(***************************************************************************)
(* The execution authority of execution_authority.go, migration 004 and    *)
(* paper_local_heartbeat.go: per account an insert-only history of arm,    *)
(* halt and lease records whose newest record says who may dispatch.       *)
(*                                                                         *)
(* A process that restarts has a new executionOwner, so a crashed owner    *)
(* never comes back.  Processes read the same wall clock; it may be set    *)
(* back.  MaxFence stands for math.MaxInt64, the end of the fencing token. *)
(***************************************************************************)
EXTENDS Accounts, Sequences

CONSTANTS
    Process,        \* executionOwner values, one for each process
    NoOwner,
    TTL,            \* syntheticExecutionLeaseTTL
    MaxFence,
    MaxTime         \* bound on the clock

ASSUME LeaseAssumption ==
    /\ NoOwner \notin Process
    /\ TTL \in Nat \ {0} /\ MaxFence \in Nat /\ MaxTime \in Nat

VARIABLES
    history,    \* execution_authority_events of each account
    held,       \* the fencing token each process holds for an account, or 0
    alive,      \* the processes that run
    now         \* the wall clock

authorityVars == <<history, held, alive, now>>

Reason == {"manual_arm", "manual_halt", "automatic_performance_halt", "lease_acquired"}

NoAuthority == [armed |-> FALSE, owner |-> NoOwner, token |-> 0,
                expires |-> 0, at |-> 0, reason |-> "none"]

Record == [armed: BOOLEAN, owner: Process \cup {NoOwner}, token: Nat \ {0},
           expires: Nat, at: Nat, reason: Reason]

AuthorityTypeOK ==
    /\ history \in [Account -> Seq(Record)]
    /\ held \in [Process -> [Account -> Nat]]
    /\ alive \subseteq Process
    /\ now \in Nat

\* loadExecutionAuthoritySnapshot: the newest record of the account.
Current(a) ==
    IF history[a] = <<>> THEN NoAuthority ELSE history[a][Len(history[a])]

ArmRecord(token) ==
    [armed |-> TRUE, owner |-> NoOwner, token |-> token, expires |-> 0,
     at |-> now, reason |-> "manual_arm"]

HaltRecord(token, reason) ==
    [armed |-> FALSE, owner |-> NoOwner, token |-> token, expires |-> 0,
     at |-> now, reason |-> reason]

LeaseRecord(p, token) ==
    [armed |-> TRUE, owner |-> p, token |-> token, expires |-> now + TTL,
     at |-> now, reason |-> "lease_acquired"]

\* Broken Unexpired: a lease from the future counts as over.
UnexpiredFromNow(c) == c.owner # NoOwner /\ c.at <= now /\ now < c.expires

\* Broken Unexpired: the lease ends one moment early.
UnexpiredButLast(c) == c.owner # NoOwner /\ now + 1 < c.expires

\* The lease of the newest record c has not run out.
Unexpired(c) == c.owner # NoOwner /\ now < c.expires

\* Broken OwnsLease: any live lease will do.
LeaseIsLive(p, a, token) == Current(a).armed /\ now < Current(a).expires

\* validateOwnedExecutionLease: p may act on account a with this token.
OwnsLease(p, a, token) ==
    /\ Current(a).armed
    /\ Current(a).owner = p
    /\ Current(a).token = token
    /\ now < Current(a).expires

Hold(p, a, token) == held' = [held EXCEPT ![p][a] = token]

Write(a, record) ==
    /\ record.token <= MaxFence
    /\ history' = [history EXCEPT ![a] = Append(@, record)]

-----------------------------------------------------------------------------
AuthorityInit ==
    /\ history = [a \in Account |-> <<>>]
    /\ held = [p \in Process |-> [a \in Account |-> 0]]
    /\ alive = Process
    /\ now = 0

\* setSyntheticExecutionArmed with TRUE; already armed changes nothing.
Arm(a) ==
    /\ ~Current(a).armed
    /\ Write(a, ArmRecord(Current(a).token + 1))
    /\ UNCHANGED <<held, alive, now>>

\* setSyntheticExecutionArmed with FALSE; already halted changes nothing.
Halt(a) ==
    /\ Current(a).armed
    /\ Write(a, HaltRecord(Current(a).token + 1, "manual_halt"))
    /\ UNCHANGED <<held, alive, now>>

\* haltSyntheticExecutionTx for every armed account at once: the manual
\* rollback of the strategy and the automatic one of the performance policy.
HaltAll(reason) ==
    LET armed == {a \in Account : Current(a).armed}
    IN  /\ armed # {}
        /\ \A a \in armed : Current(a).token < MaxFence
        /\ history' = [a \in Account |->
               IF a \in armed
               THEN Append(history[a], HaltRecord(Current(a).token + 1, reason))
               ELSE history[a]]
        /\ UNCHANGED <<held, alive, now>>

\* acquireSyntheticExecutionLeaseTx: the owner of an unexpired lease gets its
\* token back, another process is refused, an ended lease is replaced.
AcquireLease(p, a) ==
    LET c == Current(a)
    IN  /\ p \in alive
        /\ c.armed
        /\ Unexpired(c) => c.owner = p
        /\ IF Unexpired(c)
           THEN Hold(p, a, c.token) /\ UNCHANGED history
           ELSE /\ Write(a, LeaseRecord(p, c.token + 1))
                /\ Hold(p, a, c.token + 1)
        /\ UNCHANGED <<alive, now>>

\* startLocalPaperExecutionWithClaim on a halted account: the arm and the
\* lease record in one transaction.  On an armed account it is AcquireLease.
StartLocal(p, a) ==
    LET t == Current(a).token
    IN  /\ p \in alive
        /\ ~Current(a).armed
        /\ t < MaxFence - 1
        /\ history' = [history EXCEPT ![a] =
               @ \o <<ArmRecord(t + 1), LeaseRecord(p, t + 2)>>]
        /\ Hold(p, a, t + 2)
        /\ UNCHANGED <<alive, now>>

\* The authority half of heartbeatLocalPaperExecution: the holder extends a
\* lease that still runs, under the next token.  A second renewal at the same
\* instant would not extend it and is refused.
RenewLease(p, a) ==
    LET c == Current(a)
    IN  /\ p \in alive
        /\ held[p][a] # 0
        /\ held[p][a] < MaxFence - 1
        /\ OwnsLease(p, a, held[p][a])
        /\ now > c.at
        /\ Write(a, LeaseRecord(p, c.token + 1))
        /\ Hold(p, a, c.token + 1)
        /\ UNCHANGED <<alive, now>>

\* haltOwnedSyntheticExecutionLease: a run that ends revokes its own lease,
\* expired or not, but never a newer one or that of another process.
HaltOwned(p, a) ==
    /\ p \in alive
    /\ held[p][a] # 0
    /\ Current(a).armed /\ Current(a).owner = p /\ Current(a).token = held[p][a]
    /\ Write(a, HaltRecord(Current(a).token + 1, "manual_halt"))
    /\ Hold(p, a, 0)
    /\ UNCHANGED <<alive, now>>

\* The process is killed: it forgets its tokens and its owner id is gone.
CrashProcess(p) ==
    /\ p \in alive
    /\ alive' = alive \ {p}
    /\ held' = [held EXCEPT ![p] = [a \in Account |-> 0]]

Crash(p) == CrashProcess(p) /\ UNCHANGED <<history, now>>

ClockAdvances == now < MaxTime /\ now' = now + 1

\* The wall clock is set back.
ClockSetBack == now > 0 /\ now' = now - 1

Tick == ClockAdvances /\ UNCHANGED <<history, held, alive>>

SetBack == ClockSetBack /\ UNCHANGED <<history, held, alive>>

AuthorityNext ==
    \/ \E a \in Account : Arm(a) \/ Halt(a)
    \/ HaltAll("manual_halt") \/ HaltAll("automatic_performance_halt")
    \/ \E p \in Process, a \in Account :
          AcquireLease(p, a) \/ StartLocal(p, a) \/ RenewLease(p, a) \/ HaltOwned(p, a)
    \/ \E p \in Process : Crash(p)
    \/ Tick \/ SetBack

AuthoritySpec == AuthorityInit /\ [][AuthorityNext]_authorityVars

-----------------------------------------------------------------------------
(* Properties *)

\* validateExecutionAuthorityRecordBasic
ValidBasic(r) ==
    /\ r.token > 0
    /\ r.owner = NoOwner <=> r.expires = 0
    /\ ~r.armed => r.owner = NoOwner
    /\ r.owner # NoOwner => r.at < r.expires

\* validateExecutionAuthorityRecord for the first record of an account
ValidFirst(r) ==
    r.token = 1 /\ r.reason = "manual_arm" /\ r.armed /\ r.owner = NoOwner

\* validateExecutionAuthorityRecord for record r stored after record q
ValidNext(q, r) ==
    /\ r.token = q.token + 1
    /\ r.reason = "manual_arm" => ~q.armed /\ r.armed /\ r.owner = NoOwner
    /\ r.reason \in {"manual_halt", "automatic_performance_halt"} =>
           q.armed /\ ~r.armed /\ r.owner = NoOwner
    /\ r.reason = "lease_acquired" =>
           /\ q.armed /\ r.armed /\ r.owner # NoOwner
           /\ q.owner # NoOwner /\ r.at < q.expires =>
                  r.owner = q.owner /\ q.at <= r.at /\ q.expires < r.expires

ValidHistory(h) ==
    /\ \A i \in 1..Len(h) : ValidBasic(h[i])
    /\ Len(h) > 0 => ValidFirst(h[1])
    /\ \A i \in 1..(Len(h) - 1) : ValidNext(h[i], h[i + 1])

\* Every stored history passes the replay that precedes each authority
\* operation.  A history that failed it once would stay unreadable for ever,
\* with the account neither armed nor haltable: no order of arms, leases,
\* renewals and halts of any processes, and no clock set back between two of
\* them, may write such a record.
HistoryReplays == \A a \in Account : ValidHistory(history[a])

\* A fencing token is held only by the process it was issued to.  Two holders
\* of one token would both pass validateOwnedExecutionLease's token test.
TokenHasOneHolder ==
    \A p \in Process, a \in Account :
        held[p][a] # 0 =>
            /\ held[p][a] <= Len(history[a])
            /\ history[a][held[p][a]].owner = p

\* The records of an account implement a fenced lease: a foreign process gets
\* the lease only after it ran out or was revoked, and always under a fence
\* that no earlier holder can show.
LeaseOf(a) == INSTANCE FencedLease WITH
    Owner <- Process,
    holder <- Current(a).owner,
    fence <- Current(a).token,
    left <- Current(a).expires - now

ImplementsFencedLease ==
    /\ \A a \in Account : LeaseOf(a)!LeaseInit
    /\ [][\A a \in Account :
             LeaseOf(a)!LeaseNext \/ UNCHANGED LeaseOf(a)!leaseVars]_authorityVars

\* Once a process may no longer act under its token because the authority
\* moved on, it never may again under that token, although expiry alone is
\* undone when the clock is set back.
SupersededTokenStaysRefused ==
    [][\A p \in Process, a \in Account :
          held[p][a] # 0 /\ held'[p][a] = held[p][a] /\ Current(a).token # held[p][a]
          => ~OwnsLease(p, a, held[p][a])']_authorityVars
=============================================================================
