-------------------------------- MODULE Ledger --------------------------------
(***************************************************************************)
(* The append-only ledger of src/services/core: a file is previewed        *)
(* against one revision and applied later under an idempotency key         *)
(* (core.go preview, apply), a database from before the corrected replay   *)
(* order is upgraded once (ledger_replay_policy.go), and a reader walks    *)
(* the activities page by page while imports go on (ledger_activity.go).   *)
(* Every action is one SQLite transaction.  The position of an event in    *)
(* "events" is its sequence, the length of "events" the ledger revision.   *)
(*                                                                         *)
(* Bounds: MaxPreviews previews, MaxEvents events, MaxWalks walks.         *)
(***************************************************************************)
EXTENDS LedgerReplay, FiniteSetsExt

CONSTANTS File,            \* the files an owner may import: sequences of rows
          UpgradedLedger,  \* the histories an older version may have stored
          Key,             \* idempotency keys
          PageLimit,
          MaxPreviews, MaxEvents, MaxWalks

ASSUME LedgerAssumption ==
    /\ File \subseteq Seq(LedgerRow) /\ UpgradedLedger \subseteq Seq(LedgerRow)
    /\ PageLimit \in Nat \ {0}
    /\ {MaxPreviews, MaxEvents, MaxWalks} \subseteq Nat

VARIABLES events,          \* the events table
          policy,          \* ledger_replay_state.policy
          legacyRevision,  \* ledger_replay_state.legacy_revision
          transition,      \* ledger_replay_transition, at most one row
          previews,        \* the previews table, in the order of creation
          receipts,        \* the receipts table, in the order of creation
          walk,            \* the reader's walk over the activities
          walks            \* how many walks began

stored == <<events, policy, legacyRevision, transition>>
imports == <<previews, receipts>>
reader == <<walk, walks>>
vars == <<events, policy, legacyRevision, transition, previews, receipts, walk, walks>>

NoWalk == [revision |-> 0, seen |-> <<>>, more |-> FALSE]

Revision == Len(events)

-----------------------------------------------------------------------------
(* Cash voids. *)

\* The target is a cash event of the same currency, no later, fully reversed.
VoidReverses(target, void) ==
    /\ target.type \in CashTypes
    /\ target.currency = void.currency
    /\ target.at <= void.at
    /\ target.amount + void.amount = 0

ValidVoid(history, void) ==
    \E i \in DOMAIN history : /\ history[i].source = void.corrects
                              /\ VoidReverses(history[i], void)

IsVoided(history, source) == \E i \in DOMAIN history : history[i].corrects = source

-----------------------------------------------------------------------------
(* Previews. *)

\* What one row of a file is worth against the stored history and the rows of
\* the same file before it.
Status(history, earlier, row) ==
    LET accepted == {earlier[i].row : i \in {j \in DOMAIN earlier : earlier[j].status \in {"new", "duplicate"}}}
        isTaken == \E r \in accepted : r.source = row.source
        kept == {i \in DOMAIN history : history[i].source = row.source}
        isVoid == row.type = "CASH_VOID"
        canVoid == /\ ValidVoid(history, row)
                   /\ ~IsVoided(history, row.corrects)
                   /\ \A r \in accepted : r.type = "CASH_VOID" => r.corrects # row.corrects
    IN  IF ~IsCanonical(row) THEN "error"
        ELSE IF ~row.known THEN "unresolved"
        ELSE IF isTaken THEN (IF row \in accepted THEN "duplicate" ELSE "error")
        ELSE IF kept # {} THEN (IF \E i \in kept : history[i] = row THEN "duplicate" ELSE "error")
        ELSE IF isVoid /\ ~canVoid THEN "error"
        ELSE "new"

\* The statuses of a whole file.
ParseCSV(history, file) ==
    LET rows[n \in 0..Len(file)] ==
          IF n = 0 THEN <<>>
          ELSE Append(rows[n - 1], [row |-> file[n], status |-> Status(history, rows[n - 1], file[n])])
    IN  rows[Len(file)]

Preview(file) ==
    /\ Len(previews) < MaxPreviews
    /\ LET rows == ParseCSV(events, file)
       IN  previews' = Append(previews,
              [file |-> file, rows |-> rows, revision |-> Revision,
               canApply |-> \A i \in DOMAIN rows : rows[i].status \in {"new", "duplicate"}])
    /\ UNCHANGED <<stored, receipts, reader>>

NewRows(preview) ==
    LET rows == preview.rows
        fresh[n \in 0..Len(rows)] ==
          IF n = 0 THEN <<>>
          ELSE IF rows[n].status = "new" THEN Append(fresh[n - 1], rows[n].row)
          ELSE fresh[n - 1]
    IN  fresh[Len(rows)]

-----------------------------------------------------------------------------
(* Imports. *)

\* The constraints and triggers of the events table, for one inserted row.
CanInsert(history, row) ==
    /\ \A i \in DOMAIN history : history[i].source # row.source
    /\ row.type = "CASH_VOID" => ValidVoid(history, row) /\ ~IsVoided(history, row.corrects)

CanInsertAll(history, rows) ==
    \A i \in DOMAIN rows : CanInsert(history \o SubSeq(rows, 1, i - 1), rows[i])

\* Broken Apply: the revision of the preview is not compared.
ApplyStale(p, key) ==
    LET rows == NewRows(previews[p])
        after == events \o rows
    IN  /\ \A i \in DOMAIN receipts : receipts[i].key # key
        /\ previews[p].canApply
        /\ policy = Fifo
        /\ CanInsertAll(events, rows)
        /\ Len(after) <= MaxEvents
        /\ Snapshot(policy, after, Len(after)).ok
        /\ events' = after
        /\ receipts' = Append(receipts, [key |-> key, preview |-> p, before |-> Revision, after |-> Len(after)])
        /\ UNCHANGED <<policy, legacyRevision, transition, previews, reader>>

\* Broken Apply: the new events are stored without replaying them.
ApplyUnreplayed(p, key) ==
    LET rows == NewRows(previews[p])
        after == events \o rows
    IN  /\ \A i \in DOMAIN receipts : receipts[i].key # key
        /\ previews[p].canApply
        /\ previews[p].revision = Revision
        /\ policy = Fifo
        /\ CanInsertAll(events, rows)
        /\ Len(after) <= MaxEvents
        /\ events' = after
        /\ receipts' = Append(receipts, [key |-> key, preview |-> p, before |-> Revision, after |-> Len(after)])
        /\ UNCHANGED <<policy, legacyRevision, transition, previews, reader>>

\* A key that was used answers with its receipt and changes nothing.
Apply(p, key) ==
    LET rows == NewRows(previews[p])
        after == events \o rows
    IN  /\ \A i \in DOMAIN receipts : receipts[i].key # key
        /\ previews[p].canApply
        /\ previews[p].revision = Revision
        /\ policy = Fifo
        /\ CanInsertAll(events, rows)
        /\ Len(after) <= MaxEvents
        /\ Snapshot(policy, after, Len(after)).ok
        /\ events' = after
        /\ receipts' = Append(receipts, [key |-> key, preview |-> p, before |-> Revision, after |-> Len(after)])
        /\ UNCHANGED <<policy, legacyRevision, transition, previews, reader>>

-----------------------------------------------------------------------------
(* The upgrade of the replay order. *)

\* proveLedgerEvents: every stored event is still canonical and every void
\* still reverses its target.
EventsProve ==
    \A i \in DOMAIN events :
        /\ IsCanonical(events[i])
        /\ events[i].type = "CASH_VOID" => ValidVoid(events, events[i])

\* The two replays of a prefix, whose hashes a transition records.
ReplayAt(revision) ==
    [revision |-> revision,
     events |-> SubSeq(events, 1, revision),
     legacy |-> Snapshot(Legacy, events, revision),
     snapshot |-> Snapshot(Fifo, events, revision)]

BothReplay(preview) == preview.legacy.ok /\ preview.snapshot.ok

Activate ==
    /\ policy = Legacy
    /\ EventsProve
    /\ BothReplay(ReplayAt(legacyRevision))
    /\ transition' = {ReplayAt(legacyRevision)}
    /\ policy' = Fifo
    /\ UNCHANGED <<events, legacyRevision, imports, reader>>

\* proveLedgerReplayState, without the archival exception.
ReplayStateProves ==
    /\ legacyRevision <= Revision
    /\ policy = Fifo
    /\ legacyRevision = 0 => transition = {}
    /\ legacyRevision > 0 => /\ transition = {ReplayAt(legacyRevision)}
                             /\ BothReplay(ReplayAt(legacyRevision))

-----------------------------------------------------------------------------
(* The activity walk. *)

\* Newest first, those of one time by their sequence.
NewestFirst(S) == Reverse(InOrder(S, [i \in S |-> events[i].at]))

Activities(revision) == NewestFirst(1..revision)

\* The activities after a cursor, the last activity seen.
After(revision, seen) ==
    LET cursor == Last(seen)
    IN  NewestFirst({i \in 1..revision : \/ events[i].at < events[cursor].at
                                         \/ events[i].at = events[cursor].at /\ i < cursor})

Page(revision, seen) == IF seen = <<>> THEN Activities(revision) ELSE After(revision, seen)

\* One page more of a walk over a revision.
Read(revision, seen) ==
    LET page == Page(revision, seen)
        shown == SubSeq(page, 1, Smaller(PageLimit, Len(page)))
    IN  [revision |-> revision, seen |-> seen \o shown, more |-> Len(page) > PageLimit]

CanRead == ReplayStateProves /\ Snapshot(policy, events, Revision).ok /\ EventsProve

StartWalk ==
    /\ walks < MaxWalks /\ ~walk.more
    /\ CanRead
    /\ walk' = Read(Revision, <<>>)
    /\ walks' = walks + 1
    /\ UNCHANGED <<stored, imports>>

\* Broken NextPage: a later page shows the ledger as it is then.
NextPageOfToday ==
    /\ walk.more
    /\ CanRead
    /\ walk' = Read(Revision, walk.seen)
    /\ UNCHANGED <<stored, imports, walks>>

\* The cursor carries the revision of the first page.
NextPage ==
    /\ walk.more
    /\ CanRead
    /\ walk' = Read(walk.revision, walk.seen)
    /\ UNCHANGED <<stored, imports, walks>>

-----------------------------------------------------------------------------

\* What an older version imported passed the same checks, row by row.
IsImported(history) ==
    /\ CanInsertAll(<<>>, history)
    /\ \A i \in DOMAIN history : IsCanonical(history[i])

\* Migration 022 keeps the old order for a database that holds events.
Init ==
    /\ \E history \in UpgradedLedger \cup {<<>>} :
        /\ IsImported(history)
        /\ Replay(Legacy, history).ok
        /\ events = history
        /\ policy = IF history = <<>> THEN Fifo ELSE Legacy
        /\ legacyRevision = Len(history)
    /\ transition = {}
    /\ previews = <<>> /\ receipts = <<>>
    /\ walk = NoWalk /\ walks = 0

Next ==
    \/ \E file \in File : Preview(file)
    \/ \E p \in DOMAIN previews, key \in Key : Apply(p, key)
    \/ Activate
    \/ StartWalk
    \/ NextPage

Spec == Init /\ [][Next]_vars

-----------------------------------------------------------------------------
(* Properties. *)

\* The receipts, previews and walk only name what is stored.
LedgerTypeOK ==
    /\ policy \in {Fifo, Legacy}
    /\ legacyRevision \in 0..Revision
    /\ Cardinality(transition) <= 1
    /\ \A i \in DOMAIN previews : /\ previews[i].file \in File
                                  /\ previews[i].revision \in 0..Revision
                                  /\ Len(previews[i].rows) = Len(previews[i].file)
    /\ \A i \in DOMAIN receipts : /\ receipts[i].preview \in DOMAIN previews
                                  /\ receipts[i].before <= receipts[i].after
    /\ walk.revision <= Revision

\* Whatever was imported, and in whatever order, the stored ledger replays under
\* its policy and every event still proves: core.go snapshotFromPolicy and
\* ledger_activity.go proveLedgerEvents, without which nothing can be read.
LedgerReplays == Snapshot(policy, events, Revision).ok /\ EventsProve

\* What the amounts of the positions S add up to.
Total(amount, S) == MapThenSumSet(LAMBDA i : amount[i], S)

\* Under the corrected policy no share is sold before it was bought, by the
\* time of the events and not by the order of the imports (core.go
\* snapshotFromPolicy ORDER BY).
NeverOversold ==
    policy = Fifo =>
        \A c \in Currency :
            LET byTime == InOrder(DOMAIN events, [i \in DOMAIN events |-> events[i].at])
                Then(held, e) ==
                  IF e.currency # c THEN held
                  ELSE CASE e.type = "BUY"    -> held + e.quantity
                         [] e.type = "SELL"   -> held - e.quantity
                         [] e.type = "SPLIT"  -> held * e.quantity
                         [] OTHER             -> held
                held[n \in 0..Len(events)] ==
                  IF n = 0 THEN 0 ELSE Then(held[n - 1], events[byTime[n]])
            IN  \A n \in DOMAIN events : held[n] >= 0

\* The rounding of FIFO costs loses nothing: what the sales realized and what
\* the open lots still cost account for every trade's cash (internal/exact
\* FIFOAllocation).
CostIsConserved ==
    LET portfolio == Snapshot(policy, events, Revision)
        trades(c) == {i \in DOMAIN events : events[i].type \in TradeTypes /\ events[i].currency = c}
        TradesIn(c) == Total([i \in DOMAIN events |-> events[i].amount], trades(c))
        lots(c) == portfolio.lots[c]
        CostIn(c) == Total([i \in DOMAIN lots(c) |-> lots(c)[i].cost], DOMAIN lots(c))
    IN  \A c \in Currency :
            /\ portfolio.realized[c] - CostIn(c) = TradesIn(c)
            /\ \A i \in DOMAIN lots(c) : lots(c)[i].cost >= 0

\* What remains open are the last shares bought: the lots hold, share for share,
\* the newest purchases (core.go snapshotFromPolicy, FIFO), here for ledgers
\* without splits.
NewestRemain ==
    LET portfolio == Snapshot(Fifo, events, Revision)
        buys(c) == LET S == {i \in DOMAIN events : events[i].type = "BUY" /\ events[i].currency = c}
                   IN  InOrder(S, [i \in S |-> events[i].at])
    IN  policy = Fifo /\ (\A i \in DOMAIN events : events[i].type # "SPLIT") =>
            \A c \in Currency :
                LET lots == portfolio.lots[c]
                    skipped == Len(buys(c)) - Len(lots)
                IN  /\ skipped >= 0
                    /\ \A k \in DOMAIN lots :
                        /\ lots[k].quantity <= events[buys(c)[skipped + k]].quantity
                        /\ k > 1 => lots[k].quantity = events[buys(c)[skipped + k]].quantity

\* A voided cash event leaves the cash as if it had never been imported, and is
\* voided once (core.go validateCashVoid, events_cash_void_guard).
VoidsCancel ==
    LET portfolio == Snapshot(policy, events, Revision)
        Counts(e) == e.type # "CASH_VOID" /\ ~IsVoided(events, e.source)
        In(e, c) == (IF e.currency = c THEN e.amount ELSE 0) + (IF e.counter = c THEN e.counterAmount ELSE 0)
    IN  \A c \in Currency :
            portfolio.cash[c] = Total([i \in DOMAIN events |-> In(events[i], c)],
                                      {i \in DOMAIN events : Counts(events[i])})

\* What a receipt applied is what its preview showed against the very revision
\* it was applied to: previewing the file again at that revision gives the same
\* rows, and the events it added are its new rows (core.go apply).
AppliedAsReviewed ==
    \A i \in DOMAIN receipts :
        LET r == receipts[i]
            p == previews[r.preview]
        IN  /\ r.before = p.revision
            /\ p.rows = ParseCSV(SubSeq(events, 1, r.before), p.file)
            /\ SubSeq(events, r.before + 1, r.after) = NewRows(p)

\* The one upgrade of the replay order stays provable however many events were
\* imported since (ledger_replay_policy.go proveLedgerReplayState).
UpgradeStaysProvable == policy = Fifo => ReplayStateProves

\* A finished walk has shown every activity of the revision it began at, newest
\* first and once, whatever was imported between its pages (ledger_activity.go
\* ledgerActivities).
WalkIsComplete ==
    walks > 0 /\ ~walk.more => walk.seen = Activities(walk.revision)

\* The ledger can be read for good: whatever is imported later, at whatever
\* dates, it replays, its events prove, and so does the upgrade it came from
\* (core.go snapshotFrom, ledger_replay_policy.go proveLedgerReplayState).
LedgerStaysReadable == LedgerTypeOK /\ LedgerReplays /\ UpgradeStaysProvable

\* The portfolio that the replay of core.go snapshotFromPolicy gives is the one
\* the events tell: holdings, costs, the lots that remain and the cash.
PortfolioIsRight == NeverOversold /\ CostIsConserved /\ NewestRemain /\ VoidsCancel
=============================================================================
