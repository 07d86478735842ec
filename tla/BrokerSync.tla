------------------------------ MODULE BrokerSync ------------------------------
(***************************************************************************)
(* The command kiwoom-mock-sync (kiwoom_mock_sync.go): it reads an account *)
(* of the broker call by call (kiwoom.go), and stores the positions with   *)
(* their differences to the ledger in one transaction (broker_snapshot.go).*)
(* Several commands run side by side, the ledger imports in between, and   *)
(* the broker trades, takes tokens back and gives its pages as it likes.   *)
(*                                                                         *)
(* A time is a number of half seconds, as in OwnerSeries.  The evaluation  *)
(* is read in pages, page i with the position of symbol i; open orders are *)
(* one more page without content.  Hashes, the environment (always mock)   *)
(* and the time of the record are left out.                                *)
(***************************************************************************)
EXTENDS Integers, Sequences, FiniteSets, SequencesExt

CONSTANTS Procs,          \* commands that may run at a time
          Accounts,       \* accounts of the broker
          Pages,          \* pages of the evaluation, and the symbols
          MaxPages,       \* kiwoomMaxPages
          MaxQuantity,    \* bound of a position
          MaxTime,        \* bound of the clock
          MaxBooks,       \* bound of the changes of an account
          MaxRevision,    \* bound of the ledger
          MaxSyncs        \* bound of the commands started

ASSUME BrokerSyncAssumption ==
    /\ Pages \in Nat \ {0} /\ MaxPages \in Nat /\ MaxQuantity \in Nat
    /\ MaxTime \in Nat /\ MaxBooks \in Nat /\ MaxRevision \in Nat /\ MaxSyncs \in Nat

VARIABLES now,              \* the clock of the host: it may be set back
          books,            \* the positions every account has had, the last are its own now
          ledger,           \* the position in the ledger after every event
          snapshots,        \* broker_snapshots
          reconciliations,  \* broker_snapshot_reconciliations
          sync,             \* the commands
          started           \* number of commands started

vars == <<now, books, ledger, snapshots, reconciliations, sync, started>>

Symbols   == 1 .. Pages
Times     == 0 .. MaxTime
Positions == [Symbols -> 0 .. MaxQuantity]

\* Where the text of a time stands among the texts of its length of clock:
\* "...:00.5Z" sorts before "...:00Z".
TextRank(t) == IF t % 2 = 0 THEN t + 1 ELSE t - 1

\* The totals of an account; every page of an evaluation repeats them.
Totals(positions) == FoldFunction(+, 0, positions)

Book(account) == Last(books[account])

LedgerAt(revision) == IF revision = 0 THEN [s \in Symbols |-> 0] ELSE ledger[revision]

\* A command: the account it is configured for, the one its keys open, the
\* cached token, the attempts of its request, the cursor it asks for, the
\* cursors and the rows it was given, and the time of its snapshot.
Fresh(account, opened) ==
    [phase |-> "account", account |-> account, opened |-> opened, token |-> "none",
     attempt |-> 0, cursor |-> 1, seen |-> {}, totals |-> 0, rows |-> <<>>, fetched |-> 0]

Over(account) == [Fresh(account, account) EXCEPT !.phase = "ended"]

Reading(p) == sync[p].phase \in {"account", "evaluation", "orders"}

Change(p, to) == sync' = [sync EXCEPT ![p] = to]

End(p) == Over(sync[p].account)

-----------------------------------------------------------------------------
(* The proofs and the binding.                                             *)

\* proveBrokerRecovery: every record belongs to a snapshot and has its
\* quantities, and no snapshot is without one.
Recovered ==
    /\ \A i \in DOMAIN reconciliations :
          /\ reconciliations[i].snapshot \in DOMAIN snapshots
          /\ reconciliations[i].broker = snapshots[reconciliations[i].snapshot].held
    /\ \A n \in DOMAIN snapshots :
          \E i \in DOMAIN reconciliations : reconciliations[i].snapshot = n

\* requireKiwoomMockBinding: the stored snapshots are of this account alone.
BoundTo(account) == \A n \in DOMAIN snapshots : snapshots[n].account = account

\* Before the first secret and request the stored history is proved and bound.
Start(p, account, opened) ==
    /\ sync[p].phase = "ended"
    /\ started < MaxSyncs
    /\ started' = started + 1
    /\ Change(p, IF Recovered /\ BoundTo(account) THEN Fresh(account, opened)
                 ELSE Over(account))
    /\ UNCHANGED <<now, books, ledger, snapshots, reconciliations>>

-----------------------------------------------------------------------------
(* The requests.                                                           *)

\* token(): the cached token, or another one while there is none or it is
\* about to expire.
GetToken(p, token) ==
    /\ Reading(p)
    /\ sync[p].attempt = 0 \/ sync[p].token = "none"
    /\ token \in {sync[p].token, "valid"} \ {"none"}
    /\ Change(p, [sync[p] EXCEPT !.token = token, !.attempt = @ + 1])
    /\ UNCHANGED <<now, books, ledger, snapshots, reconciliations, started>>

\* The broker refuses the token: the cache forgets it, and the request is
\* repeated once, with another token.
Refused(p) ==
    /\ Reading(p) /\ sync[p].attempt > 0 /\ sync[p].token = "revoked"
    /\ Change(p, IF sync[p].attempt = 1 THEN [sync[p] EXCEPT !.token = "none"] ELSE End(p))
    /\ UNCHANGED <<now, books, ledger, snapshots, reconciliations, started>>

\* A request of the phase is answered.
Answers(p, phase) ==
    sync[p].phase = phase /\ sync[p].attempt > 0 /\ sync[p].token = "valid"

\* The number of the account, and the open orders.
AnswerAccount(p) ==
    /\ Answers(p, "account")
    /\ Change(p, [sync[p] EXCEPT !.phase = "evaluation", !.attempt = 0])
    /\ UNCHANGED <<now, books, ledger, snapshots, reconciliations, started>>

AnswerOrders(p) ==
    /\ Answers(p, "orders")
    /\ Change(p, [sync[p] EXCEPT !.phase = "read", !.attempt = 0, !.token = "none",
                                 !.fetched = now])
    /\ UNCHANGED <<now, books, ledger, snapshots, reconciliations, started>>

\* The command with the row of the page it asked for.
Taken(c) ==
    [c EXCEPT !.totals = Totals(Book(c.opened)), !.attempt = 0,
              !.rows = Append(@, [symbol |-> c.cursor,
                                  quantity |-> Book(c.opened)[c.cursor]])]

\* The command with its evaluation read.
Evaluated(c) == [Taken(c) EXCEPT !.phase = "orders", !.totals = 0, !.cursor = 1, !.seen = {}]

\* A page of the evaluation: its totals are those of the first page, and a
\* further page (next # 0) is within the limit and under a new cursor.
AnswerEvaluation(p, next) ==
    LET c == sync[p]
    IN  /\ Answers(p, "evaluation")
        /\ Change(p, IF c.rows # <<>> /\ c.totals # Totals(Book(c.opened)) THEN End(p)
                     ELSE IF next = 0 THEN Evaluated(c)
                     ELSE IF Len(c.rows) + 1 = MaxPages \/ next \in c.seen THEN End(p)
                     ELSE [Taken(c) EXCEPT !.cursor = next, !.seen = @ \cup {next}])
        /\ UNCHANGED <<now, books, ledger, snapshots, reconciliations, started>>

\* The broker's part of it: the next page while there is one, or, wrongly, a
\* cursor it gave before or the first page again.
NextCursors(c) ==
    {IF c.cursor < Pages THEN c.cursor + 1 ELSE 0} \cup c.seen \cup {1}

\* Whatever else ends a command before its transaction: an answer it does not
\* accept, the time of a request or of the command, or its death.
Fail(p) ==
    /\ Reading(p) \/ sync[p].phase = "read"
    /\ Change(p, End(p))
    /\ UNCHANGED <<now, books, ledger, snapshots, reconciliations, started>>

-----------------------------------------------------------------------------
(* The transaction.                                                        *)

\* What the rows say of every symbol.
Held(rows) ==
    [s \in Symbols |-> IF \E i \in DOMAIN rows : rows[i].symbol = s
                       THEN rows[CHOOSE i \in DOMAIN rows : rows[i].symbol = s].quantity
                       ELSE 0]

\* Broken Acceptable: the answered account is not compared.
AcceptableOfAny(c) ==
    \A i, j \in DOMAIN c.rows : c.rows[i].symbol = c.rows[j].symbol => i = j

\* The answered account is the configured one, and validateKiwoomSnapshot:
\* every symbol has one row.
Acceptable(c) ==
    /\ c.opened = c.account
    /\ \A i, j \in DOMAIN c.rows : c.rows[i].symbol = c.rows[j].symbol => i = j

\* The stored snapshot of the account and time, as a set of its number.
Prior(account, fetched) ==
    {n \in DOMAIN snapshots : snapshots[n].account = account /\ snapshots[n].fetched = fetched}

\* Broken Reconciliation: the newest event is not counted.
ReconciliationBehind(n, held) ==
    LET at == LedgerAt(IF ledger = <<>> THEN 0 ELSE Len(ledger) - 1)
    IN  [snapshot |-> n, revision |-> Len(ledger), broker |-> held,
         difference |-> [s \in Symbols |-> held[s] - at[s]]]

\* ledgerKRXQuantities and positionDifferences at the revision of the ledger.
Reconciliation(n, held) ==
    [snapshot |-> n, revision |-> Len(ledger), broker |-> held,
     difference |-> [s \in Symbols |-> held[s] - LedgerAt(Len(ledger))[s]]]

\* Broken Store: the snapshot is committed before its record.
StoreInTwo(p) ==
    LET c     == sync[p]
        held  == Held(c.rows)
        prior == Prior(c.account, c.fetched)
        n     == IF prior = {} THEN Len(snapshots) + 1 ELSE CHOOSE m \in prior : TRUE
    IN  /\ c.phase = "read" /\ Acceptable(c)
        /\ BoundTo(c.account)
        /\ \A m \in prior : snapshots[m].held = held
        /\ IF prior = {}
           THEN /\ snapshots' = Append(snapshots, [account |-> c.account, fetched |-> c.fetched,
                                                   held |-> held])
                /\ UNCHANGED <<reconciliations, sync>>
           ELSE /\ reconciliations' =
                      IF \E i \in DOMAIN reconciliations :
                            reconciliations[i].snapshot = n
                            /\ reconciliations[i].revision = Len(ledger)
                      THEN reconciliations
                      ELSE Append(reconciliations, Reconciliation(n, held))
                /\ Change(p, End(p))
                /\ UNCHANGED snapshots
        /\ UNCHANGED <<now, books, ledger, started>>

\* recordKiwoomMockSnapshot: history and binding once more, then the snapshot
\* unless it is stored (with the same content), and its record at this
\* revision of the ledger unless there is one.
Store(p) ==
    LET c     == sync[p]
        held  == Held(c.rows)
        prior == Prior(c.account, c.fetched)
        n     == IF prior = {} THEN Len(snapshots) + 1 ELSE CHOOSE m \in prior : TRUE
    IN  /\ c.phase = "read" /\ Acceptable(c)
        /\ Recovered /\ BoundTo(c.account)
        /\ \A m \in prior : snapshots[m].held = held
        /\ snapshots' = IF prior = {}
                        THEN Append(snapshots, [account |-> c.account, fetched |-> c.fetched,
                                                held |-> held])
                        ELSE snapshots
        /\ reconciliations' =
              IF \E i \in DOMAIN reconciliations :
                    reconciliations[i].snapshot = n /\ reconciliations[i].revision = Len(ledger)
              THEN reconciliations
              ELSE Append(reconciliations, Reconciliation(n, held))
        /\ Change(p, End(p))
        /\ UNCHANGED <<now, books, ledger, started>>

-----------------------------------------------------------------------------
(* The world around the commands.                                          *)

\* The broker's account changes.
Trade(account, positions) ==
    /\ Len(books[account]) < MaxBooks
    /\ positions # Book(account)
    /\ books' = [books EXCEPT ![account] = Append(@, positions)]
    /\ UNCHANGED <<now, ledger, snapshots, reconciliations, sync, started>>

\* The ledger gets an event of one symbol.
Import(symbol, quantity) ==
    /\ Len(ledger) < MaxRevision
    /\ quantity # LedgerAt(Len(ledger))[symbol]
    /\ ledger' = Append(ledger, [LedgerAt(Len(ledger)) EXCEPT ![symbol] = quantity])
    /\ UNCHANGED <<now, books, snapshots, reconciliations, sync, started>>

\* The broker takes a token back, for another it gave or for its age.
LoseToken(p) ==
    /\ Reading(p) /\ sync[p].token = "valid"
    /\ Change(p, [sync[p] EXCEPT !.token = "revoked"])
    /\ UNCHANGED <<now, books, ledger, snapshots, reconciliations, started>>

SetClock(t) ==
    /\ t # now
    /\ now' = t
    /\ UNCHANGED <<books, ledger, snapshots, reconciliations, sync, started>>

Init ==
    /\ now \in Times
    /\ books \in [Accounts -> {<<b>> : b \in Positions}]
    /\ ledger = <<>> /\ snapshots = <<>> /\ reconciliations = <<>>
    /\ \E a \in Accounts : sync = [p \in Procs |-> Over(a)]
    /\ started = 0

Progress(p) ==
    \/ \E token \in {"valid", "revoked"} : GetToken(p, token)
    \/ Refused(p)
    \/ AnswerAccount(p) \/ AnswerOrders(p)
    \/ \E next \in NextCursors(sync[p]) : AnswerEvaluation(p, next)
    \/ Store(p) \/ Fail(p)

Next ==
    \/ \E p \in Procs, a, k \in Accounts : Start(p, a, k)
    \/ \E p \in Procs : Progress(p) \/ LoseToken(p)
    \/ \E a \in Accounts, b \in Positions : Trade(a, b)
    \/ \E s \in Symbols, q \in 0 .. MaxQuantity : Import(s, q)
    \/ \E t \in Times : SetClock(t)

Spec == Init /\ [][Next]_vars

-----------------------------------------------------------------------------
Sums == {0} \cup {Totals(b) : b \in Positions}

Commands ==
    [phase : {"account", "evaluation", "orders", "read", "ended"},
     account : Accounts, opened : Accounts, token : {"none", "valid", "revoked"},
     attempt : 0 .. 2, cursor : Symbols, seen : SUBSET Symbols, totals : Sums,
     rows : Seq([symbol : Symbols, quantity : 0 .. MaxQuantity]), fetched : Times]

SnapshotRows == [account : Accounts, fetched : Times, held : Positions]

ReconciliationRows ==
    [snapshot : Nat, revision : Nat, broker : Positions, difference : [Symbols -> Int]]

SyncTypeOK ==
    /\ now \in Times
    /\ books \in [Accounts -> Seq(Positions)]
    /\ ledger \in Seq(Positions)
    /\ snapshots \in Seq(SnapshotRows)
    /\ reconciliations \in Seq(ReconciliationRows)
    /\ sync \in [Procs -> Commands]
    /\ started \in 0 .. MaxSyncs

\* Commands for different accounts side by side, each of which saw an empty
\* history before its requests, leave the history of one account
\* (requireKiwoomMockBinding before and inside the transaction).
OneAccount ==
    \A m, n \in DOMAIN snapshots : snapshots[m].account = snapshots[n].account

\* The stored history passes the proof that commands, backups and restores
\* begin with, however commands and imports follow each other and wherever a
\* command dies: no snapshot is left without its record.
HistoryRecovers == Recovered

\* A record tells the difference to the ledger of the revision it names, though
\* the ledger moves on while the broker is read.
RecordsFitTheirRevision ==
    \A i \in DOMAIN reconciliations :
        LET r == reconciliations[i]
        IN  /\ r.revision \in 0 .. Len(ledger)
            /\ \A s \in Symbols : r.difference[s] = r.broker[s] - LedgerAt(r.revision)[s]

\* A read that broke off, went around in circles or opened another account is
\* not stored: every quantity of a snapshot is one its account had.
SnapshotsWereHeld ==
    \A n \in DOMAIN snapshots, s \in Symbols :
        \E i \in DOMAIN books[snapshots[n].account] :
            books[snapshots[n].account][i][s] = snapshots[n].held[s]

\* latestBrokerReconciliation: the snapshot whose text of the fetch time is the
\* last one, among equals the newest; SQL orders the text.
View ==
    {n \in DOMAIN snapshots :
        \A m \in DOMAIN snapshots :
            \/ TextRank(snapshots[m].fetched) < TextRank(snapshots[n].fetched)
            \/ snapshots[m].fetched = snapshots[n].fetched /\ m <= n}

\* A slow command, or one after the clock was set back, does not put an older
\* snapshot before a newer one: what the read route shows is at most a second
\* behind the newest.
NewestIsShown ==
    \A n \in View, m \in DOMAIN snapshots : snapshots[m].fetched < snapshots[n].fetched + 2

\* "An older snapshot does not replace the known-good record with the newest
\* fetch time", says gates/g4h-kiwoom-known-good-snapshot.md.
OlderNeverReplaces ==
    \A n \in View, m \in DOMAIN snapshots : snapshots[m].fetched <= snapshots[n].fetched

\* What is stored was held, and what is shown of it is the newest, to the
\* second (kiwoom.go readPages, broker_snapshot.go latestBrokerReconciliation).
SnapshotsAreTrue == SnapshotsWereHeld /\ NewestIsShown
=============================================================================
