-------------------------- MODULE BrokerSync_proofs --------------------------
(***************************************************************************)
(* For any number of commands, accounts, symbols and pages: the history of *)
(* snapshots is of one account, passes the recovery proof, its records fit *)
(* the revision of the ledger they name, and its quantities were held.     *)
(***************************************************************************)
EXTENDS BrokerSync, TLAPS

\* A request without a token was attempted once at most.
TokensCounted == \A p \in Procs : sync[p].token = "none" => sync[p].attempt <= 1

\* No account is without its positions.
BooksKept == \A a \in Accounts : books[a] # <<>>

\* The inductive invariant.
HistoryIsSound ==
    /\ SyncTypeOK /\ TokensCounted /\ BooksKept
    /\ Recovered /\ OneAccount /\ RecordsFitTheirRevision

-----------------------------------------------------------------------------
(* The commands.                                                           *)

\* The attempts of a request, and what a page adds to a command.
Attempts == 0 .. 2

PageRow == [symbol : Symbols, quantity : 0 .. MaxQuantity]

LEMMA CommandFields ==
    Commands =
        [phase : {"account", "evaluation", "orders", "read", "ended"},
         account : Accounts, opened : Accounts, token : {"none", "valid", "revoked"},
         attempt : Attempts, cursor : Symbols, seen : SUBSET Symbols, totals : Sums,
         rows : Seq(PageRow), fetched : Times]
BY DEF Commands, PageRow, Attempts

LEMMA FreshTyped ==
    ASSUME NEW a \in Accounts, NEW k \in Accounts
    PROVE  /\ Fresh(a, k) \in Commands /\ Over(a) \in Commands
           /\ Fresh(a, k).attempt = 0 /\ Over(a).attempt = 0
<1>1. 1 \in Symbols /\ 0 \in Times /\ 0 \in Sums /\ 0 \in Attempts /\ <<>> \in Seq(PageRow)
    BY BrokerSyncAssumption DEF Symbols, Times, Sums, Attempts
<1>2. Fresh(a, k) \in Commands /\ Fresh(a, a) \in Commands
    BY <1>1, CommandFields DEF Fresh
<1>3. Over(a) \in Commands
    BY <1>2, CommandFields DEF Over
<1> QED BY <1>2, <1>3 DEF Fresh, Over

LEMMA ChangeTyped ==
    ASSUME SyncTypeOK, TokensCounted, NEW p \in Procs, NEW to \in Commands,
           to.token = "none" => to.attempt <= 1, Change(p, to)
    PROVE  sync' \in [Procs -> Commands] /\ TokensCounted'
<1>1. sync \in [Procs -> Commands]
    BY DEF SyncTypeOK
<1> QED BY <1>1 DEF Change, TokensCounted

LEMMA EndTyped ==
    ASSUME SyncTypeOK, NEW p \in Procs
    PROVE  /\ sync[p] \in Commands /\ sync[p].account \in Accounts
           /\ End(p) \in Commands /\ End(p).attempt = 0
<1>1. sync[p] \in Commands
    BY DEF SyncTypeOK
<1>2. sync[p].account \in Accounts
    BY <1>1 DEF Commands
<1> QED BY <1>1, <1>2, FreshTyped DEF End

\* What an account has now is typed.
LEMMA BookTyped ==
    ASSUME SyncTypeOK, BooksKept, NEW a \in Accounts
    PROVE  Book(a) \in Positions
<1>1. books[a] \in Seq(Positions) /\ books[a] # <<>>
    BY DEF SyncTypeOK, BooksKept
<1> HIDE DEF Positions
<1> QED BY <1>1 DEF Book, Last
\* A step of a command that stores nothing keeps the history.
LEMMA QuietStep ==
    ASSUME HistoryIsSound, NEW p \in Procs, NEW to \in Commands,
           to.token = "none" => to.attempt <= 1, Change(p, to),
           UNCHANGED <<now, books, ledger, snapshots, reconciliations>>,
           started' \in 0 .. MaxSyncs
    PROVE  HistoryIsSound'
<1>1. sync' \in [Procs -> Commands] /\ TokensCounted'
    BY ChangeTyped DEF HistoryIsSound
<1>2. SyncTypeOK'
    BY <1>1 DEF HistoryIsSound, SyncTypeOK
<1>3. BooksKept' /\ Recovered' /\ OneAccount' /\ RecordsFitTheirRevision'
    BY DEF HistoryIsSound, BooksKept, Recovered, OneAccount, RecordsFitTheirRevision, LedgerAt
<1> QED BY <1>1, <1>2, <1>3 DEF HistoryIsSound

-----------------------------------------------------------------------------
(* The requests.                                                           *)

LEMMA StartSound ==
    ASSUME HistoryIsSound, NEW p \in Procs, NEW a \in Accounts, NEW k \in Accounts,
           Start(p, a, k)
    PROVE  HistoryIsSound'
<1>1. started' \in 0 .. MaxSyncs
    BY BrokerSyncAssumption DEF Start, HistoryIsSound, SyncTypeOK
<1> DEFINE to == IF Recovered /\ BoundTo(a) THEN Fresh(a, k) ELSE Over(a)
<1>2. to \in Commands /\ to.attempt <= 1
    BY FreshTyped
<1>3. Change(p, to) /\ UNCHANGED <<now, books, ledger, snapshots, reconciliations>>
    BY DEF Start
<1> HIDE DEF to
<1> QED BY <1>1, <1>2, <1>3, QuietStep

LEMMA RequestSound ==
    ASSUME HistoryIsSound, NEW p \in Procs,
           \/ \E token \in {"valid", "revoked"} : GetToken(p, token)
           \/ Refused(p) \/ AnswerAccount(p) \/ AnswerOrders(p) \/ Fail(p) \/ LoseToken(p)
    PROVE  HistoryIsSound'
<1> DEFINE c == sync[p]
<1>1. /\ c \in Commands /\ End(p) \in Commands /\ End(p).attempt = 0
      /\ started \in 0 .. MaxSyncs /\ now \in Times
      /\ c.token = "none" => c.attempt <= 1
      /\ 0 \in Attempts
    BY EndTyped DEF HistoryIsSound, SyncTypeOK, TokensCounted, Attempts
<1>2. CASE \E token \in {"valid", "revoked"} : GetToken(p, token)
    <2>1. PICK token \in {"valid", "revoked"} : GetToken(p, token)
        BY <1>2
    <2> DEFINE to == [c EXCEPT !.token = token, !.attempt = @ + 1]
    <2>2. c.attempt \in Attempts
        BY <1>1, CommandFields
    <2>3. c.attempt + 1 \in Attempts
        BY <1>1, <2>1, <2>2 DEF GetToken, Attempts
    <2>4. to \in Commands /\ to.token # "none"
        BY <1>1, <2>1, <2>3, CommandFields
    <2>5. Change(p, to) /\ UNCHANGED <<now, books, ledger, snapshots, reconciliations, started>>
        BY <2>1 DEF GetToken
    <2> HIDE DEF to
    <2> QED BY <1>1, <2>4, <2>5, QuietStep
<1>3. CASE Refused(p)
    <2> DEFINE to == IF c.attempt = 1 THEN [c EXCEPT !.token = "none"] ELSE End(p)
    <2>1. to \in Commands /\ to.attempt <= 1
        BY <1>1, CommandFields
    <2>2. Change(p, to) /\ UNCHANGED <<now, books, ledger, snapshots, reconciliations, started>>
        BY <1>3 DEF Refused
    <2> HIDE DEF to
    <2> QED BY <1>1, <2>1, <2>2, QuietStep
<1>4. CASE AnswerAccount(p)
    <2> DEFINE to == [c EXCEPT !.phase = "evaluation", !.attempt = 0]
    <2>1. to \in Commands
        BY <1>1, CommandFields
    <2>2. to.attempt = 0
        BY <1>1, CommandFields
    <2>3. Change(p, to) /\ UNCHANGED <<now, books, ledger, snapshots, reconciliations, started>>
        BY <1>4 DEF AnswerAccount
    <2> HIDE DEF to
    <2> QED BY <1>1, <2>1, <2>2, <2>3, QuietStep
<1>5. CASE AnswerOrders(p)
    <2> DEFINE to == [c EXCEPT !.phase = "read", !.attempt = 0, !.token = "none",
                               !.fetched = now]
    <2>1. to \in Commands
        BY <1>1, CommandFields
    <2>2. to.attempt = 0
        BY <1>1, CommandFields
    <2>3. Change(p, to) /\ UNCHANGED <<now, books, ledger, snapshots, reconciliations, started>>
        BY <1>5 DEF AnswerOrders
    <2> HIDE DEF to
    <2> QED BY <1>1, <2>1, <2>2, <2>3, QuietStep
<1>6. CASE Fail(p)
    BY <1>1, <1>6, QuietStep DEF Fail
<1>7. CASE LoseToken(p)
    <2> DEFINE to == [c EXCEPT !.token = "revoked"]
    <2>1. to \in Commands /\ to.token # "none"
        BY <1>1, CommandFields
    <2>2. Change(p, to) /\ UNCHANGED <<now, books, ledger, snapshots, reconciliations, started>>
        BY <1>7 DEF LoseToken
    <2> HIDE DEF to
    <2> QED BY <1>1, <2>1, <2>2, QuietStep
<1> QED BY <1>2, <1>3, <1>4, <1>5, <1>6, <1>7
\* A page of the evaluation, from the account the keys open.
LEMMA EvaluationSound ==
    ASSUME HistoryIsSound, NEW p \in Procs, NEW next \in NextCursors(sync[p]),
           AnswerEvaluation(p, next)
    PROVE  HistoryIsSound'
<1> DEFINE c == sync[p]
           taken == Taken(c)
<1>1. /\ c \in Commands /\ End(p) \in Commands /\ End(p).attempt = 0
      /\ started \in 0 .. MaxSyncs
      /\ 0 \in Attempts /\ 0 \in Sums /\ 1 \in Symbols
    BY EndTyped, BrokerSyncAssumption
    DEF HistoryIsSound, SyncTypeOK, Attempts, Sums, Symbols
<1>2. c.cursor \in Symbols /\ c.seen \subseteq Symbols /\ c.opened \in Accounts
      /\ c.rows \in Seq(PageRow)
    BY <1>1, CommandFields
<1>3. Book(c.opened) \in Positions
    BY <1>2, BookTyped DEF HistoryIsSound
<1>4. /\ Book(c.opened)[c.cursor] \in 0 .. MaxQuantity
      /\ Totals(Book(c.opened)) \in Sums
    BY <1>2, <1>3 DEF Positions, Sums
<1>5. Append(c.rows, [symbol |-> c.cursor, quantity |-> Book(c.opened)[c.cursor]])
          \in Seq(PageRow)
    BY <1>2, <1>4 DEF PageRow
<1>6. taken \in Commands /\ taken.attempt = 0
    <2> HIDE DEF c
    <2>1. taken \in Commands
        BY <1>1, <1>4, <1>5, CommandFields DEF Taken
    <2>2. taken.attempt = 0
        BY <1>1, CommandFields DEF Taken
    <2> QED BY <2>1, <2>2
<1>7. Evaluated(c) \in Commands /\ Evaluated(c).attempt = 0
    <2> HIDE DEF taken, c
    <2>1. Evaluated(c) = [taken EXCEPT !.phase = "orders", !.totals = 0, !.cursor = 1,
                                       !.seen = {}]
        BY DEF Evaluated, taken
    <2>2. [taken EXCEPT !.phase = "orders", !.totals = 0, !.cursor = 1, !.seen = {}]
              \in Commands
        BY <1>1, <1>6, CommandFields
    <2>3. [taken EXCEPT !.phase = "orders", !.totals = 0, !.cursor = 1, !.seen = {}].attempt
              = taken.attempt
        BY <1>6, CommandFields
    <2> QED BY <2>1, <2>2, <2>3, <1>6
<1> DEFINE further == [taken EXCEPT !.cursor = next, !.seen = @ \cup {next}]
<1>8. next # 0 => further \in Commands /\ further.attempt = 0
    <2> SUFFICES ASSUME next # 0 PROVE further \in Commands /\ further.attempt = 0
        OBVIOUS
    <2>1. next \in Symbols
        BY <1>1, <1>2, BrokerSyncAssumption DEF NextCursors, Symbols
    <2> HIDE DEF taken, c
    <2>2. taken.seen \cup {next} \in SUBSET Symbols
        BY <2>1, <1>6, CommandFields
    <2>3. further \in Commands
        BY <2>1, <2>2, <1>6, CommandFields
    <2>4. further.attempt = taken.attempt
        BY <1>6, CommandFields
    <2> QED BY <2>3, <2>4, <1>6
<1> DEFINE to == IF c.rows # <<>> /\ c.totals # Totals(Book(c.opened)) THEN End(p)
                 ELSE IF next = 0 THEN Evaluated(c)
                 ELSE IF Len(c.rows) + 1 = MaxPages \/ next \in c.seen THEN End(p)
                 ELSE further
<1>9. Change(p, to) /\ UNCHANGED <<now, books, ledger, snapshots, reconciliations, started>>
    BY DEF AnswerEvaluation
<1>10. to \in Commands /\ to.attempt = 0
    <2> HIDE DEF further, taken
    <2> QED BY <1>1, <1>7, <1>8
<1> HIDE DEF to
<1> QED BY <1>1, <1>9, <1>10, QuietStep
-----------------------------------------------------------------------------
(* The transaction.                                                        *)

LEMMA AppendedRows ==
    ASSUME NEW S, NEW s \in Seq(S), NEW e \in S
    PROVE  /\ Append(s, e) \in Seq(S) /\ Len(s) \in Nat
           /\ DOMAIN s = 1 .. Len(s) /\ DOMAIN Append(s, e) = 1 .. (Len(s) + 1)
           /\ \A i \in 1 .. Len(s) : Append(s, e)[i] = s[i] /\ s[i] \in S
           /\ Append(s, e)[Len(s) + 1] = e
           /\ Len(Append(s, e)) = Len(s) + 1
OBVIOUS

LEMMA HeldTyped ==
    ASSUME NEW rows \in Seq(PageRow)
    PROVE  Held(rows) \in Positions
<1>1. \A i \in DOMAIN rows : rows[i].quantity \in 0 .. MaxQuantity
    <2>1. \A i \in DOMAIN rows : rows[i] \in PageRow
        OBVIOUS
    <2> QED BY <2>1 DEF PageRow
<1>2. 0 \in 0 .. MaxQuantity
    BY BrokerSyncAssumption
<1>3. ASSUME NEW s \in Symbols
      PROVE  (IF \E i \in DOMAIN rows : rows[i].symbol = s
              THEN rows[CHOOSE i \in DOMAIN rows : rows[i].symbol = s].quantity
              ELSE 0) \in 0 .. MaxQuantity
    <2>1. CASE \E i \in DOMAIN rows : rows[i].symbol = s
        <3>1. (CHOOSE i \in DOMAIN rows : rows[i].symbol = s) \in DOMAIN rows
            BY <2>1
        <3> QED BY <2>1, <3>1, <1>1
    <2> QED BY <2>1, <1>2
<1> QED BY <1>3 DEF Held, Positions

\* The ledger is typed at every revision, the first included.
LEMMA LedgerTyped ==
    ASSUME ledger \in Seq(Positions), NEW r \in 0 .. Len(ledger)
    PROVE  LedgerAt(r) \in Positions
<1>1. CASE r = 0
    <2>1. \A s \in Symbols : 0 \in 0 .. MaxQuantity
        BY BrokerSyncAssumption
    <2> QED BY <1>1, <2>1 DEF LedgerAt, Positions
<1>2. CASE r # 0
    <2> HIDE DEF Positions
    <2>1. ledger[r] \in Positions
        BY <1>2
    <2> QED BY <1>2, <2>1 DEF LedgerAt
<1> QED BY <1>1, <1>2

LEMMA StoreSound ==
    ASSUME HistoryIsSound, NEW p \in Procs, Store(p)
    PROVE  HistoryIsSound'
<1> DEFINE c     == sync[p]
           held  == Held(c.rows)
           prior == Prior(c.account, c.fetched)
           n     == IF prior = {} THEN Len(snapshots) + 1 ELSE CHOOSE m \in prior : TRUE
           row   == [account |-> c.account, fetched |-> c.fetched, held |-> held]
           rec   == Reconciliation(n, held)
<1>1. /\ c \in Commands /\ End(p) \in Commands /\ End(p).attempt = 0
      /\ snapshots \in Seq(SnapshotRows) /\ reconciliations \in Seq(ReconciliationRows)
      /\ ledger \in Seq(Positions) /\ Len(ledger) \in Nat /\ Len(snapshots) \in Nat
    BY EndTyped DEF HistoryIsSound, SyncTypeOK
<1>2. c.account \in Accounts /\ c.fetched \in Times /\ held \in Positions
    BY <1>1, CommandFields, HeldTyped
<1>3. row \in SnapshotRows
    BY <1>2 DEF SnapshotRows
<1>4. /\ prior # {} => n \in DOMAIN snapshots /\ snapshots[n].held = held
      /\ prior = {} => n = Len(snapshots) + 1
    BY DEF Store, Prior
<1>5. n \in Nat
    BY <1>1, <1>4
<1>6. /\ rec \in ReconciliationRows
      /\ rec.snapshot = n /\ rec.broker = held /\ rec.revision = Len(ledger)
      /\ \A s \in Symbols : rec.difference[s] = held[s] - LedgerAt(Len(ledger))[s]
    <2>1. LedgerAt(Len(ledger)) \in Positions
        BY <1>1, LedgerTyped
    <2>2. [s \in Symbols |-> held[s] - LedgerAt(Len(ledger))[s]] \in [Symbols -> Int]
        BY <1>2, <2>1, BrokerSyncAssumption DEF Positions
    <2> HIDE DEF n, held
    <2> QED BY <1>1, <1>2, <1>5, <2>2 DEF Reconciliation, ReconciliationRows
<1>7. /\ snapshots' = (IF prior = {} THEN Append(snapshots, row) ELSE snapshots)
      /\ \/ /\ reconciliations' = reconciliations
            /\ \E i \in DOMAIN reconciliations : reconciliations[i].snapshot = n
         \/ reconciliations' = Append(reconciliations, rec)
      /\ Recovered /\ BoundTo(c.account)
      /\ Change(p, End(p)) /\ UNCHANGED <<now, books, ledger, started>>
    BY DEF Store
<1> HIDE DEF n, held, prior, rec, row
<1>8. /\ snapshots' \in Seq(SnapshotRows)
      /\ DOMAIN snapshots \subseteq DOMAIN snapshots'
      /\ DOMAIN snapshots' \subseteq DOMAIN snapshots \cup {n}
      /\ n \in DOMAIN snapshots' /\ snapshots'[n].held = held
      /\ snapshots'[n].account = c.account
      /\ \A m \in DOMAIN snapshots : snapshots'[m] = snapshots[m]
    <2>1. CASE prior = {}
        <3>1. row.account = c.account /\ row.held = held
            BY DEF row
        <3> QED BY <1>1, <1>3, <1>4, <1>7, <2>1, <3>1, AppendedRows
    <2>2. CASE prior # {}
        BY <1>1, <1>4, <1>7, <2>2 DEF BoundTo
    <2> QED BY <2>1, <2>2
<1>9. /\ reconciliations' \in Seq(ReconciliationRows)
      /\ DOMAIN reconciliations \subseteq DOMAIN reconciliations'
      /\ \A i \in DOMAIN reconciliations : reconciliations'[i] = reconciliations[i]
      /\ \A i \in DOMAIN reconciliations' :
            i \in DOMAIN reconciliations \/ reconciliations'[i] = rec
      /\ \E i \in DOMAIN reconciliations' : reconciliations'[i].snapshot = n
    <2>1. CASE reconciliations' = reconciliations
        BY <1>1, <1>7, <2>1, <1>6, AppendedRows
    <2>2. CASE reconciliations' = Append(reconciliations, rec)
        BY <1>1, <1>6, <2>2, AppendedRows
    <2> QED BY <1>7, <2>1, <2>2
<1>10. SyncTypeOK' /\ TokensCounted' /\ BooksKept'
    <2>1. sync' \in [Procs -> Commands] /\ TokensCounted'
        BY <1>1, <1>7, ChangeTyped DEF HistoryIsSound
    <2> QED BY <2>1, <1>7, <1>8, <1>9 DEF HistoryIsSound, SyncTypeOK, BooksKept
<1>11. Recovered'
    <2>1. ASSUME NEW i \in DOMAIN reconciliations'
          PROVE  /\ reconciliations'[i].snapshot \in DOMAIN snapshots'
                 /\ reconciliations'[i].broker
                        = snapshots'[reconciliations'[i].snapshot].held
        <3>1. CASE i \in DOMAIN reconciliations
            <4> DEFINE m == reconciliations[i].snapshot
            <4>1. m \in DOMAIN snapshots /\ reconciliations[i].broker = snapshots[m].held
                BY <3>1, <1>7 DEF Recovered
            <4>2. reconciliations'[i] = reconciliations[i]
                BY <3>1, <1>9
            <4>3. m \in DOMAIN snapshots' /\ snapshots'[m] = snapshots[m]
                BY <4>1, <1>8
            <4> QED BY <4>1, <4>2, <4>3
        <3>2. CASE reconciliations'[i] = rec
            BY <3>2, <1>6, <1>8
        <3> QED BY <3>1, <3>2, <1>9
    <2>2. ASSUME NEW m \in DOMAIN snapshots'
          PROVE  \E i \in DOMAIN reconciliations' : reconciliations'[i].snapshot = m
        <3>1. CASE m \in DOMAIN snapshots
            <4>1. PICK i \in DOMAIN reconciliations : reconciliations[i].snapshot = m
                BY <3>1, <1>7 DEF Recovered
            <4> QED BY <4>1, <1>9
        <3>2. CASE m = n
            BY <3>2, <1>9
        <3> QED BY <3>1, <3>2, <1>8
    <2> QED BY <2>1, <2>2 DEF Recovered
<1>12. OneAccount'
    <2>1. \A m \in DOMAIN snapshots' : snapshots'[m].account = c.account
        BY <1>7, <1>8 DEF BoundTo
    <2> HIDE DEF c
    <2> QED BY <2>1 DEF OneAccount
<1>13. RecordsFitTheirRevision'
    <2>1. \A r : LedgerAt(r)' = LedgerAt(r)
        BY <1>7 DEF LedgerAt
    <2>2. ASSUME NEW i \in DOMAIN reconciliations'
          PROVE  LET r == reconciliations'[i]
                 IN  /\ r.revision \in 0 .. Len(ledger)
                     /\ \A s \in Symbols :
                            r.difference[s] = r.broker[s] - LedgerAt(r.revision)[s]
        <3>1. CASE i \in DOMAIN reconciliations
            BY <3>1, <1>9 DEF HistoryIsSound, RecordsFitTheirRevision
        <3>2. CASE reconciliations'[i] = rec
            BY <3>2, <1>1, <1>6
        <3> QED BY <3>1, <3>2, <1>9
    <2> QED BY <2>1, <2>2, <1>7 DEF RecordsFitTheirRevision
<1> QED BY <1>10, <1>11, <1>12, <1>13 DEF HistoryIsSound
-----------------------------------------------------------------------------
(* The world.                                                              *)

LEMMA WorldSound ==
    ASSUME HistoryIsSound,
           \/ \E a \in Accounts, b \in Positions : Trade(a, b)
           \/ \E s \in Symbols, q \in 0 .. MaxQuantity : Import(s, q)
           \/ \E t \in Times : SetClock(t)
    PROVE  HistoryIsSound'
<1>1. CASE \E a \in Accounts, b \in Positions : Trade(a, b)
    <2>1. PICK a \in Accounts, b \in Positions : Trade(a, b)
        BY <1>1
    <2>2. books \in [Accounts -> Seq(Positions)] /\ books[a] \in Seq(Positions)
        BY DEF HistoryIsSound, SyncTypeOK
    <2>3. Append(books[a], b) \in Seq(Positions) /\ Append(books[a], b) # <<>>
        BY <2>2
    <2>4. books' \in [Accounts -> Seq(Positions)] /\ BooksKept'
        BY <2>1, <2>2, <2>3 DEF Trade, HistoryIsSound, BooksKept
    <2>5. SyncTypeOK'
        BY <2>1, <2>4 DEF HistoryIsSound, SyncTypeOK, Trade
    <2>6. TokensCounted' /\ Recovered' /\ OneAccount' /\ RecordsFitTheirRevision'
        BY <2>1 DEF HistoryIsSound, TokensCounted, Recovered, OneAccount,
                    RecordsFitTheirRevision, LedgerAt, Trade
    <2> QED BY <2>4, <2>5, <2>6 DEF HistoryIsSound
<1>2. CASE \E s \in Symbols, q \in 0 .. MaxQuantity : Import(s, q)
    <2>1. PICK s \in Symbols, q \in 0 .. MaxQuantity : Import(s, q)
        BY <1>2
    <2>2. ledger \in Seq(Positions) /\ Len(ledger) \in Nat
        BY DEF HistoryIsSound, SyncTypeOK
    <2> DEFINE b == [LedgerAt(Len(ledger)) EXCEPT ![s] = q]
    <2>3. b \in Positions
        BY <2>1, <2>2, LedgerTyped DEF Positions
    <2>4. ledger' = Append(ledger, b)
        BY <2>1 DEF Import
    <2> HIDE DEF b
    <2>5. /\ ledger' \in Seq(Positions) /\ Len(ledger') = Len(ledger) + 1
          /\ \A i \in 1 .. Len(ledger) : ledger'[i] = ledger[i]
        BY <2>2, <2>3, <2>4, AppendedRows
    <2>6. \A r \in 0 .. Len(ledger) : LedgerAt(r)' = LedgerAt(r)
        BY <2>2, <2>5 DEF LedgerAt
    <2>7. UNCHANGED <<now, books, snapshots, reconciliations, sync, started>>
        BY <2>1 DEF Import
    <2>8. SyncTypeOK'
        BY <2>5, <2>7 DEF HistoryIsSound, SyncTypeOK
    <2>9. TokensCounted' /\ BooksKept' /\ Recovered' /\ OneAccount'
        BY <2>7 DEF HistoryIsSound, TokensCounted, BooksKept, Recovered, OneAccount
    <2>10. RecordsFitTheirRevision'
        <3>1. ASSUME NEW i \in DOMAIN reconciliations
              PROVE  LET r == reconciliations[i]
                     IN  /\ r.revision \in 0 .. Len(ledger')
                         /\ \A x \in Symbols :
                                r.difference[x] = r.broker[x] - LedgerAt(r.revision)'[x]
            <4> DEFINE r == reconciliations[i]
            <4>1. /\ r.revision \in 0 .. Len(ledger)
                  /\ \A x \in Symbols :
                         r.difference[x] = r.broker[x] - LedgerAt(r.revision)[x]
                BY DEF HistoryIsSound, RecordsFitTheirRevision
            <4>2. LedgerAt(r.revision)' = LedgerAt(r.revision)
                BY <4>1, <2>6, <2>7
            <4> QED BY <4>1, <4>2, <2>2, <2>5
        <3> QED BY <3>1, <2>7 DEF RecordsFitTheirRevision
    <2> QED BY <2>8, <2>9, <2>10 DEF HistoryIsSound
<1>3. CASE \E t \in Times : SetClock(t)
    <2>1. SyncTypeOK'
        BY <1>3 DEF HistoryIsSound, SyncTypeOK, SetClock
    <2>2. /\ TokensCounted' /\ BooksKept' /\ Recovered' /\ OneAccount'
          /\ RecordsFitTheirRevision'
        BY <1>3 DEF HistoryIsSound, TokensCounted, BooksKept, Recovered, OneAccount,
                    RecordsFitTheirRevision, LedgerAt, SetClock
    <2> QED BY <2>1, <2>2 DEF HistoryIsSound
<1> QED BY <1>1, <1>2, <1>3

LEMMA StartsSound == Init => HistoryIsSound
<1> SUFFICES ASSUME Init PROVE HistoryIsSound
    OBVIOUS
<1>1. PICK a \in Accounts : sync = [p \in Procs |-> Over(a)]
    BY DEF Init
<1>2. sync \in [Procs -> Commands] /\ TokensCounted
    BY <1>1, FreshTyped DEF TokensCounted
<1>3. books \in [Accounts -> Seq(Positions)] /\ BooksKept
    <2>1. \A b \in Positions : <<b>> \in Seq(Positions) /\ <<b>> # <<>>
        OBVIOUS
    <2>2. books \in [Accounts -> {<<b>> : b \in Positions}]
        BY DEF Init
    <2> QED BY <2>1, <2>2 DEF BooksKept
<1>4. now \in Times /\ started \in 0 .. MaxSyncs
    BY BrokerSyncAssumption DEF Init
<1>5. SyncTypeOK
    BY <1>2, <1>3, <1>4 DEF Init, SyncTypeOK
<1>6. Recovered /\ OneAccount /\ RecordsFitTheirRevision
    BY DEF Init, Recovered, OneAccount, RecordsFitTheirRevision
<1> QED BY <1>2, <1>3, <1>5, <1>6 DEF HistoryIsSound

LEMMA StepsSound == HistoryIsSound /\ [Next]_vars => HistoryIsSound'
<1> SUFFICES ASSUME HistoryIsSound, [Next]_vars PROVE HistoryIsSound'
    OBVIOUS
<1>1. CASE \E p \in Procs, a, k \in Accounts : Start(p, a, k)
    BY <1>1, StartSound
<1>2. CASE \E p \in Procs : Progress(p) \/ LoseToken(p)
    BY <1>2, RequestSound, EvaluationSound, StoreSound DEF Progress
<1>3. CASE \/ \E a \in Accounts, b \in Positions : Trade(a, b)
           \/ \E s \in Symbols, q \in 0 .. MaxQuantity : Import(s, q)
           \/ \E t \in Times : SetClock(t)
    BY <1>3, WorldSound
<1>4. CASE UNCHANGED vars
    <2>1. SyncTypeOK'
        BY <1>4 DEF HistoryIsSound, SyncTypeOK, vars
    <2>2. /\ TokensCounted' /\ BooksKept' /\ Recovered' /\ OneAccount'
          /\ RecordsFitTheirRevision'
        BY <1>4 DEF HistoryIsSound, TokensCounted, BooksKept, Recovered, OneAccount,
                    RecordsFitTheirRevision, LedgerAt, vars
    <2> QED BY <2>1, <2>2 DEF HistoryIsSound
<1> QED BY <1>1, <1>2, <1>3, <1>4 DEF Next

LEMMA AlwaysSound == Spec => []HistoryIsSound
BY StartsSound, StepsSound, PTL DEF Spec

-----------------------------------------------------------------------------
(* The reads.                                                              *)

\* The account had quantity q of symbol s.
WasHeld(account, s, q) == \E i \in DOMAIN books[account] : books[account][i][s] = q

\* A symbol has two rows; the rows are those of the first pages.
Twice(rows) == \E i, j \in DOMAIN rows : i # j /\ rows[i].symbol = rows[j].symbol

InPages(rows) == \A i \in DOMAIN rows : rows[i].symbol = i

\* A command that follows a cursor back gets a symbol twice; one that does not
\* has every page when its evaluation is read.
RowsSound(c) ==
    /\ \A i \in DOMAIN c.rows : WasHeld(c.opened, c.rows[i].symbol, c.rows[i].quantity)
    /\ c.phase = "account" => c.rows = <<>> /\ c.cursor = 1
    /\ c.phase = "evaluation" =>
          Twice(c.rows) \/ (InPages(c.rows) /\ c.cursor <= Len(c.rows) + 1)
    /\ c.phase \in {"orders", "read"} =>
          Twice(c.rows) \/ (InPages(c.rows) /\ Len(c.rows) = Pages)

ReadsSound == (\A p \in Procs : RowsSound(sync[p])) /\ SnapshotsWereHeld

\* A step of a command that stores nothing keeps what was read.
LEMMA QuietReads ==
    ASSUME HistoryIsSound, ReadsSound, NEW p \in Procs, NEW to, Change(p, to), RowsSound(to),
           UNCHANGED <<books, snapshots>>
    PROVE  ReadsSound'
<1>1. sync \in [Procs -> Commands]
    BY DEF HistoryIsSound, SyncTypeOK
<1>2. \A c : RowsSound(c)' <=> RowsSound(c)
    BY DEF RowsSound, WasHeld
<1>3. ASSUME NEW q \in Procs, NEW c, c = sync'[q] PROVE RowsSound(c)
    BY <1>1, <1>3 DEF Change, ReadsSound
<1>4. SnapshotsWereHeld'
    BY DEF ReadsSound, SnapshotsWereHeld
<1> QED BY <1>2, <1>3, <1>4 DEF ReadsSound, RowsSound, WasHeld

\* A command without rows, and one that keeps its rows within a phase.
LEMMA NoRows ==
    ASSUME NEW a \in Accounts, NEW k \in Accounts
    PROVE  RowsSound(Fresh(a, k)) /\ RowsSound(Over(a))
<1>1. \A x : /\ Fresh(a, x).rows = <<>> /\ Fresh(a, x).cursor = 1
             /\ Fresh(a, x).phase = "account"
    BY DEF Fresh
<1>2. Over(a).rows = <<>> /\ Over(a).phase = "ended"
    BY DEF Over, Fresh
<1>3. DOMAIN <<>> = {}
    OBVIOUS
<1> QED BY <1>1, <1>2, <1>3 DEF RowsSound

LEMMA SameRows ==
    ASSUME NEW c, NEW to, RowsSound(c), to.rows = c.rows, to.opened = c.opened,
           to.phase = c.phase, to.cursor = c.cursor
    PROVE  RowsSound(to)
BY DEF RowsSound

LEMMA StartReads ==
    ASSUME HistoryIsSound, ReadsSound, NEW p \in Procs, NEW a \in Accounts, NEW k \in Accounts,
           Start(p, a, k)
    PROVE  ReadsSound'
<1> DEFINE to == IF Recovered /\ BoundTo(a) THEN Fresh(a, k) ELSE Over(a)
<1>1. RowsSound(to)
    BY NoRows
<1>2. Change(p, to) /\ UNCHANGED <<books, snapshots>>
    BY DEF Start
<1> HIDE DEF to
<1> QED BY <1>1, <1>2, QuietReads

LEMMA RequestReads ==
    ASSUME HistoryIsSound, ReadsSound, NEW p \in Procs,
           \/ \E token \in {"valid", "revoked"} : GetToken(p, token)
           \/ Refused(p) \/ AnswerAccount(p) \/ AnswerOrders(p) \/ Fail(p) \/ LoseToken(p)
    PROVE  ReadsSound'
<1>1. PICK c : c = sync[p]
    OBVIOUS
<1>2. c \in Commands /\ c.account \in Accounts /\ RowsSound(c)
    BY <1>1, EndTyped DEF HistoryIsSound, ReadsSound
<1>3. RowsSound(End(p))
    BY <1>1, <1>2, NoRows DEF End
<1>4. UNCHANGED <<books, snapshots>>
    BY DEF GetToken, Refused, AnswerAccount, AnswerOrders, Fail, LoseToken
<1>5. CASE \E token \in {"valid", "revoked"} : GetToken(p, token)
    <2>1. PICK token \in {"valid", "revoked"} : GetToken(p, token)
        BY <1>5
    <2>2. PICK to : to = [c EXCEPT !.token = token, !.attempt = @ + 1]
        OBVIOUS
    <2>3. Change(p, to)
        BY <1>1, <2>1, <2>2 DEF GetToken
    <2>4. RowsSound(to)
        BY <1>2, <2>2, SameRows, CommandFields
    <2> QED BY <1>4, <2>3, <2>4, QuietReads
<1>6. CASE Refused(p) \/ LoseToken(p) \/ Fail(p)
    <2>1. PICK to : /\ Change(p, to)
                    /\ \/ to = [c EXCEPT !.token = "none"]
                       \/ to = [c EXCEPT !.token = "revoked"]
                       \/ to = End(p)
        BY <1>1, <1>6 DEF Refused, LoseToken, Fail
    <2>2. RowsSound(to)
        BY <1>2, <1>3, <2>1, SameRows, CommandFields
    <2> QED BY <1>4, <2>1, <2>2, QuietReads
<1>7. CASE AnswerAccount(p)
    <2>1. PICK to : to = [c EXCEPT !.phase = "evaluation", !.attempt = 0]
        OBVIOUS
    <2>2. Change(p, to) /\ c.phase = "account"
        BY <1>1, <1>7, <2>1 DEF AnswerAccount, Answers
    <2>3. /\ to.rows = <<>> /\ to.cursor = 1 /\ to.phase = "evaluation"
        BY <1>2, <2>1, <2>2, CommandFields DEF RowsSound
    <2>4. DOMAIN <<>> = {} /\ Len(<<>>) = 0
        OBVIOUS
    <2>5. RowsSound(to)
        BY <2>3, <2>4 DEF RowsSound, InPages
    <2> QED BY <1>4, <2>2, <2>5, QuietReads
<1>8. CASE AnswerOrders(p)
    <2>1. PICK to : to = [c EXCEPT !.phase = "read", !.attempt = 0, !.token = "none",
                                   !.fetched = now]
        OBVIOUS
    <2>2. Change(p, to) /\ c.phase = "orders"
        BY <1>1, <1>8, <2>1 DEF AnswerOrders, Answers
    <2>3. to.rows = c.rows /\ to.opened = c.opened /\ to.phase = "read"
        BY <1>2, <2>1, CommandFields
    <2>4. RowsSound(to)
        BY <1>2, <2>2, <2>3 DEF RowsSound
    <2> QED BY <1>4, <2>2, <2>4, QuietReads
<1> QED BY <1>5, <1>6, <1>7, <1>8

\* A row more: either it is that of the next page, or a symbol comes twice.
LEMMA OneMoreRow ==
    ASSUME NEW rows \in Seq(PageRow), NEW row \in PageRow,
           Twice(rows) \/ (InPages(rows) /\ row.symbol <= Len(rows) + 1)
    PROVE  \/ Twice(Append(rows, row))
           \/ InPages(Append(rows, row)) /\ row.symbol = Len(rows) + 1
<1>1. /\ Len(rows) \in Nat /\ DOMAIN rows = 1 .. Len(rows)
      /\ DOMAIN Append(rows, row) = 1 .. (Len(rows) + 1)
      /\ \A i \in 1 .. Len(rows) : Append(rows, row)[i] = rows[i]
      /\ Append(rows, row)[Len(rows) + 1] = row
    BY AppendedRows
<1>2. row.symbol \in Nat /\ row.symbol >= 1
    BY BrokerSyncAssumption DEF PageRow, Symbols
<1>3. CASE Twice(rows)
    BY <1>1, <1>3 DEF Twice
<1>4. CASE InPages(rows) /\ row.symbol = Len(rows) + 1
    BY <1>1, <1>4 DEF InPages
<1>5. CASE InPages(rows) /\ row.symbol <= Len(rows)
    <2>1. row.symbol \in 1 .. Len(rows) /\ rows[row.symbol].symbol = row.symbol
        BY <1>1, <1>2, <1>5 DEF InPages
    <2>2. Append(rows, row)[row.symbol].symbol = Append(rows, row)[Len(rows) + 1].symbol
        BY <1>1, <2>1
    <2>3. /\ row.symbol \in DOMAIN Append(rows, row) /\ Len(rows) + 1 \in DOMAIN Append(rows, row)
          /\ row.symbol # Len(rows) + 1
        BY <1>1, <2>1
    <2> QED BY <2>2, <2>3 DEF Twice
<1>6. row.symbol <= Len(rows) + 1 => row.symbol = Len(rows) + 1 \/ row.symbol <= Len(rows)
    BY <1>1, <1>2
<1> QED BY <1>3, <1>4, <1>5, <1>6

LEMMA EvaluationReads ==
    ASSUME HistoryIsSound, ReadsSound, NEW p \in Procs, NEW next \in NextCursors(sync[p]),
           AnswerEvaluation(p, next)
    PROVE  ReadsSound'
<1>1. PICK c : c = sync[p]
    OBVIOUS
<1>2. /\ c \in Commands /\ c.account \in Accounts /\ RowsSound(c)
      /\ c.cursor \in Symbols /\ c.seen \subseteq Symbols /\ c.opened \in Accounts
      /\ c.rows \in Seq(PageRow)
    BY <1>1, EndTyped, CommandFields DEF HistoryIsSound, ReadsSound
<1>3. UNCHANGED <<books, snapshots>> /\ c.phase = "evaluation"
    BY <1>1 DEF AnswerEvaluation, Answers
<1>4. PICK row : row = [symbol |-> c.cursor, quantity |-> Book(c.opened)[c.cursor]]
    OBVIOUS
<1>5. row \in PageRow /\ row.symbol = c.cursor /\ WasHeld(c.opened, row.symbol, row.quantity)
    <2>1. books[c.opened] \in Seq(Positions) /\ books[c.opened] # <<>>
        BY <1>2 DEF HistoryIsSound, SyncTypeOK, BooksKept
    <2>2. /\ Len(books[c.opened]) \in DOMAIN books[c.opened]
          /\ Book(c.opened) = books[c.opened][Len(books[c.opened])]
        BY <2>1 DEF Book, Last
    <2>3. Book(c.opened) \in Positions
        BY <1>2, BookTyped DEF HistoryIsSound
    <2>4. Book(c.opened)[c.cursor] \in 0 .. MaxQuantity
        BY <1>2, <2>3 DEF Positions
    <2>5. row.symbol = c.cursor /\ row.quantity = Book(c.opened)[c.cursor]
        BY <1>4
    <2> QED BY <1>2, <1>4, <2>2, <2>4, <2>5 DEF PageRow, WasHeld
<1>6. PICK rows : rows = Append(c.rows, row)
    OBVIOUS
<1>7. /\ rows \in Seq(PageRow) /\ Len(rows) = Len(c.rows) + 1 /\ Len(c.rows) \in Nat
      /\ \A i \in DOMAIN rows : WasHeld(c.opened, rows[i].symbol, rows[i].quantity)
    <2>1. /\ rows \in Seq(PageRow) /\ Len(rows) = Len(c.rows) + 1 /\ Len(c.rows) \in Nat
          /\ DOMAIN c.rows = 1 .. Len(c.rows) /\ DOMAIN rows = 1 .. (Len(c.rows) + 1)
          /\ \A i \in 1 .. Len(c.rows) : rows[i] = c.rows[i]
          /\ rows[Len(c.rows) + 1] = row
        BY <1>2, <1>5, <1>6, AppendedRows
    <2>2. \A i \in DOMAIN rows : i \in DOMAIN c.rows \/ i = Len(c.rows) + 1
        BY <2>1
    <2>3. \A i \in DOMAIN c.rows : WasHeld(c.opened, c.rows[i].symbol, c.rows[i].quantity)
        BY <1>2 DEF RowsSound
    <2> QED BY <1>5, <2>1, <2>2, <2>3
<1>8. \/ Twice(rows)
      \/ InPages(rows) /\ c.cursor = Len(rows)
    <2>1. Twice(c.rows) \/ (InPages(c.rows) /\ row.symbol <= Len(c.rows) + 1)
        BY <1>2, <1>3, <1>5 DEF RowsSound
    <2> QED BY <1>2, <1>5, <1>6, <1>7, <2>1, OneMoreRow
<1>9. RowsSound(End(p))
    BY <1>1, <1>2, NoRows DEF End
<1>10. PICK taken : taken = Taken(c)
    OBVIOUS
<1>11. /\ taken.rows = rows /\ taken.opened = c.opened /\ taken.phase = "evaluation"
       /\ DOMAIN taken = {"phase", "account", "opened", "token", "attempt", "cursor", "seen",
                          "totals", "rows", "fetched"}
    BY <1>2, <1>3, <1>4, <1>6, <1>10, CommandFields DEF Taken
<1>12. PICK to : /\ Change(p, to)
                 /\ \/ to = End(p)
                    \/ next = 0 /\ to = Evaluated(c)
                    \/ /\ next # 0 /\ next \notin c.seen
                       /\ to = [taken EXCEPT !.cursor = next, !.seen = @ \cup {next}]
    BY <1>1, <1>10 DEF AnswerEvaluation
<1>13. CASE next = 0 /\ to = Evaluated(c)
    <2>1. to.rows = rows /\ to.opened = c.opened /\ to.phase = "orders"
        BY <1>10, <1>11, <1>13 DEF Evaluated
    <2>2. c.cursor = Pages
        <3>1. \A s \in c.seen : s # 0
            BY <1>2, BrokerSyncAssumption DEF Symbols
        <3>2. c.cursor \in Nat /\ c.cursor + 1 # 0 /\ c.cursor <= Pages /\ Pages \in Nat
            BY <1>2, BrokerSyncAssumption DEF Symbols
        <3> QED BY <1>1, <1>13, <3>1, <3>2 DEF NextCursors
    <2>3. RowsSound(to)
        BY <1>7, <1>8, <2>1, <2>2 DEF RowsSound
    <2> QED BY <1>3, <1>12, <2>3, QuietReads
<1>14. CASE /\ next # 0 /\ next \notin c.seen
            /\ to = [taken EXCEPT !.cursor = next, !.seen = @ \cup {next}]
    <2>1. /\ to.rows = rows /\ to.opened = c.opened /\ to.phase = "evaluation"
          /\ to.cursor = next
        BY <1>11, <1>14
    <2>2. ASSUME InPages(rows), c.cursor = Len(rows) PROVE next <= Len(rows) + 1
        <3>1. c.cursor \in Nat
            BY <1>2, BrokerSyncAssumption DEF Symbols
        <3>2. next \in {c.cursor + 1, 1}
            BY <1>1, <1>14 DEF NextCursors
        <3> QED BY <1>7, <2>2, <3>1, <3>2
    <2>3. RowsSound(to)
        BY <1>7, <1>8, <2>1, <2>2 DEF RowsSound
    <2> QED BY <1>3, <1>12, <2>3, QuietReads
<1> QED BY <1>3, <1>9, <1>12, <1>13, <1>14, QuietReads

\* The rows of an acceptable command are all the pages, so what is stored of
\* every symbol is the row of its own page.
LEMMA HeldIsRead ==
    ASSUME NEW c \in Commands, RowsSound(c), c.phase = "read", Acceptable(c),
           NEW s \in Symbols
    PROVE  WasHeld(c.account, s, Held(c.rows)[s])
<1>1. c.rows \in Seq(PageRow) /\ c.opened = c.account /\ ~Twice(c.rows)
    BY CommandFields DEF Acceptable, Twice
<1>2. InPages(c.rows) /\ DOMAIN c.rows = Symbols
    <2>1. InPages(c.rows) /\ Len(c.rows) = Pages
        BY <1>1 DEF RowsSound
    <2> QED BY <1>1, <2>1 DEF Symbols
<1>3. s \in DOMAIN c.rows /\ c.rows[s].symbol = s
    BY <1>2 DEF InPages
<1>4. (CHOOSE i \in DOMAIN c.rows : c.rows[i].symbol = s) = s
    BY <1>2, <1>3 DEF InPages
<1>5. Held(c.rows)[s] = c.rows[s].quantity
    BY <1>3, <1>4 DEF Held
<1>6. WasHeld(c.opened, c.rows[s].symbol, c.rows[s].quantity)
    BY <1>3 DEF RowsSound
<1> QED BY <1>1, <1>3, <1>5, <1>6

LEMMA StoreReads ==
    ASSUME HistoryIsSound, ReadsSound, NEW p \in Procs, Store(p)
    PROVE  ReadsSound'
<1>1. PICK c : c = sync[p]
    OBVIOUS
<1> DEFINE row == [account |-> c.account, fetched |-> c.fetched, held |-> Held(c.rows)]
<1>2. /\ c \in Commands /\ c.account \in Accounts /\ c.fetched \in Times /\ RowsSound(c)
      /\ c.rows \in Seq(PageRow)
    BY <1>1, EndTyped, CommandFields DEF HistoryIsSound, ReadsSound
<1>3. /\ c.phase = "read" /\ Acceptable(c) /\ UNCHANGED books
      /\ Change(p, Over(c.account))
      /\ snapshots' = snapshots \/ snapshots' = Append(snapshots, row)
    BY <1>1 DEF Store, End
<1>4. \A s \in Symbols : WasHeld(c.account, s, Held(c.rows)[s])
    BY <1>2, <1>3, HeldIsRead
<1>5. ASSUME NEW q \in Procs, NEW d, d = sync'[q] PROVE RowsSound(d)
    <2>1. sync \in [Procs -> Commands]
        BY DEF HistoryIsSound, SyncTypeOK
    <2>2. CASE q = p
        BY <1>2, <1>3, <1>5, <2>1, <2>2, NoRows DEF Change
    <2>3. CASE q # p
        BY <1>3, <1>5, <2>1, <2>3 DEF Change, ReadsSound
    <2> QED BY <2>2, <2>3
<1>6. \A d : RowsSound(d)' <=> RowsSound(d)
    BY <1>3 DEF RowsSound, WasHeld
<1>7. SnapshotsWereHeld'
    <2>1. row \in SnapshotRows /\ snapshots \in Seq(SnapshotRows)
        BY <1>2, HeldTyped DEF SnapshotRows, HistoryIsSound, SyncTypeOK
    <2>2. row.account = c.account /\ row.held = Held(c.rows)
        OBVIOUS
    <2> HIDE DEF row
    <2>3. CASE snapshots' = snapshots
        BY <1>3, <2>3 DEF ReadsSound, SnapshotsWereHeld
    <2>4. CASE snapshots' = Append(snapshots, row)
        <3>1. ASSUME NEW n \in DOMAIN snapshots', NEW s \in Symbols
              PROVE  WasHeld(snapshots'[n].account, s, snapshots'[n].held[s])
            <4>1. snapshots'[n] = row \/ (n \in DOMAIN snapshots /\ snapshots'[n] = snapshots[n])
                BY <2>1, <2>4, AppendedRows
            <4>2. CASE snapshots'[n] = row
                BY <1>4, <2>2, <4>2
            <4>3. CASE n \in DOMAIN snapshots /\ snapshots'[n] = snapshots[n]
                BY <4>3 DEF ReadsSound, SnapshotsWereHeld, WasHeld
            <4> QED BY <4>1, <4>2, <4>3
        <3> QED BY <1>3, <3>1 DEF SnapshotsWereHeld, WasHeld
    <2> QED BY <1>3, <2>3, <2>4 DEF row
<1> QED BY <1>5, <1>6, <1>7 DEF ReadsSound, RowsSound, WasHeld

LEMMA SnapshotFields ==
    ASSUME snapshots \in Seq(SnapshotRows), NEW n \in DOMAIN snapshots
    PROVE  snapshots[n].account \in Accounts /\ snapshots[n].fetched \in Times
<1>1. snapshots[n] \in SnapshotRows
    OBVIOUS
<1> QED BY <1>1 DEF SnapshotRows

\* The broker's trades leave what its account has had.
LEMMA WorldReads ==
    ASSUME HistoryIsSound, ReadsSound,
           \/ \E a \in Accounts, b \in Positions : Trade(a, b)
           \/ UNCHANGED <<books, snapshots, sync>>
    PROVE  ReadsSound'
<1>1. UNCHANGED <<snapshots, sync>>
    BY DEF Trade
<1>2. ASSUME NEW a \in Accounts, NEW s, NEW q, WasHeld(a, s, q)
      PROVE  WasHeld(a, s, q)'
    <2>1. PICK i \in DOMAIN books[a] : books[a][i][s] = q
        BY <1>2 DEF WasHeld
    <2>2. i \in DOMAIN books'[a] /\ books'[a][i] = books[a][i]
        <3>1. CASE UNCHANGED <<books, snapshots, sync>>
            BY <3>1
        <3>2. CASE \E k \in Accounts, b \in Positions : Trade(k, b)
            <4>1. PICK k \in Accounts, b \in Positions : Trade(k, b)
                BY <3>2
            <4>2. books \in [Accounts -> Seq(Positions)] /\ books[a] \in Seq(Positions)
                BY DEF HistoryIsSound, SyncTypeOK
            <4>3. books'[a] = books[a] \/ books'[a] = Append(books[a], b)
                BY <4>1, <4>2 DEF Trade
            <4>4. CASE books'[a] = books[a]
                BY <4>4
            <4>5. CASE books'[a] = Append(books[a], b)
                BY <2>1, <4>1, <4>2, <4>5, AppendedRows
            <4> QED BY <4>3, <4>4, <4>5
        <3> QED BY <3>1, <3>2
    <2> QED BY <2>1, <2>2 DEF WasHeld
<1>3. ASSUME NEW p \in Procs, NEW c, c = sync[p] PROVE RowsSound(c)'
    <2>1. c.opened \in Accounts /\ RowsSound(c)
        BY <1>3, EndTyped, CommandFields DEF HistoryIsSound, ReadsSound
    <2>2. \A i \in DOMAIN c.rows : WasHeld(c.opened, c.rows[i].symbol, c.rows[i].quantity)'
        BY <2>1, <1>2 DEF RowsSound
    <2> QED BY <2>1, <2>2 DEF RowsSound
<1>4. SnapshotsWereHeld'
    <2>1. ASSUME NEW n \in DOMAIN snapshots, NEW s \in Symbols
          PROVE  WasHeld(snapshots[n].account, s, snapshots[n].held[s])'
        <3>1. snapshots[n].account \in Accounts
            BY SnapshotFields DEF HistoryIsSound, SyncTypeOK
        <3>2. WasHeld(snapshots[n].account, s, snapshots[n].held[s])
            BY DEF ReadsSound, SnapshotsWereHeld, WasHeld
        <3>3. PICK k, h : k = snapshots[n].account /\ h = snapshots[n].held[s]
            OBVIOUS
        <3>4. WasHeld(k, s, h)'
            BY <3>1, <3>2, <3>3, <1>2
        <3> QED BY <1>1, <3>3, <3>4 DEF WasHeld
    <2> QED BY <1>1, <2>1 DEF SnapshotsWereHeld, WasHeld
<1> QED BY <1>1, <1>3, <1>4 DEF ReadsSound, RowsSound, WasHeld

LEMMA AlwaysRead == Spec => []ReadsSound
<1>1. Init => ReadsSound
    <2> SUFFICES ASSUME Init PROVE ReadsSound
        OBVIOUS
    <2>1. PICK a \in Accounts : sync = [p \in Procs |-> Over(a)]
        BY DEF Init
    <2>2. \A p \in Procs : RowsSound(sync[p])
        BY <2>1, NoRows
    <2>3. SnapshotsWereHeld
        BY DEF Init, SnapshotsWereHeld
    <2> QED BY <2>2, <2>3 DEF ReadsSound
<1>2. HistoryIsSound /\ ReadsSound /\ [Next]_vars => ReadsSound'
    <2> SUFFICES ASSUME HistoryIsSound, ReadsSound, [Next]_vars PROVE ReadsSound'
        OBVIOUS
    <2>1. CASE \E p \in Procs, a, k \in Accounts : Start(p, a, k)
        BY <2>1, StartReads
    <2>2. CASE \E p \in Procs : Progress(p) \/ LoseToken(p)
        BY <2>2, RequestReads, EvaluationReads, StoreReads DEF Progress
    <2>3. CASE \E a \in Accounts, b \in Positions : Trade(a, b)
        BY <2>3, WorldReads
    <2>4. CASE \/ \E s \in Symbols, q \in 0 .. MaxQuantity : Import(s, q)
               \/ \E t \in Times : SetClock(t)
               \/ UNCHANGED vars
        <3>1. UNCHANGED <<books, snapshots, sync>>
            BY <2>4 DEF Import, SetClock, vars
        <3> QED BY <3>1, WorldReads
    <2> QED BY <2>1, <2>2, <2>3, <2>4 DEF Next
<1> QED BY <1>1, <1>2, AlwaysSound, PTL DEF Spec

\* The order of the texts differs from the order of the times by a second.
LEMMA TextsNearTimes ==
    SyncTypeOK => NewestIsShown
<1> SUFFICES ASSUME SyncTypeOK, NEW n \in View, NEW m \in DOMAIN snapshots
             PROVE  snapshots[m].fetched < snapshots[n].fetched + 2
    BY DEF NewestIsShown
<1>1. \A k \in DOMAIN snapshots : snapshots[k].fetched \in Nat
    BY BrokerSyncAssumption, SnapshotFields DEF SyncTypeOK, Times
<1>2. n \in DOMAIN snapshots
    BY DEF View
<1>3. \/ TextRank(snapshots[m].fetched) < TextRank(snapshots[n].fetched)
      \/ snapshots[m].fetched = snapshots[n].fetched
    BY DEF View
<1>4. ASSUME NEW t \in Nat PROVE TextRank(t) \in {t - 1, t + 1}
    BY DEF TextRank
<1>5. PICK t \in Nat, u \in Nat : t = snapshots[m].fetched /\ u = snapshots[n].fetched
    BY <1>1, <1>2
<1>6. CASE t = u
    BY <1>5, <1>6
<1>7. CASE TextRank(t) < TextRank(u)
    BY <1>4, <1>5, <1>7
<1> QED BY <1>3, <1>5, <1>6, <1>7

-----------------------------------------------------------------------------
(* The theorems.                                                           *)

\* The commands, the tables and the ledger keep their types, and no request is
\* made more than twice, for any number of commands and pages.
THEOREM SyncTyped == Spec => []SyncTypeOK
<1>1. HistoryIsSound => SyncTypeOK
    BY DEF HistoryIsSound
<1> QED BY <1>1, AlwaysSound, PTL

\* The stored history is of one account: the binding inside the transaction
\* decides, whatever the commands saw before their requests.
THEOREM HistoryOfOneAccount == Spec => []OneAccount
<1>1. HistoryIsSound => OneAccount
    BY DEF HistoryIsSound
<1> QED BY <1>1, AlwaysSound, PTL

\* Every stored history passes the recovery proof: a snapshot and its record
\* are stored together, or the record joins a snapshot of the same content.
THEOREM HistoryAlwaysRecovers == Spec => []HistoryRecovers
<1>1. HistoryIsSound => HistoryRecovers
    BY DEF HistoryIsSound, HistoryRecovers
<1> QED BY <1>1, AlwaysSound, PTL

\* The differences of a record are those to the revision it names, and later
\* imports do not change that.
THEOREM RecordsFit == Spec => []RecordsFitTheirRevision
<1>1. HistoryIsSound => RecordsFitTheirRevision
    BY DEF HistoryIsSound
<1> QED BY <1>1, AlwaysSound, PTL

\* A quantity that is stored is one its account had, though the broker trades
\* between the pages, gives a page again or breaks off; and what is shown is at
\* most a second behind the newest snapshot.
THEOREM SnapshotsAlwaysTrue == Spec => []SnapshotsAreTrue
<1>1. HistoryIsSound /\ ReadsSound => SnapshotsAreTrue
    BY TextsNearTimes DEF HistoryIsSound, ReadsSound, SnapshotsAreTrue
<1> QED BY <1>1, AlwaysSound, AlwaysRead, PTL
=============================================================================
