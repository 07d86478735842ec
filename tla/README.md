# Verification of the Kairos core service

TLA+ models, model-checking runs and machine-checked proofs for the Go core of
Kairos (`src/services/core`): the part that may lose money when two processes,
a lost reply or a restart come between two steps. Everything here is
translated from the code; `PROJECT.json` maps every definition to its lines.

## 1. The system

Kairos is a personal portfolio and trading program. A Go binary
(`src/services/core`, one package with two small domain packages) keeps all
state in one SQLite file; a Flutter client and the CLI call it; Python research
produces strategy evidence the core stores by hash. Migrations add triggers
that repeat many of the Go checks.

**The concurrency that matters.** The database is opened with
`_txlock=immediate` and one connection (`core.go`), so every transaction
excludes every other writer, also those of other processes: *a transaction is
one atomic step*. What is not atomic is everything longer than a transaction: a
submit to the broker, a run of the paper policy, a lease that is checked in one
transaction and relied on later. Several processes (server, one-shot CLI runs,
a long-running loop, an operator's commands) share the file, each with a random
owner id made at start, all read the same wall clock, and that clock may be set
back. Almost every table is insert-only, and each operation first replays the
rows it depends on ("recovery proof"): a single accepted row that does not
replay makes the feature unusable for good.

### Inventory

| Component (source) | State | Operations | Hard behaviour | What makes it correct |
|---|---|---|---|---|
| Order lifecycle (`internal/orderdomain/order.go`) | status, filled, provider ref, pending command | `Transition` | fills racing cancels, unknown outcomes | a settled order stays settled; filled is what fills add up to |
| Order journal (`order_state.go`, migration 002) | idempotency rows, event rows | record intent, append event, replay | redelivery, second local order for one provider order | every order replays; each execution once |
| Execution authority (`execution_authority.go`, migration 004, `paper_local_heartbeat.go`) | insert-only arm/halt/lease records for each account | arm, halt, acquire, renew, owned halt, halt all | expiry against a clock that moves both ways, restarts | history replays; a fenced lease |
| Order dispatch (`execution_authority.go`, `kiwoom_order_transport.go`) | risk reservations; a call in four steps | authorise, write, record reply | crash between steps, lost reply, lease lost after authorisation | one submit per order; exposure below the limit |
| Reconciliation (`kiwoom_order_reconciliation.go`, `kiwoom_order_history.go`) | none of its own | apply a complete lookup | old, repeated, reordered lookups | fills are the venue's fills, each once |
| Strategy registry (`strategy_registry.go`, migrations 006, 020, 027) | evidence, SELECT/ROLLBACK events | register, select, roll back | manual against automatic changes | the events replay as a stack |
| Paper runner lease (`paper_runner_lease.go`, migration 021) | one row | acquire, heartbeat, release, renew after rollback | takeover, kill, trigger against Go code | a fenced lease; legal writes are never aborted |
| Scheduled runner and loop (`paper_scheduled_runner.go`, `paper_runner_loop.go`) | what a run is doing | check, wait, three stages, heartbeat, release | kill or cancellation between stages | no loss skipped; leases given back |
| Policy chain (`paper_performance.go`, `paper_strategy_performance.go`, `paper_performance_policy.go`, `internal/riskdomain`) | valuations, windows, decisions | stages C3, D, E | two accounts under one selection | one rollback per selection; decisions replay |
| Local paper run (`paper_local*.go`, `paper_stream.go`) | both leases | start, close by close: fill, value, decide; admit; end | losing one of two leases, dying between two closes | policy before the next order; nothing held after the end |
| Paper orders and fills (`paper_runner.go`, `paper_execution_authority.go`, `paper_fill_policy.go`, `internal/paperdomain`) | signals, orders, fills | admit a signal, fill an order | an order filled long after its signal | no look ahead, each bar once, solvent |
| Paper accounting and market data (`paper_accounting.go`, `paper_market_data.go`) | bars; cash and positions only as a replay | store bars, replay | the replay knows more bars than the fill did | every journal replays |
| Paper promotion (`paper_promotion*.go`, `paper_improvement.go`, migration 027; `internal/researchdomain`) | claims, decisions | claim, compare, decide, abort | comparison outside any transaction, recovery proof over moving rows | one comparison per bars; promoted only while nothing moved |
| Ledger (`core.go`, `ledger_*.go`) | events, previews, receipts, replay policy | preview, apply, upgrade, walk | backdated imports, text order, rounding, old databases | the ledger replays; walks are complete |
| Watchlist (`watchlist*.go`, `watchlist.dart`) | one revisioned row; a pending change per client | edit, retry, confirm, restore | late requests, lost answers | edits are atomic, fates are told truthfully |
| Observation and owner series (`*_observation.go`, `owner_*_series.go`, `benchmark_series.go`, `instrument_listing.go`) | insert-only marks, versions, listings | record, import, declare, capture | several writers of one table, several readers with their own cutoff | sources never mix; the past stays known |
| Broker snapshot and Kiwoom client (`kiwoom.go`, `kiwoom_mock_sync.go`, `broker_snapshot.go`) | token cache; snapshots and records | read page by page, record, show | tokens taken away, pages that move, two commands | one account; every snapshot has its record |
| Valuation (`*_valuation.go`, `portfolio_*.go`) | none | select marks, arithmetic | the cutoff | the selection is modelled, the arithmetic is not |
| CLI, HTTP, backup (`main.go`, `private_file.go`, parts of `core.go`) | files | I/O | | not modelled |
| Flutter client, Python research | watchlist controller; none the core relies on | | | the watchlist controller only |

Interactions: dispatch reads the journal, the authority and the reservations in
one transaction and calls the broker outside any; reconciliation turns lookups
into journal rows; the policy chain runs under the runner lease, reads and
writes the registry, and its rollback halts every armed account of the
authority; a manual selection asks the runner lease first. The hazards that
follow are listed with their lines in `PROJECT.json`.

## 2. Modules

| Module | Models | State |
|---|---|---|
| `Accounts` | account aliases, sums | |
| `OrderLifecycle` | which events an order accepts and what they do | none: pure operators |
| `OrderJournal` | registration and event rows | `intent`, `order` (the replay of), `log` |
| `FencedLease` | **abstract**: what a fenced lease promises | `holder`, `fence`, `left` |
| `ExecutionAuthority` | the records of each account | `history`, `held`, `alive`, `now` |
| `OrderDispatch` | composes journal and authority with calls, venue, lookups | `reservation`, `thread`, `sent`, `venue`, `lookups` |
| `StrategySelection` | registry of evidence and selections, manual, automatic and by comparison | `evidence`, `selections` |
| `PaperRunnerLease` | the lease row over the registry | `lease`, `claim`, `alive`, `now` |
| `PaperPolicyRun` | composes runs and the three stages with the lease | `closes`, `points`, `armed`, `run` |
| `PaperFills` | bars, signals, orders and fills of an account, cash and positions as their replay | `bars`, `signals`, `orders`, `fills` |
| `LocalPaperRun` | composes `PaperFills` with a run that holds both leases | `runner`, `exec`, `selection`, `points`, `proc` |
| `PaperPromotion` | attempts over `StrategySelection`: claim, decision, abort, recovery proof | `claims`, `decisions`, `research`, `journal`, `proc` … |
| `ResearchFold` | `SimulateFold`: a strategy bar by bar | `series`, `cash`, `position`, `pending`, `trace` … |
| `PromotionPolicy` | the gates of a comparison over three windows | the windows scored so far |
| `LedgerReplay` | what an event does to cash and FIFO lots, and in which order events are read | none: pure operators |
| `Ledger` | preview, apply, upgrade and the activity walk over `LedgerReplay` | `events`, `policy`, `transition`, `previews`, `receipts`, `walk` |
| `SharedList` | **abstract**: a list edited in place | `list`, `revision` |
| `Watchlist` | the stored list, its clients and the network between them | `saved`, `wire`, `answer`, `client`, `fate` |
| `OwnerSeries` | every writer of rates, prices and indices, and what readers select | `fx`, `fxVersions`, `prices`, `priceVersions`, `benchmarks`, `admitted` |
| `ListedCapture` | the capture of a trade beside the listings, over `OwnerSeries` | `listings`, `capture` |
| `BrokerSync` | `kiwoom-mock-sync` from its first proof to its record, and what the read route shows | `books`, `ledger`, `snapshots`, `reconciliations`, `sync` |
| `MC*` | constants of the small instances | |
| `*_proofs` | theorems and proofs of the module they are named after; those of `OrderJournal` and `ExecutionAuthority` come first in `OrderDispatch_proofs`, those of `PromotionPolicy` and `ResearchFold` are in `PaperPromotion_proofs` | |

How they correspond to the code:

* **One transaction, one action.** `Authorize` is the whole of
  `authorizeSyntheticDispatchOnceTx`: every check (`MayDispatch`), the
  reservation, and both event rows. An operation that returns stored data
  without writing (an idempotent retry, a refusal) is no step unless the caller
  goes on with what it returned.
* **A call that spans transactions is a process with a program counter.**
  `thread[t].pc` follows `submitAuthorizedLimitOrder` (preflight, submit,
  record), `run[p].pc` follows the one-shot run and the loop (check, acquire,
  due, beat and stage for C3, D, E, wait, release).
* **Replayed state.** The code stores events and replays them on each read. The
  models keep both the rows and the state the writers computed, and check that
  a replay of the rows gives that state.
* **Processes and time.** `alive` and `now` are shared by all processes;
  `Crash`/`Kill` forget what was in memory and keep the rows; an owner id never
  comes back. `SetBack` sets the clock back.
* **Data.** Quantities and prices become whole numbers in the few sizes a limit
  tells apart; hashes, ids and references are model values or positions in a
  list; a valuation is only whether it breaches the loss limits. A fill event's
  id is built from the order and the execution, as the code builds it.
* **Times as text.** Times are stored as RFC 3339 text, and some queries order
  the text. `...:00.5Z` sorts before `...:00Z`, so where a query does that the
  model gives whole and half seconds and a rank of the text (`TextRank`).
* **Exact amounts.** `LedgerReplay` counts money in units of 10^-10 with a
  quantum of 10^-8, so that rounding half to even is visible; `PaperFills` and
  `ResearchFold` use whole numbers and abstract lots and their costs to the
  position.
* **A policy needs a SELECT.** The proof that stage E runs over its new policy
  before the commit, and that each later operation runs over all policies,
  refuses one whose selection event is a ROLLBACK. `MayDecide` is that check in
  `PaperPolicyRun.StageE`, `selection.event` in `LocalPaperRun.Decide`, and
  `DecisionReplays` accepts no other policy. Where it refuses, the stage is an
  error of its run. Stages C3 and D do not ask for it.
* **A release that fails.** The release of the one-shot run and of the loop has
  a timeout and a recovery proof of its own. When it fails the row keeps the
  name of its process and the command exits with the error; that is the step
  `KillRun`, as for any process that is gone and left its row. `OneShotReleases`
  is about runs whose release is committed, after whatever error.
* **What a step leaves out** is named at the head of its module: hashes, the
  environment, the expiry of a preview, the pacing of requests. The revision
  check of `apply` stands on a UNIQUE key and a trigger as well as on Go code,
  and is one guard here.
* **External.** The venue (accepts, refuses, loses replies, fills), the arrival
  of market data, the wall clock and process death are not under `src/` and
  are modelled from how the code treats them; they are marked external.

Definitions under a comment "Broken X: …" are not part of any specification.
Each is a plausible mistake in the definition X; substituting it for X makes
the property named in `PROJECT.json` fail, which shows that the property
depends on the code being as it is.

## 3. Runs

`CHECK_DEADLOCK FALSE` stands where bounded clocks, tokens, closes, ids or
previews let the instance stop and where an ended run or a finished order has
nothing left to do; the watchlist and the listed capture are checked for
deadlock. Symmetry is used over sets no constant of which is named in a
definition, and in no run with a liveness property.

**Fairness** is assumed by one run, `paper_run_ends` (`RunsGoOn`, the fairness of
`FairRunSpec`): weak
fairness of a run's steps, since every transaction and every stage has a
timeout, and strong fairness of giving up the wait for the lease, which
`paperScheduledRunnerContentionTimeout` bounds as a whole while its polls come
and go. Nothing is assumed of kills, takeovers, the clock or the operators.
That run and `paper_after_rollback` start after two manual selections
(`SelectedTwice` in the MC module, a state of the registry by itself that `RunInit`
reaches in four steps), so that a rollback within the bound of three
selections leaves a strategy under a ROLLBACK event.

| Run | Instance | Shows |
|---|---|---|
| `order_journal` | 2 orders of 1 account, 2 shares each, 4 event ids, 2 provider orders, 2 executions | any accepted sequence of events replays (`EveryOrderReplays`) and its fills add up (`FillsAddUp`), each execution is stored once, nothing settled revives |
| `order_dispatch` | 2 orders of 1 or 2 shares where two large ones pass the limit, 2 processes with one call each, TTL 1, 3 records, 2 lookups | at most one submit; the exposure at the venue is covered by reservations and within the limit; no two calls write for one account; the records pass their validator and implement `FencedLease`; journal fills are venue fills; dispatches are in fence order |
| `paper_policy_run` | 2 accounts, 2 processes, 2 strategies, 1 close, clock 0–2 both ways | two losses under one selection take back one strategy; superseded runs write nothing; the trigger aborts no legal write |
| `paper_run_ends` | 1 account, 2 processes, 2 closes, 2 samples to decide, 1 change after two selections, under fairness | no loss is skipped, what is stored replays, a one-shot run gives its lease back and ends |
| `paper_loop_release` | 2 accounts, 2 processes | a disagreement of section 5 |
| `paper_after_rollback` | 1 account, 1 process, 1 sample to decide, 1 change after two selections | a disagreement of section 5 |
| `local_run` | 1 process in 2 runs, 1 symbol, 3 bars, 2 orders, cash for part of them | what is stored replays, fills are fair and paid for, a stop is respected, the policy of a close comes before the next |
| `promotion` | 3 strategies, 1 process, 2 attempts beside trading, a run, a signal or research, clock 1–3 both ways; every market of 9 bars of 3 kinds with delay 2; 3 strategies, 5 metrics, 3 windows | attempts and signals replay, no bars are compared twice, a promotion happens on equal terms; a fold does not look ahead and its drawdown is the worst one; beating is transitive |
| `ledger` | 5 trade files, 10 cash files, 3 walk files; 4 previews, 7 events, 2 walks | the ledger and its upgrade replay, costs and lots are right, a preview is applied as reviewed or not at all, walks are complete |
| `watchlist` | 2 clients, 2 entries, 2 changes, 2 revisions, 1 restore | what a client says of a change is true; the stored list implements `SharedList` |
| `listed_capture` | 1 pair, 2 instruments with symbols, 2 versions, 3 listing events, 2 captures, clock 0–2 both ways | series and listings replay and can be read, the past stays known, captures are stored for the instrument listed |
| `broker_sync` | 3 commands by 2 processes, 2 accounts, 2 pages, 1 import, clock by half seconds | every history recovers, records fit the revision they name, snapshots were held and the one shown is the newest to the second |

`promotion` explores three parts of the comparison that share no state, each
from the initial state of the other two (`MCNext`). Three of its five metrics beat
each other in a row, so the premise of `PromotionIsTransitive` is met.

Four instances explore several stories of one model, each to its end, where the
product of all of them would add states and no interaction: a constraint in
the MC module (`OneStory`, `OneOtherThing`) says what does not happen together.
In `listed_capture` rates, prices, indices and captures touch different tables
except for the prices, which the last two share. In `ledger` trades, cash and
an upgrade with a reader are told apart; `BuyLate` and `SellEarly` have text
orders that differ from their times. In `broker_sync` two commands run side by
side, or one reads pages that move, or the clock moves by half seconds. In
`promotion` the `OneOtherThing` an attempt meets is trading or a run or a
signal, since each is compared by its own rows; `NewestBars` lets
research, fills and comparisons end at the newest bar only.

What these instances do not reach, and what covers it:

* `order_dispatch` has no renewal of a lease, no start of a local run and
  neither halt of an owned lease nor halt of all accounts. `HistoryReplays` and
  `ImplementsFencedLease` with those steps rest on the theorems
  `HistoriesReplay` and `AuthorityImplementsLease`.
* In `paper_run_ends` the clock ends before a lease does: leases are taken over
  after kills in `paper_policy_run` only. `LossNeverSkipped` over an expired
  lease rests on the theorem `LossesDecided`.
* `local_run` has one process, in two runs one after the other. Several at once
  rest on the theorems about `LocalPaperRun`.
* `local_run` has one symbol, and a bar is never shared by two orders of an
  account (section 4, `TurnsInv`), so it says nothing about two orders filled
  from one bar; the theorem `FillsAlwaysFair` shows that it does not occur.

Why these bounds are enough for what they ask:

* Two processes are what a takeover, a stale token or a race needs; each lease
  has a single row, so a third contender meets the same row as the second.
* TTL 2 leaves a moment inside a lease that is neither its first nor its last;
  where the question is only *lost or not* TTL 1 is used and time serves to end
  the lease.
* Two orders whose sum passes the account limit make the limit bite; two shares
  make a partial fill; `LookupBound` keeps two lookups that can be applied
  in either order while there is one order, and one beside two orders.
* `MaxFence` stands for `math.MaxInt64`: the instances reach it, so the refusal
  of the last token is part of every run.
* `MinSamples` is 2 in the code. `paper_run_ends` uses 2 with two closes, so
  that both an insufficient window and a decided one occur; `paper_policy_run`
  asks about rollbacks and uses 1, so that one close is enough to decide.
* `MaxSelections` bounds manual changes only; automatic rollbacks come on top.
* Three bars let an order be partly filled, and the replay know a bar the fill
  did not. A second order of a symbol is admitted only when the first is done,
  so a bar is never shared by two orders of an account.
* Two previews at one revision make the conflict; a third file makes a
  backdated import into a ledger that already has a sale.
* Two clients are what a lost update needs; two revisions leave one change in
  the middle and one at the limit, a restore gives a revision out twice.
* A clock of 2 or 3 with half seconds has a whole second, the half one after it
  and the next whole one: the case in which text and time differ.
* Two pages let an account change in between; three commands let a third one
  start on what two concurrent ones left.

## 4. Proofs

TLAPS proves the following for every number of orders, accounts, processes,
calls and every TTL and bound, from the named assumptions of the modules only
(types of the constants, null values outside their sets, provider references of
orders distinct, `TTL > 0`).

Several of these facts are about replays, sums and stacks over stored rows. The
provers cannot apply an induction theorem, so such a lemma takes the least
number at which the claim fails (`LeastNumber`, from the library's
well-founded minimum) and shows there is none; and an invariant speaks of a
witness ("there is a run through the rows that ends in the stored state")
that a step extends, instead of computing the replay again.

**Journal** (`OrderDispatch_proofs`, first part). `OrdersInv`: in every order status,
pending command and filled quantity agree (a submit is pending exactly in
`SUBMIT_UNKNOWN`, an unknown cancel is pending, an order is `FILLED` exactly
when nothing of it is left). `SettledForGood` and `SubmitsExclusive` follow:
what a settled order still accepts leads to a settled state, and
`accountHasUnresolvedOrder`, which looks at pending commands only, misses none.
`RowsInv` (each row belongs to its order, refs of rows are the ref of the
state) gives `ExecutionsDistinct` and `ProviderOrdersDistinct`. `RunsInv` adds
a legal run through the rows of each order; from it `OrdersReplay` (the service
can read every journal it wrote) and `FillsAdd`.

**Authority** (`OrderDispatch_proofs`, second part). `AuthorityInv` says that token *n*
is record *n*, that every history is one the validator accepts, and that a held
token was issued to its holder. `HistoriesReplay`, `TokensExclusive` and
`SupersededForGood` are the consequences. `AuthorityImplementsLease` maps each
account's newest record to `FencedLease` and shows every step to be one of its
steps or a stutter; the clock moves both ways, and the theorem holds because a
takeover tests expiry in the transaction that issues the new fence.

**Dispatch** (`OrderDispatch_proofs`, third part). `DispatchInv` combines the journal's and
the authority's invariants with `CallsInv` (the order of a call between
authorisation and recording is reserved, its submit is pending, it was not
written before, and no two such calls work on one order) and
`ReservedInv` (a reservation names a lease record that was live). It gives
`SubmittedOnce`, `DispatchDurable`, `InFlightApart`, `ReservationsBacked` and
`DispatchesFenced`. `InFlightApart` is worth reading: the fence alone does not
keep two writes of an account apart, since a lease can be taken over after an
authorisation; the unresolved order in the journal does. `VenueInv` adds what
the venue did: each journal holds a first part of its order's executions, each
lookup shows one too, and no order is both accepted and refused; from it
`FillsAreTheVenues`. `LimitInv` adds that the notional of the counted
reservations is within the limit, with which `ExposureBounded` shows that what
the venue may still fill is covered by reservations and within the limit
together. Each fact of the parts is carried over the composition by a
lemma on their actions, not proved again.

**Runner lease and runs** (`PaperPolicyRun_proofs`). `LeaseInv`: the row is
released or lives exactly TTL from its heartbeat, each claim is a row of its
process at a fence not above today's. Every step that writes the row raises the
fence, empties the row or renews it for the process whose claim it is; this
gives `GuardNeverAborts` (Go code and SQL trigger agree), `LostForGood`,
`OutdatedNotRenewed` and `RunnerLeaseImplementsLease` for the lease alone, and
`RunsPassGuard`, `RunsLoseForGood` and `RunsImplementLease` for the runs over
it. `RunsInv` has three further parts. `ClaimsInv`: where a run stands agrees
with its claim and the row. `RegistryInv`: the selections replay, and the
strategy in use is the top of their stack. `EvidenceInv`: every valuation names
a selection that exists, one that halts ended its selection and no other
valuation did, each automatic rollback has one, each decision was taken under a SELECT and is
that of its window, and a run in a stage aims at a close not behind the unfinished
valuation it is to complete. From these `EvidenceAlwaysReplays`,
`LossesDecided`, `RollbackOnce`, `EvidenceFenced` and `OneShotsRelease`.
`EvidenceAlwaysReplays` also needs that a halt took back one selection: the
strategy before a SELECT is the top of the stack under it, so a rollback of that
SELECT lands on it (`RollbackPops`). Under a ROLLBACK event this is not so,
one more reason why the code refuses to decide there.

**Registry** (the first lemmas of `PaperPolicyRun_proofs` and
`PaperPromotion_proofs`). Any selection, rollback or promotion appends to the
stack that the stored events replay to (`RegistryInv`).

**Promotion** (`PaperPromotion_proofs`). `PromotionsStrict` and
`PromotionsTransitive`: for any metrics and number of windows, no two strategies
beat each other and beating has no cycle, so promotions on the same bars end.
About the attempts, `PromotionInv` says that claims are in the order of their
times, that what a claim read (selection, journal, research) fits it, that the
registry is a stack, and that every claim, decision and signal replays. It is
inductive because a journal or research row is only appended with a time after
the newest claim: no cutoff of an older claim moves, whatever the clock does.
From it `AttemptsAlwaysReplay`, `PromotedRegistryReplays`, `NoBarsTwice` and
`PromotionsAreFair`.

**Folds** (`PaperPromotion_proofs`, last part). `FoldsAreHonest` holds for any bars,
lengths, windows, costs and delays that satisfy `FoldAssumption`. `FoldInv` has five
parts. `OrderFits`: an open order takes the position to the full quantity or to
nothing, so cash and shares stay within their bounds (`QuantityIs`). `Looks`: an
order, open or filled, has its reason in the bars seen when it was given, and
appended bars leave those as they were. `Counts`: the buys are the completed ones
and the one that has begun, and one more than the sales while shares are held.
`Drawn`: cash and position are the totals of the fills, a later fill does not
change the equity of an earlier bar (`PastStays`), and the stored loss is the worst
between two moments so far (`Worst`); one more moment keeps it so because only a
fall from the peak can be worse (`WorstGrows`, without dividing). The prover
also asked for one change: the arms of a `CASE` in `NextOrder` overlapped, and
TLC took the first one as the code does; they are exclusive now.

**Local run** (`LocalPaperRun_proofs`). `RunInv` has three parts that carry the
rest. `LeaseHolds`: claims grow and no two processes share one, so at most one
process is `Live`, that is, passes the check of the runner lease under the
current selection; while its claim is the newest, an execution lease that is
held is the one it knows of. `PlanFits`: the closes that process has left are all that
the policy owes up to the last one, and the newest valuation is among them
while it is undecided. `BarsInv`: a market imports its bars in order, so a
close that is stored later is behind every close, and a plan made before stays
right. A claim that was overtaken is never `Live` again (`LiveBefore`), so
nothing has to be said about what a killed or late process still plans.
`LeasesAlwaysRespected` follows from the first part, `PolicyAlwaysFirst` from
the other two with `PointsInv` (valuations in order, only the newest
undecided).

The account has its own invariant over the bars, signals, orders and fills.
`TurnsInv` says that the orders of a symbol take turns: one is placed when the
one before it is filled, and is filled from bars that came later; so no bar
fills two of them. `TargetsInv` says that what a symbol holds and has on order
is what its newest signal asked for; with one open order at most, the sum over
the open orders has one member (`Projection`). Cash, positions and what is filled of
an order are sums over the fills. `SumsUp` describes such a sum as a function
over all subsets of the indices; it exists for every finite set, and it is what
the fold of the community module computes (`RecursionSums`), so that one more
fill adds what it says (`SharesAppended`, `CashAppended`). From these
`FillsAlwaysFair`.

`RecoveryAlwaysAccepts` is about rows that are replayed later than they were
written. `RowsStay`: a step only appends. `NextFillStays`: a bar that comes
later is no candidate before the bar that was filled (`FillBarsStay`), so the
replay, which knows all bars and no close to stop at, picks the same one;
`FillIsNext` shows the same of the bars that were stored then but close later.
`NextOrderStays`: an order names how many fills there were when it was placed.
`EquityStays`: a symbol that is held already has its bar of the close when the
close is valued, and there is no second, so no price is added to the valuation.


**Watchlist** (`Watchlist_proofs`). `WatchlistTyped`, and
`WatchlistEditsAreAtomic`: for any number of clients, entries and requests on
their way the stored list implements `SharedList`, as long as no backup is
restored. A save compares the revision it was made from, so the row it replaces
is the one its editor saw. `AnswersAlwaysTrue` holds with restores too. Its
invariant `FatesInv` says, of each change a user made, that either the client
knows it is saved, or it is not saved and the only request that may still save
it is the one its client is waiting for; a refused change is neither stored nor
pending nor on its way.

**Owner series and captures** (`ListedCapture_proofs`). The theorems are about
`CaptureSpec`, every operation of the series beside every capture; the run
explores a part of its steps (`StorySpec`). `SeriesTyped`, `SeriesReplays` and
`PastIsKept` rest on versions being in the order of their record times, which
never go back because a writer takes the later of the clock and the newest
record: nothing recorded later can be known at an earlier cutoff. The newest
version of an index is the one with the largest number (`LargestIndex`). The
same order over the captured prices (`PricesInOrder`) and one key for a trade on
whatever venue (`TradesOnce`) give `ReadsAlwaysAgree`: what a reader selects
exists whenever there is a mark for its cutoff, and two readers select the same
one. `CapturesAlwaysSound` needs that listings replay too, and that the owner of
the symbol is tested again in the transaction that writes.

**Broker** (`BrokerSync_proofs`). The invariant `HistoryIsSound` carries the
types, that a request without a token was made once at most, and the properties
of the records. `SyncTyped`, `HistoryOfOneAccount`, `HistoryAlwaysRecovers` and
`RecordsFit` follow for any number of commands, accounts, symbols and pages:
what the transaction checks again is enough, whatever was true before the
requests. `SnapshotsAlwaysTrue` is about the requests themselves. `ReadsSound`
says that a command that followed a cursor back got some symbol twice, so that
its snapshot is refused, and that any other command has all pages it counted,
each quantity of which the account held while it read.

**Ledger** (`Ledger_proofs`). A loop of the code is a recursive function of the
model. Such a function exists and is unique, by the least step at which it
would not be (`LoopExists`); what it computes is then an invariant over its
steps (`Climb`). `StoredInv` says that the stored rows passed the checks of the
table one by one (`IsLedger`) and replay under the policy, and that the row of
the upgrade is the replay of its prefix, which later imports do not touch
(`OldPrefix`); a void never loses its target, since rows are only appended.
`LedgerReadable` follows. `ReviewInv` says that each preview is the parse of its
file against a prefix, `ReceiptInv` that what a receipt added follows that
prefix; from them `ReviewedIsApplied`. For the walk, `InOrderOrdered` shows that
the positions of a revision have one order by time and position and `OneOrder`
that it is unique, so that what follows a cursor is the rest of it (`ReadShows`)
whatever was imported since: `WalkShowsAll`.

`PortfolioAlwaysRight` follows from `StoredInv` alone. A replay that does not
fail gives one account after each event (`ReplayPosts`), and each posting does
to the lots of one currency what `Posts` says. `SaleBalances` is about one sale:
what it took of the lots and what it kept of them are the lots, in shares and in
cost, whatever the rounding, because an allocation is a part of the cost of its
lot (`AllocationBounded`: half to even never exceeds the cost, as the cost is a
multiple of the unit it is rounded to). So the shares held follow the events
(`NoneOversold`), and each event changes realized results less open costs by its
cash (`CostsConserved`). A sum over the order of a replay is the total over the
stored positions (`AddedInOrder`), so costs and cash do not depend on the order.
`NewestRemains` keeps the purchases so far in order (`OrderGrows`), of which a
sale keeps the last ones. `VoidsCanceled` goes through the rows as they were
imported: a void takes exactly one row out of those that count, for it is the
only one with its target (`CountedGrows`).

**Only model-checked.** `OneShotEnds` is liveness under fairness and out of the
prover's reach. Every invariant a run checks is proved.

## 5. Where code and documents disagree

* `paper_loop_release`. `runPaperPerformanceLoop` assigns the result of each
  heartbeat to the claim its deferred release uses. A heartbeat that fails,
  for instance because cancellation arrives inside it, sets it to nil and the
  release does nothing: the lease the process still owns stays until its TTL is
  over. The gate document says cancellation releases the exact owned claim
  (`src/gates/g3p-always-on-paper-runner.md:12`). The run checks `LoopReleases`
  and finds this behaviour.
* `paper_after_rollback`. After a rollback to an earlier strategy the current
  selection event is a ROLLBACK. A scheduled run checks, values and measures
  the next close under it, and the proof before the commit of stage E refuses
  the policy (`src/services/core/paper_performance_policy.go:515`), so this and each
  later run ends in an error until somebody selects by hand. The gate document
  says that after such a rollback the existing selection rules permit a later
  invocation to evaluate the newer close for that candidate
  (`src/gates/g3ae-paper-pending-policy-recovery.md:11`). The run checks
  `RolledBackIsEvaluated`; with `MayDecide` always true it passes, so it is this
  check alone that stops the run.

The modules state five further disagreements as definitions that no run checks;
a configuration that names one finds it violated on a small instance:

* `KilledPrefixBlocksSelection` (`PaperPolicyRun`). The check that keeps manual
  changes away from an unfinished chain looks at the account in the lease row
  only. After another account's run took the expired lease over and released
  it, the row is empty, and the strategy can be changed over the killed
  runner's unfinished chain (`src/gates/g3p-always-on-paper-runner.md:11`).
* `PointsInsideWindow` (`PaperPolicyRun`). The scheduled run takes the newest
  close without comparing it with the time of the selection. It then stores a
  valuation stage D refuses on this and each later attempt
  (`src/gates/g3ab-paper-chronological-recovery.md:16`).
* `NoFillBehindValuation` (`LocalPaperRun`). An order that is open for want of
  cash is filled from the oldest bar it did not use, also when the close of
  that bar was already valued and its policy decided
  (`src/services/core/paper_runner.go`). The stored valuations stay provable all
  the same (`RecoveryAccepts`).
* `LatestKeepsCutoff` (`OwnerSeries`). The query for the latest rate compares
  and orders the texts of the times; a rate observed or fetched up to a second
  after a whole-second cutoff is returned for it
  (`src/docs/kairos-plan.md:1100`).
* `OlderNeverReplaces` (`BrokerSync`). The query for the newest snapshot orders
  the texts of the fetch times; a snapshot of a whole second is shown before
  one fetched up to a second later
  (`src/gates/g4h-kiwoom-known-good-snapshot.md:8`). The bound that does hold is
  `NewestIsShown`.

Behaviour the models show that is by design and no finding: a halt or a
takeover does not call back an authorised order that was not yet written; an
order whose submit has no known outcome is never correlated by a lookup, and
its account dispatches nothing until an outcome is recorded by other means; the
automatic rollback of one account ends the selection under which another
account may have an unfinished chain, whose loss is then not acted on; a
watchlist change that was sent before a restore to a lower revision stays
unsettled until the client is started again. The first three are hazards in
`PROJECT.json`, those that no property covers with the reason.

Further: a paper sale whose fee and tax exceed its proceeds is an error and
fails its run each time; a fold with a delay of two bars or more stays unscored
when a purchase is signalled just before the bar of the liquidation; a database
that is legal under the old replay order and not under the corrected one can
never be activated and fails closed; one rate fixture whose times are out of
order makes every valuation fail (tested as such,
`src/services/core/cash_valuation_test.go:196`); an instrument with captured
Kiwoom prices cannot get an owner series, since both use one table; a watchlist
revision is no epoch across restores (`src/gates/g4y-stored-watchlist.md`); the
calls of one broker read are no atomic view of the account, so a snapshot can
mix two states of it, each quantity of which was held.

## 6. Plan

Done: every component of the inventory that keeps state, its runs, and the
proofs of section 4. What comes next is the
paging of the order history for reconciliation, on the pattern of `BrokerSync`.

## 7. Not modelled

Backup and restore: copying, synchronising and renaming files are the operating
system's and SQLite's work, and a commit between the reads is caught by one
equality over two states; a restore is modelled where a client notices it
(`Watchlist`). Reports that only read (`paper_evaluation.go`, `paper_monitor.go`,
`paper_input_status.go`, the promotion report) and the capital-free paper
accounts of older databases. Candle reads, the frames of the realtime feed, the
pacing of requests within one process and the keychain of the Kiwoom client.

Authentication and HTTP routing, JSON shape checks, hashing and canonical
forms (a stored hash that does not match makes every operation fail and is
never written), SQL syntax and schema migration, network framing, the arithmetic of
valuation and returns with its age limits and split guard, the Flutter client
beyond its watchlist and the Python research code. The
recovery proofs are modelled by the properties they check, not as operations:
a failing proof would appear here as a violated `…Replays` property. Real
broker cancels are not sent by this code; cancel events enter the journal only
through `appendOrderEvent`.
