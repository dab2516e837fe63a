# A TLA+ verification of dotCast, order execution and the lotto worker

This directory holds TLA+ modules that model parts of the Sovereign-Sigma
repository, the TLC configurations that check them on small instances, and
TLAPS proofs of results that hold for every instance. Paths below are
relative to the repository; `src/` is its TypeScript source.

## 1. Inventory

The repository is a set of Cloudflare workers and Durable Objects.

| Part | State | Operations | Interacts with |
|---|---|---|---|
| Pool object (`src/engine/dotcast/DotCastPoolDO.ts`, `PoolLifecycle.ts`, `PoolSettlement.ts`, `RouterResolutionClient.ts`) | one stored snapshot (pool, entries, balances, house ledger), one storage alarm | create, read, odds, entry, lock, settle, resolution, poll, void, alarm | gateway (requests), router (fetch), D1 (funding locks, audit) |
| Parimutuel arithmetic (`Parimutuel.ts`) | none | totals, rake, allocation, settlement, preview | pool object |
| USDC accounts (`SolanaUsdcSettlementRail.ts`, `UsdcPoolFunding.ts`, `UsdcBondFunding.ts`) | D1 rows: balances, transfers, pool locks, bond locks | deposit, withdrawal, confirmation, reserve, release, terminal settlement, bond reserve and settle | gateway, pool object, resolution router |
| dotCast gateway (`src/gateway/DotCastGateway.ts`) | none of its own | routes; the USDC entry route and the panel routes are multi-step protocols | D1 and pool object |
| Resolution router (`ResolutionRouter.ts`) | D1 rows: routes, challenges, panels, assignments, commits, reveals, payouts, resolver profiles and their ledger | lock route, challenge, plan panel, commit, reveal, settle, time out | bonds, pool object |
| Audit ledger, creator economy, referrals, gamification, rewarded streams, sponsored questions, livestreams | D1 rows, WebSockets | derived bookkeeping and rewards | pool object, gateway |
| Trading engine: execution queue (`src/engine/trading/execution`, `state/StorageWriteGuard.ts`, `alarm/`) | stored queue, one alarm, token bucket, write guard | dispatch, enqueue, drain, wake | execution worker |
| Execution worker (`src/execution/`) | in-memory idempotency ledger per isolate | place, replay, refuse, cancel, list open orders, forward reports | exchange, engine |
| Trading engine: order tracking (`ExecutionAccounting.ts`, `janitor/`) | order map, position | apply a report, janitor run | execution worker |
| Trading engine: signals, risk, quotes, cascade, replay | estimators, books | market data to intents | ingest worker |
| Ingest worker (`IngestWorker.ts`, `ingest/`) | stream sessions, book reconstruction | connect, apply, detect gaps, resubscribe | trading engine |
| Gateway worker, auth, configuration, governor, vault, ledger, logger | KV, D1 | routing, tokens and their revocation, configuration | everything |
| Lotto worker: generation (`lotto-worker/src/autonomy.ts`, `scheduler.ts`) | D1: configuration, runs, tickets, leases | cron tick, service request, generate, record a failure | outbox |
| Lotto worker: outbox (`lotto-worker/src/delivery.ts`, part of `ticket-lab.ts`) | D1: two outbox tables and their attempts | enqueue, suppress, claim, complete | SMS bridge |
| Lotto worker: ticket lab, ingest | D1: ledger, grades, statistics | grade, rule on eligibility, scrape | outbox |
| Congress tracker (Python), web UI, Moltworker supervisor | files, D1 | scraping, presentation, restarts | - |

What is hard here, and what makes each part correct:

* **Pool object.** A Durable Object runs one event at a time only between
  external awaits. The poll of the resolution router reads the snapshot, waits
  for D1 and for the router, and stores what it computed from the snapshot it
  read. Requests carry their own `now`. Correct means: the running totals fit
  the entries; money is conserved; entries are paid or refunded once and
  together; the book is closed when the pool locks; a terminal pool stays
  terminal; a locked pool is resolved in the end.
* **Arithmetic.** Rounding down and handing out the left-over units must
  neither make nor lose a unit, and must be fair.
* **USDC accounts.** Four awaited SQL statements per operation, no transaction,
  concurrent worker requests that may die anywhere. Correct means: the balance
  row is what the records add up to; each record enters and leaves the balance
  once.
* **Entry protocol.** D1 and the object are updated in turn by a gateway
  request that may fail between any two steps and be retried.
* **Execution queue and worker.** Persist-then-act against crashes, one alarm
  for several purposes, a guard that silently skips writes, and a ledger that is
  per isolate and forgets. Correct means: an intent is ordered once, is not lost
  without a reason one can name, and a deferred one is not forgotten.
* **Order tracking.** Two views of an order, kept in step by reports that may be
  lost and by a maintenance task that works on an old snapshot. Correct means:
  no fill is booked twice; the janitor finds what reports missed.
* **Resolver panels.** Long sequences of SQL statements per request, repeated,
  overlapping or dying, with votes arriving at any moment. Correct means: the
  ledger explains the bonds; a seat is judged once; the correct are paid.
* **Delivery outbox.** Leases that expire while the holder is still sending,
  late and lost results. Correct means: one copy of a message, and a record of
  what happened to it that is true.
* **Generation.** A lease that may be outlived, a check before the lease, a
  commit whose answer may be lost. Correct means: picks that are queued are the
  run's picks; a game of the day is generated or somebody is told.

## 2. Modules

| Module | Models | Extends |
|---|---|---|
| `Sums` | the sum of a function over 1..n, as a recursive function, and over a finite set, as a fold | - |
| `Parimutuel` | `Parimutuel.ts` as operators on a book of entries | `Sums` |
| `DotCastPool` | the pool object as a state machine | `Parimutuel` |
| `UsdcAccount` | one D1 account and its records, statement by statement | `Sums` |
| `UsdcPoolFlow` | gateway, funding locks and pool object together | `DotCastPool` |
| `ExecutionDispatch` | limiter, queue, alarm and write guard of the engine, with the execution worker's isolates | - |
| `OrderReconciliation` | exchange, execution reports, accounting and janitor | `Sums` |
| `ResolverPanel` | one resolver panel: gateway routes and router statements | `Sums` |
| `Delivery` | what the outbox promises (abstract specification) | - |
| `DeliveryOutbox` | outbox tables, bridges and their messages; implements `Delivery` | instance of `Delivery` |
| `LottoGeneration` | one draw day of autonomous generation | - |
| `Sums_proofs`, `Parimutuel_proofs` | lemmas about sums and about the arithmetic | `Sums`, `Parimutuel` |
| `MCParimutuel_proofs` | proofs of the arithmetic's properties, on any book | `MCParimutuel` |
| `DotCastPool_proofs` | proofs about pool object and entry protocol | `UsdcPoolFlow` |
| `UsdcAccount_proofs`, `ResolverPanel_proofs` | proofs about the module of that name | that module |
| `TradingEngine_proofs` | proofs about execution queue and order tracking | `ExecutionDispatch`, `OrderReconciliation` |
| `LottoWorker_proofs` | proofs about outbox and generation | `DeliveryOutbox`, `LottoGeneration` |
| `MC...` | instances for TLC | |

### DotCastPool

`snapshot` is the stored snapshot, `alarm` the storage alarm (empty or one
time), `polls` the polls in flight with the snapshot each holds, `clock` the
time of day. The code's functions on snapshots (`lockSnapshotIfNeeded`,
`settlePoolSnapshot`, `applyRouterResolution`, `voidPoolSnapshot`, `placeEntry`)
are operators with the same names; where the code throws there is an operator
`Can...` that is false. Each request handler is one action, because storage
operations close the object's input gate: nothing interleaves between reading
the snapshot and setting the alarm. A handler that throws changes nothing and
is not enabled. `pollRouterResolution` is the exception: it keeps its snapshot
across the audit write and the fetch, and is the actions `PollBegin`,
`PollAfterAudit`, and `PollApply`, `PollFetchFails` or `PollThrows`. The
early return in `lockIfNeeded` (`nextSnapshot === snapshot`) is never taken,
since `normalizePoolSnapshot` always builds a new object; so every poll passes
through the audit await, and every read of a locked pool stores it and sets the
alarm a whole interval ahead. The clock stops at the horizon; from there on
`Tick` brings the alarm nearer instead, so that time still passes and a request
can still put the alarm off. `Evict` drops the polls in flight and keeps storage.

Left out of the snapshot because no handler reads it back: the settlement record,
`lastResolution` and the timestamps. The "resolving" status is passed through
within a step. All entries are user-funded, as no code creates house entries.

### UsdcAccount

An operation is a record: the key of the row it is about, the status it must
find, the status it writes, the credit it stores and the change to the balance
row. Any of the `Workers` runs it in four actions: `ReadRecord`, `ReadBalance`
(refusing what cannot be paid), `WriteRecord` (an INSERT fails on an existing
primary key, an UPDATE always succeeds) and `SaveBalance` (the whole row, from
the copy read before). `Die` ends a request anywhere. `opened`, `closed` and
`disturbed` (some request overlapped another, or died half-way) are history
variables. `Contested` bounds the records on which requests may overlap.
Transfers never get the statuses `requested`, `reorged` and `failed`: no code
writes them.

### UsdcPoolFlow

Adds to `DotCastPool` the funding locks in D1, the gateway requests
(`ReadPoolUnit`, `Reserve`, `EntryTaken` or `EntryAnswered`, `Release`) and the
terminal reconciliation (`FinalizeLock` for one entry after another). Each
operation on a lock is one step here, since its statements are the subject of
`UsdcAccount`. Gateways and reconciliations may die anywhere.

### ExecutionDispatch

Stored: `queue` and `alarm`. In the engine's memory: the token bucket, the
gate of the cached configuration, the running alarm handler, and the write
guard's `backoff`. In an isolate's memory: its `ledger`. Requests to the worker
are `jobs`. `Emit` takes the dispatches that one engine turn schedules without
awaiting them: each reserves a token, those denied are queued, and as all of
them read the queue before the first writes it, the last write stands. The
alarm handler is `AlarmFires` (with a fresh configuration), `Drain`, one
`Dispatch` per due intent, each awaited, `SetNextWake` and `Finish`.
Deadlines count down with `Tick`, so that behaviours have no horizon.
The worker's order placement is `Proceed`, `Place`, `Respond`, or it ends in
`Replay`, `RateLimited` or `Refuse`. A write that fails is modelled as
`StorageFails` followed by the skip that the guard makes of every write in its
backoff; only the alarm write of an enqueue needs an action of its own. `fate`
records why an intent is gone.

### OrderReconciliation

`exchange` is external: what became of an order and how much of it is filled.
`book` is the order map, with an entry under the client id and one under the
exchange id when a cancel report creates it. `adapter` tells the two kinds of
exchange apart: one lists client ids with the open orders, the other does not.
Reports are a set, applied in any order or lost. The janitor holds the order
map and the position of its start through `Fetch` and every `Cancel`, and
`FinishJanitor` writes them back. Reports and the janitor persist through the
write guard, which may skip the write (`GuardedPut`): `stored` is what storage
holds of order map and position, `SaveState` the tick's snapshot that brings it
up to date, and `Restart` an eviction, after which the engine goes on from
`stored`. An entry may be filed under a third key, the client id that a cancel
has of its own in Binance's answer. All orders buy, so that the position is a sum
of fills. `touched`, `rolledBack` and `delivered` are history variables.

Two consequences of the code that the model shows and that no property forbids:
fills of a resting order are never reported to the engine, which learns of them
only as a `filledSize` that is not booked; and a resting order that was filled
is marked `CANCELLED` by the janitor, as it is no longer in the list.

### ResolverPanel

One panel of a jury route, from its plan to its payouts. A gateway request is a
record with a program counter, the seats it still has to go through and the
ledger entries it still has to make; every awaited statement whose order matters
is an action. The UPDATE of a profile and the INSERT of its entry are one step
(`ApplyEntry`) or are torn apart by `DieTorn`; the INSERT of a payout and the
UPDATE of its assignment likewise. Votes (`Commit`, `Reveal`) come at any time.
Every route takes either an id or the object itself from the request's body, and
compares the latter with nothing that is stored: `SettleGiven` settles a panel
and votes from the body, `TimeoutGiven` times out a panel from the body,
`CommitGiven` and `RevealGiven` take a vote for an assignment or against a commit
from the body. `given` counts those that bring votes, `MaxGiven` bounds them, and
`Bodies` are the panels they bring. A payout for an assignment that is not stored
is inserted before the request fails (`InsertPayout`).
Abstracted: the balance behind a bond lock (`UsdcAccount`), the pool's own
refusals (`DotCastPool`; here it keeps the first outcome), the commit hash (the
vote it hides), challenges (the policy of a jury route lets none stand), and a
second vote of a resolver, which is ignored but for the status. A body is made of
the panel's own seats with their resolvers and bonds: bodies that repeat an
assignment, change its resolver or its bond, or mix two panels are left out. So
are the refusal to reserve a bond under another owner or amount
(`UsdcBondFunding.ts:185`) and the choice of other candidates by a second plan: a
plan is repeated as it was.

A consequence the model shows and that no property forbids: a settlement that
dies after it wrote a payout row and before its ledger entries is not completed
when it is repeated, because a seat with a payout row is skipped; the USDC bond
is settled (`ServedIsSettled`), the resolver's profile is not credited.

### Delivery and DeliveryOutbox

`Delivery` says what the outbox promises: a message goes out at most once, is
concluded at most once, and is concluded as sent only if it went out.
`DeliveryOutbox` has the rows of both outbox tables, the handlers of results
between their SELECT and their batch, and, as external parts, the bridges, the
ledger that a bridge host keeps of delivery ids, and the results on their way.
A claim is `Select` and the conditional `TakeLease`, a result `ReadResult` and
`CommitResult`. `Rule` is a ruling on the eligibility of a graded result,
`Suppress` the reconciliation that gives up excluded ones. A result
reports the attempts the bridge made, at most `MaxLocalAttempts` (4 in
`parseDeliveryResult`), and all of them are added to the row's count, which may
thus pass the limit; only a row that is thereby concluded does. `LeaseExpires` may
happen under a bridge that is still at work, which is counted in `overran`.
At-most-once rests on the bridge's ledger: the worker alone cannot give it.

Consequences of the code: a row excluded while it is leased stays leased when
its bridge is gone, since neither a claim nor the suppression takes it; the
suppressed result of an entry that is reinstated is not queued again; and a
bridge that outlives its lease may send a message that is recorded `retry` or
`dead`, which the comment at `delivery.ts:5` rules out by the lease's length.

### LottoGeneration

The tables of one draw day: configuration, runs, number of tickets, picks and
alert rows, leases. A worker is started by `Schedule` (the choice that a cron
tick makes), by `Request` (a service request that names a game) or by
`RunRequest` (one that names none but brings a time of its own, by which games
and retries are due). That time reaches the lease only where an invalid
configuration is recorded, since `generateForGame` takes the lease by the clock:
a worker that was told a later time may take over a lease that is still held, and
one that was told an earlier time takes one that may already have run out
(`Judged`, `Acquire`); the worker that loses its lease is `lapsed`. A worker goes through `Check`, `Acquire`, `Begin`,
`Generate`, `TryCommit` (a batch that is refused, applied, or applied with its
answer lost), `ReadBack`, or `Fail` and `RecordFailure`, to `Release`. It may
die anywhere. Abstracted: what is generated (only how many), sources and their
verification (they succeed or throw), the daily summary and shadow trials.

Consequences of the code: with an edit of the ticket count between two workers
that overlap, tickets and `ticket_count` differ and `generatedRun` throws for
that run from then on (`TicketsReconcile` shows that the edit is needed); a
failure after the commit at the last attempt queues a "generation failed" alert
for a run that is generated; overlapping failures may count as one attempt.

## 3. Runs

| Run | Shows | Bounds |
|---|---|---|
| `parimutuel` | every book: conservation, fairness within one unit, order of stakes kept, preview honoured | 4 entries, stakes 1..3, two instants, rakes 0, 25 % and 100 % |
| `pool` | totals, joint resolution, conservation, closed book, and that only a late poll touches a terminal pool or leaves a locked one without its alarm | 2 users, 2 entries, stakes 1..2, instants 0..2, one poll request beside the alarm (116,822 states) |
| `pool_live` | a locked pool is resolved for good unless requests put the alarm off for ever | 1 user, 2 entries, instants 0..3, only the alarm polls (846 states) |
| `account` | no negative balance; records open once; balance = sum of the records and records close once unless requests overlapped or died | 2 requests, 4 records of all kinds, overlapping on three of them (2,559,466 states) |
| `flow` | entries have their locks; locks are paid what the pool says | 2 gateways, 2 users, 2 entries, instants 0..1 (536,900 states) |
| `dispatch` | an intent is ordered twice only after a drain that was not stored; lost only in the ways listed; the alarm stays set; a deferred intent is decided | 2 intents, 2 isolates, bucket of 1, queue limit 1, alarm cadence 2, 1 storage failure, 1 eviction (350,637 states) |
| `orders` | no fill booked twice; the three ways fills are lost; open orders are found; pending ones settled | 1 order of 2 units, both kinds of exchange, 1 eviction (96,866 states) |
| `delivery` | the outbox implements `Delivery`; retries are limited; counts match the trail; unsent means unsent while leases last; queued messages are concluded | 1 graded delivery, 2 bridges, dead after 2 attempts, up to 2 attempts per result, 2 leases, 1 crash, 1 overrun, 2 rulings (310,531 states) |
| `generation` | queued picks stay backed; tickets reconcile; giving up is announced; the lease excludes; the day ends settled | 1 game, 2 workers, ticket counts 1 and 2, 2 attempts, 3 faults (deaths, outlived leases, edits and service requests) (658,092 states) |
| `panel` | the ledger explains the bonds; one judgement per seat, in its ledger and its lock; a completed request leaves nothing open; the correct are paid | panels of 1 (two requests may overlap) and 3 (one at a time), bond 1, deposit 2, fee 3, 3 requests, 1 death, 1 vote or settlement from a body (2,664,991 states) |
| `janitor_orphans` | *violated*: the janitor cancels tracked orders | as `orders`, the exchange without client ids |
| `panel_correctness` | *violated*: paid for an outcome the pool did not get | as `panel`, nothing from a body |

Why the bounds are enough. Two entries are the fewest with two sides, a winner
and a loser, and two of them on one side with nobody on the other; four in
`parimutuel` give three winners with two left-over units. Three instants put
requests before, at and after the close, and before and past the grace period;
the last instant stands for all later ones. Two concurrent requests are enough
for every race between two; one poll request beside the alarm's poll likewise.
Stakes of 1 and 2 with a rake of 50 % make the rake round down. In `dispatch` a
queue limit of 1 makes two intents meet the cut, and a bucket of 1 makes a batch
of two meet the overwriting; one failure and one eviction are what every loss in
the list needs. In `orders` a size of 2 makes partial fills; orders do not
interact but through the one position, which is a sum. In `delivery` two leases
let a late result meet its successor, and two attempts in one result with a limit
of two let a count pass the limit. In `generation` two attempts instead of
three make the last attempt come sooner; a second game would add only the order
in which the cron tick picks games, and its state space was too large: that a
game is not kept back by the ones before it is therefore not checked. In
`panel` three seats are the fewest with a majority that late votes can turn;
races need only one seat; one body, for one seat, with the answer that seat does
not give and more than the whole fee, meets every stored state.

Fairness, and why the code justifies it:

* `pool_live`: the clock advances; the platform fires an alarm that is due
  (Durable Object alarms are delivered at least once); the alarm's poll is not
  for ever evicted before its audit write returns nor for ever refused an answer
  by the router (strong fairness, as both may fail any finite number of times).
  No fairness is assumed of other requests, and none is assumed against them:
  reads of a locked pool that keep coming within the poll interval put its alarm
  off without end, so the property is about behaviours in which this stops
  (`<>[][~Postponed]_vars`). With poll requests beside the alarm
  the property would fail, in the way `AlarmLostOnlyToStalePoll` delimits.
* `dispatch`: time passes, a due alarm fires, the handler and the worker run on.
  Weak fairness; none for emitting intents.
* `orders`: every alarm runs the janitor; requests to the exchange do not fail
  for ever (strong fairness); a report arrives or is lost; timeouts pass.
* `delivery`: time passes, bridges keep asking for work and go on with what they
  hold, the cron tick suppresses; a result of a held lease is not lost for ever
  (strong fairness: the bridge posts it again after the next claim).
* `generation`: cron keeps ticking (strong fairness, since a service request may
  occupy the worker in between), an invocation runs to its end unless it is cut
  off, retries and leases come due.

`account`, `delivery`, `generation` and `panel` have no deadlock check: an
account whose records are all final, a concluded delivery, a settled day and a
panel past its bound of requests have nothing left to do. `parimutuel` stops when
the book is full. All other runs check deadlock.

## 4. Violations and exposures

Two runs expect a violation:

1. `janitor_orphans`: `normalizeOpenOrders` (`ExecutionerRuntime.ts:1833`) does not
   read Hyperliquid's `cloid`, so the janitor, which matches by client id, takes
   every resting order for an orphan and cancels it.
2. `panel_correctness`: `insertResolverCommit` and `insertResolverReveal`
   (`ResolutionRouter.ts:936`) accept votes from seats that were paid or slashed.
   A first settlement without the pool pays the majority of its day; late votes turn
   the majority; a second settlement resolves the pool the other way.
   `PaidForCorrectnessInTime` shows that late votes are needed.

Other exposures are stated as conditions of properties that hold, so that the
runs show both that nothing else goes wrong and where the edge is:

* A poll applies the router's answer to the snapshot it read before its fetch
  (`DotCastPoolDO.ts:429`) and may overwrite a terminal pool:
  `TerminalLeftOnlyByLatePoll` shows that this is the only way, `BookClosed` and
  `MoneyConserved` that what is stored is still consistent in itself.
* A poll that read an open pool deletes the alarm after its audit write
  (`DotCastPoolDO.ts:388`): `AlarmLostOnlyToStalePoll`.
* Every read of a locked pool postpones its alarm (`DotCastPoolDO.ts:355`):
  `LockedPoolIsResolvedForGood` has this as its condition.
* Requests of one account that overlap, or die between the record and the
  balance, lose updates or credit twice: `BalanceMatchesRecords` and `ClosedOnce`
  hold while `disturbed` is false, `TypeOK` and `OpenedOnce` always.
* `reserveUsdcPoolEntry` (`UsdcPoolFunding.ts:217`) accepts an existing lock of any
  status, so a retry after a refusal enters the pool on a released lock:
  `EveryEntryHasItsLock` shows that there is a lock, not that it is still held.
* A second order of one intent needs a drain whose queue write was skipped by the
  write guard (`SecondOrderNeedsUnsavedDrain`); an intent is lost in six ways
  (`LiveIntentHasAPlace`).
* The position differs from the reports only after a `filledSize` was set without
  booking, after maintenance wrote an older position back, or after an eviction
  brought an older one back because the guard had skipped a report's write
  (`TradingExecutionReportRuntime.ts:134`) (`PositionMatchesReports`).
* `recordConfigurationFailure` takes the lease by the time a request brings
  (`api.ts:610`, `autonomy.ts:827`), so a later time takes a lease that is held:
  `LeaseExcludes` shows that this and an expiry are the only ways.
* A resolver's bond differs from its ledger only after two requests worked on
  the seat at once, or one died between UPDATE and entry (`LedgerExplainsBond`).
* A settlement that repeats one that died settles the USDC locks which that one
  left by the verdicts of its own (`DotCastGateway.ts:2150`), so after late votes a
  lock may be slashed although the payout row says matched. `JudgedOnce` holds of
  the lock as long as all requests had the same votes, and of the ledger unless
  requests with different votes were at one seat at once.
* Settlement, timeout, commit and reveal accept panel, votes, assignment or commit
  from the body without a look at what is stored (`DotCastGateway.ts:2120`, `1900`,
  `2058`, `2087`): `PaidForCorrectnessInTime` holds as long as no votes come that
  way, `LedgerExplainsBond` and `ServedIsSettled` whatever comes.

## 5. Proofs

Every safety invariant, every action property and the refinement that a passing
run checks is also a theorem, for every value of the constants that satisfies
the named assumptions. TLC evaluates the same assumptions on the runs.

| Assumption | Says |
|---|---|
| `MaxEntriesAssumption`, `InputsAssumption`, `PoolAssumptions` | stakes are positive, times natural, the rake at most 10 000 basis points, the pool's instants ordered as the validation at creation demands |
| `FlowAssumptions` | the pool's unit is USDC (used by no proof: those of the pool are for either unit) |
| `AccountAssumptions`, `TablesAssumption` | amounts are positive; there are finitely many records, and each kind has a table of its own |
| `PanelAssumption` | seats have positive weights, votes are answers, bonds are positive, the reputation is within its cap; a panel from a body has a heaviest answer and somebody who gave it |
| `DispatchAssumption` | bucket, cadence, lifetime, backoff and batch are positive, the other bounds natural |
| `OrdersAssumption` | finitely many orders of a positive size |
| `OutboxAssumption`, `GenerationAssumption` | bounds are natural or positive |

The modules that hold two specifications (`TradingEngine_proofs`,
`LottoWorker_proofs`) do so because the two share the lemmas about sums and
sequences; no proof about one uses anything of the other.

### Sums and arithmetic

`Sums_proofs` has what the others need about `SumTo` (1..n) and `SumOver` (finite
sets): the defining equations, sums of sums, common factors, monotonicity, a
change of one term, counting. The library's induction theorems take an operator
as parameter, which the provers cannot instantiate; `LeastNat` and
`SetInduction` say the same of sets, and the proofs define the set of lengths (or
of sizes) for which a claim fails and show that it has no least element. That a
recursive function or a fold satisfies its equation is shown from a table of its
values (`TableExists`), not assumed.

`Parimutuel_proofs` is about `settleParimutuel` on any book. The code sorts the
winners by remainder and gives one unit each to the first ones; the model gives
a unit to the winners whose rank is below the number of units left over. The
argument: `RemainderOrder`, `compareRemainderDrafts` is a strict total order (ids
break the last tie); `RanksBelow`, under such an order exactly u members have a
rank below u, if there are as many; `LeftOver`, there are no more units left over
than shares that are not whole. So the winnings add up to the prize
(`AllocationConserves`) and no whole share gets a unit (`NoUnitForWholeShare`).

`MCParimutuel_proofs` applies this to every book of entries:

* `SettlementConservesStakes` (`PayoutsConserveStakes`)
* `SettlementIsProRata` (`WinningsAreProRata`)
* `SettlementKeepsTheOrder` (`LargerOrEarlierStakeWinsNoLess`)
* `PreviewsAreHonoured` (`PreviewIsHonoured`)

### Pool object and entry protocol (`DotCastPool_proofs`)

* `PoolStaysTyped` (`TypeOK`), `EntriesAreResolvedTogether`
  (`EntriesResolvedTogether`), `TotalsAlwaysMatchEntries` (`TotalsMatchEntries`),
  `PoolConservesMoney` (`MoneyConserved`)
* `ClosedBookStaysClosed` (`BookClosed`), `OnlyLatePollsLeaveTerminal`
  (`TerminalLeftOnlyByLatePoll`), `OnlyStalePollsLoseTheAlarm`
  (`AlarmLostOnlyToStalePoll`): action properties
* `EntriesAlwaysHaveLocks` (`EveryEntryHasItsLock`),
  `LocksAlwaysPaidAsThePoolSays` (`LocksPaidAsThePoolSays`), of `UsdcPoolFlow`

Part 1 has a lemma for each function on snapshots: it takes a good snapshot
(typed, entries resolved together, totals and balances what the entries say,
nothing paid unless settled) to a good one with the same wagers, and never from a
closed book to a growing one. The totals are needed for the types: where the code
would throw rather than go negative (`requireBalance`), they show that it never
has to. Part 2 has a lemma for each action. `BookClosed` is not inductive:
`PollApply` stores a snapshot that is read from `polls` and not from storage. The
strengthening `PollsHoldTheClosedBook` says that a poll which has passed the audit
holds a locked snapshot, and that the stored book is then closed and has the
same wagers as the one held: a poll's own first step locks and stores the
snapshot that it keeps, and every later step leaves the wagers of a closed book
alone.

Part 3 is the composition. Its steps are steps of the pool or leave the pool
alone, so `PoolInv` carries over; `FlowInv` adds `RequestsHaveLocks` (a request
that has passed `Reserve` has a lock of its user and amount, of whatever status)
and `SettlersHoldThePool` (a reconciliation works through a terminal snapshot,
the stored one as long as no late poll replaced it).

### Accounts (`UsdcAccount_proofs`)

* `BalancesStayNatural` (`TypeOK`), `RecordsOpenOnce` (`OpenedOnce`): always
* `RecordsCloseOnce` (`ClosedOnce`), `BalanceAlwaysMatchesRecords`
  (`BalanceMatchesRecords`): as long as no requests overlapped or died half-way

The inductive invariant adds to `TypeOK` what a request knows between its
statements. `HeldBalanceIsAffordable`: the copy of the balance that a request
holds from `ReadBalance` on covers the change it will write, whatever has
happened to the row meanwhile; this is why overspending shows up as a lost
update and never as a negative number. `OneOpening`: a record's opening is
counted, or is in the hands of at most one request, and only once the record
exists; this is what the primary key guarantees. `OneClosing`: the same for the
closing, which nothing but the absence of overlaps guarantees, the UPDATE having
no condition. `BalanceTracked` follows the one undisturbed request: before its
record is written the row is what the records add up to, afterwards the copy it
holds with its change applied is; `StepMovesPosition` shows of each operation
that its change to the balance is what it does to the record.

### Trading engine (`TradingEngine_proofs`)

* `IntentsAreOrderedOnce` (`SecondOrderNeedsUnsavedDrain`),
  `LiveIntentsKeepTheirPlace` (`LiveIntentHasAPlace`), `TheEngineHasItsAlarm`
  (`WakeIsScheduled`), of `ExecutionDispatch`
* `FillsAreNeverOverbooked` (`NeverOverbooked`), `PositionAlwaysMatchesReports`
  (`PositionMatchesReports`), of `OrderReconciliation`

`DispatchInv`: of an intent that no unsaved drain took, `QueuedOnce` says that it
is queued once, or due once, or was sent once; `OrdersBacked` that it has no
more orders than sends, and none while its request has still to be placed. The
worker's ledger plays no part in it beyond `RememberedIsDone`: at-most-once comes
from storing the queue before dispatching. Sorting and cutting the queue are
treated by lemmas on what the operators keep: the items, and each once.

`OrdersInv`: a position is a sum of fills, one number per order, each no more
than what the exchange has filled and zero for an order whose fill report is
still under way (`Accounts`), for the engine's position and for the older one
that a running janitor will write back; an order has at most one fill report
(`ReportedOnce`); and as long as nothing was touched, no entry has fills of an
order whose report is to come (`Fresh`), in the order map and in the
janitor's copy. `StoredInv` says both of the stored state too, which an eviction
brings back. The existential in `Accounts` is what makes a position that was
rolled back still a sum of fills.

### Resolver panels (`ResolverPanel_proofs`)

* `BondsAreExplained` (`LedgerExplainsBond`), `ResolversAreJudgedOnce`
  (`JudgedOnce`), `ServedSeatsAreSettled` (`ServedIsSettled`)
* `CorrectVotesArePaid` (`PaidForCorrectnessInTime`)

`PanelInv` says of each request in flight which rows it has left behind it
(`Covers`: bond locks, assignments and payouts of the seats it is through with),
that what it is about to write agrees with the payout row of the seat it is at
(`Judges`), and that the value it has computed follows from the profile and its
entry is not yet in the ledger (`Holds`). Two requests at one seat are in
`raced` (`Exclusive`), so a request alone at its seat has computed from what is
still there. `PaidInv` holds while no vote came late or from a body: then what any
settlement computed, though it read the votes at some earlier time, is what the
votes say now (`Verdicts`); every payout row, every ledger entry (`EntryPaid`) and
every settled lock (`LockPaid`) agrees with it; and each fee entered is the fee
per correct seat, of which there are not more than the fee pool pays for
(`SumOverBounded`). A lock and its payout row are thus both tied to the votes, and
so to each other, though no request ever compares the two. The requests of a body
are steps of the same proof (`SettleGivenKeeps`, `TimeoutGivenKeeps`): what they
bring is subject to `PanelAssumption` only.

### Lotto worker (`LottoWorker_proofs`)

* `TypeCorrect` (`TypeOK`), `CountsMatchTrail` (`AttemptsMatchTrail`),
  `LeaseMakesUnsentTrue` (`UnsentIsTrue`), of `DeliveryOutbox`
* `OutboxImplementsDelivery` (`ImplementsDelivery`): the refinement, for any
  number of deliveries, bridges, leases, crashes and overruns
* `QueuedPicksStayBacked` (`PicksAreBacked`), `UneditedTicketsReconcile`
  (`TicketsReconcile`), `FinalFailureIsAnnounced` (`GivingUpIsAnnounced`),
  `OneWorkerPerLease` (`LeaseExcludes`), of `LottoGeneration`

The outbox's invariant `Inv` is, beside types, `RetriesAreLimited` and
`AttemptsMatchTrail`:
`HostRecord`, the bridge host's ledger agrees with the copies that went out and
at most one bridge is sending a message; `SentWentOut`, a result that says sent,
on its way, in a handler or in the row, is about a message that went out;
`ClaimsHaveRows`, a bridge is only ever about a row that exists;
`CountsAreCurrent`, a handler that still holds the lease has read the current
count, which is what makes the stale-looking write of `attempt_count` right; and
`LeasesCover`, as long as no lease of a row was outlived, its one bridge holds
the lease, a result under the lease comes from nobody still at work, and a row
that waits, was given up or is reported failed has no copy out. For the
refinement every action is shown to move each message by one step of `Delivery`
or not at all (`EveryStepMoves`, `StepRefines`): `SendSucceeds` is `Send`,
`CommitResult` and `Suppress` conclude, the rest stutters.

`GenerationInv` says of a worker that it holds the lease of its game, unexpired,
unless it is `lapsed` (`HoldsItsLease`), and that on its way to a commit it
carries a valid ticket count, the configured one unless the configuration was
edited (`HasItsCount`). The second part is what makes it harmless that
`generateForGame` reads the configuration before it takes the lease. Of a game it
says (`Backed`) that picks and tickets are there exactly when the run is
generated. Exclusion follows at once: two such workers would both be the holder
of one lease. `Backed` does not use the lease at all: it holds because the batch
is atomic, because `INSERT OR IGNORE` of an equal count adds nothing, and because
`FailedRun` leaves a generated run alone.

### Only model-checked

The six liveness properties `LockedPoolIsResolvedForGood`, `DeferredIsDecided`,
`OpenOrderIsFound`, `PendingIsSettled`, `QueuedIsConcluded` and
`EveryGameIsSettled`, since fairness and `ENABLED` are outside the prover. The two
properties whose runs expect a violation have no theorem, being false.

## 6. Plan

Done: the core of dotCast; execution queue and worker; order reconciliation;
resolver panels; the outbox with its refinement; generation; and the proofs of
all their safety properties. Next:

1. An abstract pool (placed, closed, resolved once) that `DotCastPool` implements
   as long as no late poll writes, and its refinement proof from `PoolInv`.
2. Challenges and reviews of the resolution router, composed with `ResolverPanel`.
3. Sequence gaps and snapshots of the order book reconstruction.
4. Reward budgets of referrals.

## 7. Not modelled

Floating-point estimators, strategy scoring and replay of the trading engine (no
finite abstraction keeps what they are about); scraping, parsing and
presentation (I/O), which with generated and test data are most of the
repository's lines; livestream fan-out and external video and model APIs. The
audit ledger and the creator economy's writes after a settlement are logged and
swallowed on failure and never read by the modelled parts. Of modelled parts:
TWAP slices, partial-stop retries, shadow mode and wire formats of the execution
worker; cost basis, dust positions and log pruning in order tracking; route
classification, challenges, reviews and administrators' actions of the
resolution router; ticket contents, statistics, the daily summary and shadow
trials of the lotto worker; claim order and priority tiers of the outbox (any
claimable row may be claimed).
