# AALGOLAKSHMI V3 in TLA+

TLA+ models of the parts of the trading server that move money and trades, the
TLC runs that check them, and the theorems TLAPS proves about them. Every
definition is translated from the TypeScript under `server/src`;
`PROJECT.json` names the lines each one stands for.

| file | what it is |
|---|---|
| `PaperLedger.tla` | the paper wallet of one key: lock, map, snapshot, Trade collection |
| `WalletContract.tla` | what that wallet promises: the abstract specification |
| `PaperLedgerRefinement.tla` | the two mappings from the wallet to its contract |
| `PaperBook.tla` | one symbol of a paper account: position map, Trade documents, free margin |
| `IndianExit.tla` | one open Indian trade and everything that closes it |
| `LiveOrders.tla` | one symbol of a LIVE crypto account: exchange, Trade documents, map, and the guards between them |
| `IndianEntries.tla` | the entries of one Indian account, and everything that may stop them |
| `Sums.tla` | the sum of a function over a finite set, which `LiveOrders` and `IndianEntries` use for lots and margins |
| `MC*.tla`, `*.cfg` | small instances for TLC, named after the module and the run |
| `*Proofs.tla` | the theorems of a module, and their proofs; `IndianAccountProofs` continues `IndianEntriesProofs` |

## 1. The system

One Node process (`ecosystem.config.js`: one instance, forked) serves an Express
API, runs a dozen timers, and keeps state in memory maps that are hydrated from
MongoDB at start. A Python quant engine answers with advice, a React client
displays. What is hard is concentrated in few places: JavaScript runs one
callback at a time, but every `await` lets every other timer and request in, and
MongoDB is reached by single-document updates and transactions that may abort.

### Components

**Paper wallet ledger** (`services/paperState.ts`, `routes/wallet.ts`).
State: the wallet map (one balance per user, mode, account type and currency),
the promise chain per key that serves as a lock, the `WalletSnapshot` documents,
the `Trade` collection. Operations: `withWalletLock`, `debitWalletAndCreateTrade`,
`creditWalletAndCloseTrade`, `setWalletBalance`, `hydrate`, and the deposit,
withdraw, P2P and transfer routes. Hard: sums computed before an await and posted
after it; a transaction that aborts and is redone as two writes; a crash between
two writes; whole-balance snapshot writes that are not ordered; routes that take
no lock. Correct if: the lock is a mutex and never stuck; no balance goes below
zero; no money appears or is lost; a trade is paid out once; map, snapshot and
trades agree.

**Paper positions** (`services/paperState.ts`, `routes/trading.ts`,
`services/autoTradeEngine.ts`, `services/manualSLTPMonitor.ts`). State: the
position map, one entry per user, symbol, mode and account type; the open `Trade`
document behind each; the wallet. Operations: place-order (open, average, reduce,
close), close-position, the engine's entry, exit and partial exit, the SL/TP
monitor's close, its trailing-stop and funding write-backs. They call the ledger,
and share map and documents with each other. Hard: seven paths, each of which
reads a position, awaits, and writes all of it back; the map is written after the
wallet's lock has gone to the next caller. Correct if: margin is taken and
returned once; one trade per symbol is open; every open trade is in the map, and
every position has an open trade; closed is closed.

**Exits of Indian trades** (`services/indianMarket/autoPilotStateMachine.ts`,
`hardening/distributedCoordinator.ts`, `services/intradaySquareOff.ts`,
`services/indianMarketAutoTrader.ts`, `reconciliationService.ts`,
`routes/indianMarket.ts`). State: the `Trade` document with its status, quantity
and `meta`; the lease `LOCK:POSITION:<id>`; the idempotency records; the wallet.
Operations: the monitor's cycle (10 s) with the exit workflow, the square-off
(30 s, after 15:15), the close route, the recovery of pending exits (60 s).
Hard: four actors on one document, each with a copy of its own; mongoose saves
of single paths; an order that may be rejected or filled in part; a lease that
runs out; servers that stop half way. Correct if: an exit is sold and paid once,
margin is returned in full, a closed trade stays closed, and an exit that failed
can be tried again.

**Live crypto orders** (`services/liveFillGuard.ts`, `services/binanceService.ts`,
`services/manualSLTPMonitor.ts`, the LIVE branches of `routes/trading.ts` and
`autoTradeEngine.ts`). State: the set of blocked entries and its journal on disk,
the exit latch and its back-off, two in-flight sets (`exitsInFlight`,
`liveCloseInFlight`), the position map and the Trade documents; on the exchange,
the position. Operations: the manual order, the engine's entry, exit and partial
exit, the stop monitor, the close route, the operator's clearing of an orphan.
Hard: an order whose answer is lost; a fill that cannot be recorded; a restart in
between; two closers with different in-flight sets. Correct if: a fill is recorded
once or blocks the symbol, across restarts; a position is sold once; a stop that
was hit is served in the end.

**Exchange reconciliation** (`exchangeReconciliation.ts`) and **Sentinel auditor**
(`sentinelAuditor.ts`). They compare exchange, trades and map and repair what
differs, beside everything above; the auditor also repairs wallets by setting
them outright. Hard: what they compare was read at different times. Correct if: a
repair that nothing disturbs leaves the three in agreement, and none takes from,
or gives to, a healthy account.

**Engine's scheduler and gates** (`autoTradeEngine.ts`, `schedulerStateManager.ts`,
`signalBus.ts`, `paperExplorer.ts`, `autoCloseEngine.ts`). State: configurations
per user, cooldowns, peaks, processing keys. Hard: ticks that overlap, limits
checked before an await. Correct if: a user's ticks never overlap, limits and
cooldowns hold when the entry is made.

**Indian entries** (`indianMarketAutoTrader.ts`, `routes/indianMarket.ts`), **risk
manager** (`indianMarket/riskManager.ts`) and **kill switch**
(`security/tradingKillSwitch.ts`). State: `tickInFlight`, `autoExecInFlight`; the
settings document with the daily lock and the panic stop; the maps of cooldowns,
reservations, loss streak, pause and the day's sum; the switch and its document; the
wallet and the Trade documents. Operations: a tick of the daemon,
`/auto-execute`, `/execute-strategy`, `/execute`; `validateTrade`,
`recordTradeOutcome`, the daily rollover; halt, resume, panic, reset. Hard: seven
awaits between an entry's first check and its trade; half of what stops it is in
memory, half in MongoDB; the settings are loaded, changed and saved by everyone.
Correct if: a strategy has one open trade and no two bet against each other; the
limit on open trades holds; the margin is taken once, covered, and saved; a daily
loss locks the day, and the lock stays; no entry begins while trading is halted;
a user's turn comes again.

**Order state machine** (`market/OrderStateMachine.ts`). A table of transitions
with guards against duplicate and late fills; only tests call it in this tree.

**System manager, recovery, circuit breaker** (`systemManager.ts`,
`recoveryManager.ts`, `production/`). Start-up states, child processes, restarts.

**Decision engine, agents, analytics, quantum, market data, client, quant engine,
Rust and C++ prototypes, scripts.** Advice, display, arithmetic and operations:
they decide whether a call is made, and the models leave every such choice open.
`PROJECT.json` lists each with the reason it is not modelled.

### How they interact

```
 routes/trading ──┐                      ┌── routes/indianMarket
 autoTradeEngine ─┼─► position map       │   indianMarketAutoTrader ─► AutoPilot ─► lease, intents
 SL/TP monitor  ──┘        │             │   intradaySquareOff          │
                           ▼             ▼   reconciliation ─► recoverPendingExits
                    paperState: withWalletLock ── wallet map ─► WalletSnapshot
                           └───────────────► Trade documents ◄────────┘
```

All of them meet in the wallet map and the Trade collection. The Indian side uses
the wallet's lock for credits but not, in the close route, for its own read and
write.

## 2. The models

In all of them an action is what Node runs from one `await` to the next; what
runs in between is any other call. Calls (`Jobs`, `Calls`) are a constant set,
each makes one pass through its path, and `pc` is the await it has reached. Data
that no property tells apart is left out: prices, fees, P&L, names, alerts.

### PaperLedger (abstract: WalletContract)

One wallet key, one currency. `mem` is the map, `snap` the snapshot document,
`status`, `margin`, `refund` the Trade collection, `tail` and `ticket` the promise
chain. A call is a debit (entry), a credit (close), a deposit or withdrawal under
the lock, or a transfer beside it. A body runs once the one before it settled,
resolved or rejected, as `prior.then(fn, fn)` does. `DebitTx` and `CreditTx` are the
transaction; it commits, aborts, or commits and is reported failed, and in the last
two cases the fallback repeats its writes one by one. `Apply` posts the delta on
the balance as it is by then. `Persist` is a snapshot write that lands later.
`Restart` is a crash and `hydrate`. Faults are a constant, so that a run says which
it allows. Two histories (`external`, `book`) say what the balance should be.

`WalletContract` opens, closes and moves at one point in time, never below zero.
`PaperLedgerRefinement` maps the ledger to it twice: in memory (the map, with the sum the
call in the lock still owes already posted) and on disk (the snapshot).

### PaperBook

One symbol. `pos` is the map's entry, `status` and `docQty` the documents, `mem`
the free balance, `seen` and `plan` what a call read and will write, `chain` the
wallet's promise chain. `pending` is one micro-step the code has and a reader
hardly sees: when a body ends, the next one starts before the caller of the first
writes the map, because the chain subscribed first. A unit of quantity costs and
returns one unit of margin, so that what is lost or made is visible at any price.
Debits and credits are single steps: that is what the ledger's contract says of
them.

### IndianExit

One trade, one or more servers. `doc` is the document; `copy` what each job has of
it in memory and `dirty` the paths its next save will write, since mongoose saves
only those and `meta` is one path. `lease` and `intents` are the coordinator's
two collections. `Register` to `Undo` follow `processTick` through acknowledge,
hold, pending, order, credit, release and save, with every throw on the way ending
in its `catch`. A record less than 50 ms old is taken for the one just inserted
(`recent`, `RecordAges`), unless the same server has its key in memory (`registry`,
which a recovery empties). A scene fixes, per run, the kind of each job, where prices
may be, which faults may occur and whether jobs overlap. Margin is counted in units of
quantity. Left out: `inFlightLocks` (one daemon, whose cycles do not overlap), and
the coordinator's own in-memory collections, to which it falls back when MongoDB is
away or one of its writes throws.

### LiveOrders

One symbol. `held` is the position on the exchange, in signed lots, apart from the
`Spare` coins a spot account holds besides; `docs` the Trade documents; `pos` the
map's entry; `blocked` and `journal` the guard in memory and on disk. An order
rejects, fills, fills in part, or loses its answer (`Send`); then it is asked for
by its client id (`Query`), recorded with retries (`Record`, whose create may throw
after it has written, and whose look for that may throw too), or journaled and blocked
(`JournalOrphan`). A 5xx is an answer of its own: `AMBIGUOUS_RE` is meant to know it
(`liveFillGuard.ts:131`) but wants the number behind a colon, where
`binanceService.ts:302,322` puts it in front, so the order counts as rejected though it
may have filled (`Send`, fault `http`). `EntryCall` to
`EntryInstall`, `ExitCall` to `ExitRemove`, `MonitorTick`, `CloseFind` to `CloseMap`,
`ReconRead` to `ReconAdd` and `AuditFind` to `AuditClose` are the paths of the other
calls, one action per await. A scene fixes the kind of each call, the market (spot
or futures), the account at the start, the faults, and whether calls overlap.
Left out: prices, P&L and stop levels (a stop is hit or not, freely); the live
barrier (taken as open); the engine's shorts, which mirror its longs; rounding to the
exchange's lot size.

### IndianEntries

One account, one underlying. `trade` has a document per entry, `cash` and `saved`
are the wallet and its snapshot, `settings` the risk document, `risk` and `cooling`
the risk manager's maps, `halted` and `haltedDoc` the kill switch. Every use of
`getSettings` runs through `Load` and, on a new day, `Roll`: a save writes only the
paths that changed, so that `Roll` clears a lock only if its copy had one. Where
MongoDB is away, the read or that save throws, `Mock` stands in: no lock, no panic stop,
and a save that does nothing. Entries go
from `AutoStart`, `DaemonTick`, `StrategyStart` or `OrderStart` through `Vet`,
`Reserve`, `Place`, `Debit`, `Persist` to `Create`; exits from `MonitorStart` or
`SquareStart` to `Credit` and `Outcome`. A monitor's exit may be refused (`ExitRefused`),
and one that a restart cut off is recovered (`Recovered`): either gives the trade back
(`Reopened`). `boot` is how far a server that restarts has come: it listens first
(`index.ts:642`), then `Connect`, `SwitchRestored`, `Hydrated`; the daemons start at the
end. The clock lets cooldowns run out and days
begin (`CooldownOver`, `LossesOver`, `NewDay`) when no call is under way: they last
minutes, a call seconds. Histories: `locked` (a loss took the lock today), `stopped`
(a halt was answered, no resume asked for since), `again` (an exit gave the trade back).
Left out: which strategy is proposed and at what price (`scene.signals`); opening
hours, expiry and instrument gates (fault `reject`); `IndianTradeGroup`, which is
only displayed; duplicate fingerprints and strike cooldowns, which last no longer
than a strategy's cooldown as configured (15 minutes; below 3 they would last
longer); P&L and charges in the wallet, so that margin alone has to balance; two exits
of one trade, and a recovery that overlaps an exit, which are `IndianExit`'s; the other
limits of the mock, taken as those of the document; a snapshot of the wallet that is on
its way while `hydrate` reads the others. Trades have distinct symbols,
so that `hydrate` closes none of them as a duplicate.

## 3. Runs

| run | shows |
|---|---|
| `ledger_traffic` | two entries, two racing closers, a deposit and an unlocked transfer in, transactions that abort: no overdraft, no money lost, `MemoryContract` |
| `ledger_crash` | three entries and two closers on a replica set, a crash anywhere: snapshot and trades agree at every step (`Durable`), `DiskContract`, and the map is on disk once all is quiet |
| `ledger_liveness` | every fault at once: each queued call settles |
| `book_separate` | four orders; or four closers; or four of the engine's entries, exits and trims: each family alone keeps margin, one trade, map and documents |
| `book_together` | families mixed, every write may fail: a closed trade stays closed |
| `book_handoff` | **violated**: an order queued behind a closer works on the position the closer is about to remove |
| `exit_paths` | four monitor cycles on two servers with partial fills, rejections, leases that run out and crashes, and two on one server whose exits end within 50 ms of their record; three square-offs; every sequence of three jobs of any kind with saves that throw; every sequence of four with partial fills; single jobs with every throw |
| `exit_squareoff` | **violated**: the monitor saves EXIT_PENDING over the square-off's claim; both return the margin |
| `exit_recovered` | **violated**: after a crash and recovery the trade is open, but its trigger is spent |
| `live_orders` | 336 scenes: orders of both sides; engine, monitor and close route; lost answers, 5xx, rejections, partial fills, failing reads and writes, a full disk, restarts; repairs in between: nothing is hidden, recorded twice or sold twice, but for the faults the properties name; a block stays, a stop is served, an audit comes to an end with exchange and book in step |
| `live_reconciled` | **violated**: no fault, an entry and a reconciliation: the fresh trade is closed as stale |
| `indian_entries` | 55 scenes: daemon, buttons, strategies and orders at once; with exits, refused exits and recoveries, cooldowns, new days, restarts, requests to a server that starts, settings that cannot be read, failing writes, halts and panic: twelve properties of what may stop an entry and of its margin |

What the passing runs leave out is what the violated ones show. Orders and closers
share no promise beyond `ClosedForGood`: `book_together` mixes them and claims only
that. The Indian jobs that overlap in `exit_paths` are monitors among themselves,
and square-offs among themselves; other kinds follow one another, because
overlapping pairs do break `ReturnedOnce` (square-off and monitor, two close
routes) or `ClosedForGood` (recovery and monitor). Two servers in the race keep their
registrations of an exit 50 ms apart (no fault `window`): within 50 ms both exit, which
breaks `SoldOnce`, and the lease does not prevent it, for it is given back (654) before
CLOSED is saved (662). On one server the keys in memory do.
Live orders and closes of one trade are kept apart in `live_orders`, and orders and
exits too, because each pair breaks `NoHidden`; an engine's exit and a route's close,
because they break `NotOversold`. An order larger than the opposite trade it meets
closes that trade, and the rest of its fill is in no trade (`routes/trading.ts:927`);
`NoHidden` bounds what is held from above, and no scene has a buy larger than a short.
`NoHidden` is silent on five faults that the code does not notice and that hide lots
(`Unnoticed`): a 5xx, or an accepted Convert quote without an answer, that filled; an
order that was queried before it was final; a fill while MongoDB is away, which is
answered 500 and neither recorded nor blocked (`routes/trading.ts:999-1001`); and a
look for a written trade that throws. The last gives one fill two trades
(`liveFillGuard.ts:116`; `Trade.ts` has no unique index on the client's order id), so
`OneRecord` is silent on it too. On spot `NotOversold` supposes that every exit learns
of its fill and books it. The scenes run with all of these faults all the same: the
other properties hold under them.
Reconciliations run when nothing else does, because
`live_reconciled` shows what they do otherwise. In `indian_entries`, `NoOpposite`,
`SavedCovers` and `NotOverdrawn` leave `/execute-strategy` out: it was seen to break
each, and the hazards say how. The guards and the daemon's count look for OPEN trades:
an entry that is let in while an exit is under way stands beside the trade when the exit
is refused or recovered, so `OneOpenPerStrategy`, `NoOpposite` and `WithinLimit` speak
of the trades no exit has given back (`Standing`). While a server starts it trades with
the switch off, without guards and on a balance that is not read yet: `HaltHolds`,
`OneOpenPerStrategy`, `NoOpposite` and `SavedCovers` suppose that no request comes by
then. `LockKept` leaves out, where calls overlap, a lock of the day before, which two
loads that both find it lift twice, the second time with what was locked in between.
`LossLocks` leaves five things out. Settings that cannot be read or saved: the loss is
counted against a mock and its lock is not written. Outcomes that
overlap, in which the second save of the settings lifts the lock of the first. Wins on
a day with square-offs, and square-offs that a crash cuts short: a square-off saves the
trade's result (`intradaySquareOff.ts:163`) before `recordTradeOutcome` reads the sum of
the day (`riskManager.ts:656`), which therefore has the first outcome already and adds
it again, where the comment at 609 to 612 wants a sum; and a result whose outcome was
never reported is never counted. Queries of that sum that fail: the `catch` at 637
takes the day for zero.
The ledger's traffic has transfers in only: one out, between an entry's check and
its debit, overdraws the wallet.
`SnapshotCaughtUp` is claimed for trades only: snapshot writes of unlocked routes
may land in either order.

**Bounds.** Ledger: 3 to 6 calls, 3 documents, amounts chosen so that two entries
cannot both be paid from 10. Book: 4 calls, 3 documents, quantities 1, 2 and 4 out
of an equity of 5, from a flat account or a long of 2 or 3. Exits: 4 jobs, quantity
3 (three partial fills), 2 servers. Every fault needs at most two calls and a third
to see the result; a fourth lets one more be queued behind.
Live orders: 4 calls, 5 documents (one at the start, one per call), amounts of 1 and
2 lots from flat or a long of 2, 2 spare coins, which is what one wrong sell takes.
Indian entries: up to 7 calls (three entries, three exits and a fourth entry are what
a win, two losses, the pause and its effect take), two strategies that bet against
each other, margins 2, 2 and 3 out of 6 so that two or three entries exhaust it, a
limit of one open trade, of two losses in a row and of a daily loss of 2, outcomes
-1 and 3. Each call makes one
pass, so runs end: `CHECK_DEADLOCK FALSE` is set because a finished run has no step
left. Document ids are symmetric in the ledger and the book.

**Fairness.** The MongoDB driver answers or times out (server selection 5 s, socket
45 s) and Node runs every callback that is ready, so a call that has been made goes
on: `ledger_liveness` has weak fairness of each call's steps, `live_orders` too, and
`indian_entries` of the steps of all calls together, which suffices because each makes
one pass. `live_orders` assumes more for `ExitServed`: the monitor's timer fires
(weak fairness of `MonitorStart` and of the end of its back-off), and an exchange
that is asked again and again fills in the end (strong fairness of a `Sell` that
fills). Nothing is assumed of requests being made, of reconnection, or of faults.

**Findings** quote the comment or document each violated run contradicts.

## 4. Theorems

All are proved by tlapm for every value of the constants that meets the modules'
`ASSUME`s (names of documents differ from the null value, amounts are naturals,
orders are not empty), which TLC evaluates on the runs' instances.

`PaperLedgerProofs`:
- `TypeCorrect`, `MutualExclusion`, `ClosedForGood`: any calls, any faults. The
  mutex needs `ChainInv`: tickets are distinct, none is beyond `tail`, and a call
  that has started has every ticket before it settled. Exclusion alone is not
  inductive: it does not say who may start next.
- `NeverOverdrawn`: under `NoTransferOut`, the hypothesis that no transfer leaves
  the wallet beside the lock. `MoneyInv` adds that the call that is spending was
  shown a balance that still covers it; only one can be (`MutualExclusion`). A
  run with such a transfer shows that the hypothesis is needed.
- `MoneyConserved`: under `AbortsOnly`. `BookInv` follows the one sum in flight
  through the steps that write it, move it along and post it.
- `DiskConsistent`: under `CrashesOnly` and `TradesOnly`. `DiskInv` ties `base` of
  the call in its transaction to the snapshot.
- `RestartFindsBalance` (`SnapshotCaughtUp`): every call takes the lock
  (`LockedOnly`), and a transaction commits, aborts or is cut off by a crash, but is
  not reported failed after it committed (`KnownCommits`). `CatchUpInv` says, per
  await of the body that runs, which of map and snapshot has its sum, and that they
  are level when no body runs.

`PaperLedgerRefinementProofs`:
- `DiskImplementsContract` and `MemoryImplementsContract`: every step of the ledger is
  a step of `WalletContract`, or none. On disk the point is the transaction's commit,
  and `DiskInv` shows the contract's guard to hold there. In memory it is the moment
  the documents have the trade: `Posted` adds to the map the sum of the call in the
  lock from then until `Apply`. That there is one such call is `MutualExclusion`, that
  its sum is covered is `MoneyInv`; a step of another call moves `Posted` by its own
  sum only. The hypotheses are those of `DiskConsistent`, and of `MoneyConserved` and
  `NeverOverdrawn` together.

`PaperBookProofs`:
- `TypeCorrect` and `ClosedStaysClosed`: all seven paths, all faults. The invariant
  `Inv` has seven parts: `TypeOK`; `Turn`, whoever is in a body heads the chain;
  `Held`, what a closer has seen is a position; `Paths`, which labels a kind can
  reach; `Decided`, what an order has planned; `Funded`, an entry in its transaction
  can still pay; `Sized`, an open document has a quantity. Free balance in `Nat`
  already needs all of them.
- The four properties of the book at rest, for each family of paths that
  `book_separate` runs by itself, any number of calls and any quantities:
  - `OrdersKeepEquity`, `OrdersShareOneTrade`, `OrdersKeepWatch`, `OrdersLeaveNoGhost`
    under `OrdersAlone`: creates may fail, updates and snapshot writes may not (an
    order moves the wallet first, so such a failure does lose margin). `OrderBook` says
    what holds between bodies and, inside one, between decision, document and map.
  - `ClosersKeepBook` under `ClosersAlone`: close routes, engine exits and monitors,
    claims may fail. `ClosersBook`: the position is the book, or all is paid out and
    the next micro-step removes it (`pending`); one document is all there is; and what
    a closer has read of it is still its quantity, so that whoever wins the claim
    credits the right margin.
  - `EngineKeepsBook` under `EngineAlone`: entries, exits and partial exits; updates may
    not fail. `EngineBook`: one call is at work, because `exitsInFlight` admits one exit
    and an entry finds no position to exit, nor an exit one to enter; map, document and
    wallet lag behind each other by the stage of that call.
- `SeparateUntouched` (`ClosedUntouched`): under any of the three, no step writes to a
  closed trade. An order in the lock has the open one, a closer writes no quantity,
  and a partial exit holds the one trade that its caller alone may close.

`IndianExitProofs` (any number of servers and monitors, any quantity, any partial
fills):
- `RaceSellsOnce`, `RaceReturnsOnce`, `RaceKeepsMargin`, `RaceClosesForGood` and
  `RaceTyped`, under `Racing`: monitors are the only jobs, one of stop and target is
  within reach, the mode is not MANUAL, nothing throws between the fill and its save
  (fault `late`), and servers register an exit 50 ms apart (no fault `window`). What
  sold is the whole argument: the key of an exit is the trade, the trigger and the
  quantity sold so far. `RaceInv` says that one job at most is past its record
  (`OneActs`); that this job's copy shows exactly what is sold, while every copy and
  document that shows less leads to a key that is spent (`Frontier`); that only the
  last fill closes (`ClosedLast`); and that the wallet is behind by the fill in hand
  (`Paid`, `Settled`). None of these is inductive without the others: a stale copy is
  harmless because its key is spent, and the key is spent because whoever sold past it
  registered it first.
- `InTurnKeepsMargin` (`MarginKept`, `ReturnedOnce`, `SoldOnce`) and
  `InTurnClosesForGood`, under `OneByOne`: jobs of all four kinds and any number, no two
  at once nor within 50 ms of the record of the one before, with both triggers in reach, partial fills, rejections, MANUAL mode and saves
  that throw; nothing throws or crashes between wallet and document, and no square-off
  follows a partial fill, whose margin it would return again. `SoloInv` has, per await
  of the one job (`Stage`), how far document, copy and wallet have come. Its hard part
  is what a save that throws leaves behind: a trade that stays `EXIT_PENDING` with a
  copy gone, and paths that stay dirty and ride along with the next save.
- `SquareOffsReturnOnce`, under `Squaring`: square-offs of any number of servers at
  once, with crashes. The claim is the argument (`SquareInv`): one `refund` follows it.
- The record of intents gives one exit per key once it is 50 ms old; until then only the
  lease does (`Leased`: while a record is young, the exit it is of, or a process that
  stopped under it, holds the lease, or nobody acts and the record is of the quantity
  sold so far, which no copy that could still exit shows). `Racing` therefore supposes
  what the code does not see to: a lease outlives the registration it was taken for and
  those 50 ms, and is given back no sooner. Later it may run out or be taken at any time.
  Square-off, the close route and the recovery register nothing, which is why the race
  is of monitors only.

`SumProofs`: what a sum over a finite set is, whatever the summand: the sum of integers
is one, it changes by what one summand changes, it is no less than any of its summands
if none is negative. The community modules define the sum by recursion on a set that
loses a `CHOOSE`n member, so that these facts need an induction on subsets of a finite
set; the library's schema takes an operator and cannot be used, so `SubsetInduction` is
proved here for a set of subsets, from a least counterexample.

`LiveOrdersProofs` (any scene: any calls, amounts, markets and faults):
- `TypeCorrect` and `FillRecordedOnce`. `IInv` says besides what a call that is
  flattening or placing has in hand (`Flattening`, `PlacedByOthers`), and
  `RecordedByCall`: a document names a call only if that call is past its fill. Then
  a retry of a create that has written finds its document, and no other call's, if its
  look for it does not throw (fault `lookup`).
- `BlockStays`: under `Journaled`, what is blocked is in the journal unless the disk
  failed, so that a restart blocks it again.
- `OrdersHideNothing` (`NoHidden` for manual orders and engine entries in any number,
  on a book that is long). `General` says where the calls of a kind may be and how
  they take turns; `Covered`, that what is held is at most `Recorded + InHands`, or the
  symbol is blocked. Each step moves as much from one to the other (`SumProofs`);
  the one that might not is an order's write, which adds to the trade it found: it
  holds the lock from the look to the write (`Locked`), so that trade is as it was
  (`Found`), and it writes in its first try (`FirstTry`). The hypothesis `[]LongBook`
  is needed: an order that buys more than an open short closes the short, and the
  rest is in no trade (`routes/trading.ts:923-956`). This theorem and the next say
  nothing of the faults of `Unnoticed`.
- `SellersHideNothing` (`NoHidden` for the engine with its monitor, and for the close
  route beside entries). `EngineInv`: one call buys or sells at a time, and map and
  trade go together (`Followed`); `Above` bounds what is held by what the map says, or
  by the rest of the call that has sold. `CloseInv`: a trade is claimed by one close,
  which knows its quantity, and one trade is open at most.
- `NeverOversold`. On spot, where lots of the same coin are in reach that no trade
  bought, by `Below` for the engine and `Spared` for the route: while every exit gets
  its answer and books it (`Unbooked`) and no fill has two trades, no less is held than what the next exit may sell. On
  futures, in any company but that of manual orders and audits, by `Reducing`: the
  exits are `reduceOnly`, so that what two of them ask for in vain does no harm.
- `AuditsConverge`. `Undisturbed`: of calls kept apart one is under way, and the trades
  that an audit has in hand are those that are open.

`IndianEntriesProofs` (any scene, any costs and limits, any number of strategies):
- `TypeCorrect`, with `Paths`: which calls hold a trade, and where. The streak is a
  natural and the count of open trades is finite because of it.
- `OneOpen`: a strategy has one open trade that no exit has given back, if no entry comes
  before MongoDB is connected, and no query of the guards throws in a scene where the map
  of cooldowns may be lost or run out. `OneInv`: who is past its reservation has its
  strategy in `cooling` (`Reserved`) and
  holds it alone (`HeldOnce`), while no trade of it is open (`HeldUnopened`); who has a
  clear answer from MongoDB either still sees no open trade or finds the strategy
  cooling (`ClearOrCooling`); and where the query may throw, every open trade's strategy
  cools (`OpenCools`). `ClearOrCooling` part is where MongoDB and the maps cover for
  each other: a trade created after the query was by one who reserved first. A
  restart empties the maps and ends every call, so that the first four hold for want of
  calls.
- `HaltStops`, if the switch's document can be written and read and nobody is answered
  before it has been: `SwitchInv` says that while `stopped`
  both the switch and its document are off, and that the operator's requests, which
  come one at a time, are at most one in its write.
- `NeverOverdrawn`: no balance below zero without `/execute-strategy`.
- `NeverOpposite`: at most one automatic entry is past its check (`TurnInv`), the one
  that has the turn; what it was told of open trades still holds (`AgreeInv`).
- `LockStays`, in two halves. Within a day that began without a lock, for calls that
  overlap: no copy of the settings holds a lock of the day before, so that no save lifts
  one, and an outcome is counted after the rollover (`LockInv`). Over new days and with
  yesterday's lock on, for calls one after the other: only a call that found no lock of
  today rolls over (`ApartInv`). Overlapping loads that find yesterday's lock can lift
  today's (see the hazards), and the property says so.
- `LimitHolds`: one tick is under way at a time, and `tickInFlight` says so (`TickInv`);
  so the count a tick has in hand bounds the open trades until its own is created
  (`LimitInv`). What an exit gives back comes on top, and settings that cannot be read
  are excepted, whose mock has a limit of its own.

`IndianAccountProofs` (the same, for trades from entry to exit):
- `CoolsForTrade`: `CoolInv`, that the strategies that cool down are those of recent
  trades and those that an entry holds, and no strategy is both. A reservation that is
  given back is therefore nobody else's.
- `MarginAccounted`: `Account` is the balance, what open trades hold and what is due by
  calls that are between the two; each step moves as much from one to the other. It
  rests on `DocsInv`: an exit under way has a trade in hand that nobody else has, in the
  status its path gives it. `AccountInv` is an equation for scenes without failing
  creates and crashes, which forget money but make none, and without settings that
  cannot be saved: there an exit that has paid gives its trade back (`RelockFails`).
- `CrashesMakeNoMoney`, for entries after the wallets were read: `SavedInv`, that the snapshot lags behind the map by what the
  holder of the wallet's lock has taken, and by nothing without one.
- `LossTakesLock`, while the settings can be read and saved: `LossInv`, per await of the one call under way (`Single`): the sum the
  risk manager keeps is the day's, or short of it by the outcome in hand (`SumAt`); the
  settings that are loaded are of the day (`SettingsAt`); and a sum beyond the limit has
  its lock, or the lock is the next write (`LockedAt`). `TodayInv` ties the realized sum to
  the documents, from which a restart reads it again.

**Only model-checked.** Liveness: `EveryCallSettles`, `ExitServed`, `TurnEnds` need
fairness and `ENABLED`. Every other property of the passing runs has a theorem, but
some runs go further than it does: `exit_paths` adds late throws, and restarts with
recoveries in between; `live_orders` adds to `NoHidden`
audits, reconciliations and companies of paths that the theorems keep apart.
`Actionable` and the other violated properties have counterexamples instead.

## 5. What is left, and in which order

1. **IndianEntries with IndianExit**: two exits of one trade beside the entries, and the
   recovery that overlaps an exit.
2. **LiveOrders**: shorts; `NoHidden` of audits that run by themselves, and of repairs.
3. **IndianExit**: overlapping close routes, two trades of one wallet, square-off
   after partial fills, the reopened trade that sells one more; the race with both
   triggers in reach; the in-memory coordinator.
4. **Scheduler**: ticks, cooldowns and limits of the engine, above the book, with
   the close route's cooldown given in ms where minutes are meant
   (`routes/trading.ts:1944`).
5. **PaperBook**: hydration, which closes a second open trade of a key
   (`paperState.ts:647`), and the sentinel's repairs of wallets
   (`sentinelAuditor.ts:283`); stop and target, which an order's new record drops
   (`routes/trading.ts:1242`); an abstract book, and the proof that each family
   implements it.
6. **PaperLedger**: the reset (`routes/trading.ts:1492`) and allocation routes.
7. **Hardening controls**, **OrderStateMachine** and the system manager's states.

**Not modelled.** Two thirds of the repository is a web client, telemetry,
statistics, numerical decision layers and prototypes. They keep no state that trades
or money depend on, or decide by arithmetic whether a call is made; the models take
every such decision as a free choice, and lines that are a free choice have nothing
to translate. Requests are checked for their owner by middleware, which is outside
the models too. `PROJECT.json` lists each part with its reason.

## 6. Running it

```
tlc -workers 2 -config ledger_traffic.cfg MCPaperLedger.tla
tlapm PaperLedgerProofs.tla
```

Each run takes seconds to a minute, the longest proofs (`LiveOrdersProofs`,
`IndianAccountProofs`) some minutes each.
