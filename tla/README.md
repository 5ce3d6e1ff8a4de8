# Formal models of trade-automation-mvp

TLA+ modules of the parts of the platform that decide whether an alert becomes
an order and an order is executed once: both webhooks, both alert processors
with the copier and the risk rules, both order processors, the hardened copier
with its idempotency keys and rate limits, the circuit breaker, the advisory
locks, the mock broker with the reconciliation at startup, and the BullMQ queues
between them. TLC checks each module on small instances, TLAPS
proves the safety properties that matter most for every instance.

Line numbers refer to `src/apps/api/src/` unless another path is given.

## 1. The system

TradingView posts an alert to the webhook, which stores it in PostgreSQL and
adds a job to the `alerts` queue. An alert worker turns the alert into a trade
request, checks every mapped account, and the copier stores one order per
account and adds a job per order to the `orders` queue. An order worker places
the order with a broker adapter and records the execution. Operators set a
kill switch and enable or disable accounts; a circuit breaker does the latter
by itself.

There are two entry points over the same database and queues. `index.ts` (the
"MVP path") wires `webhook/handler.ts`, `processor/alertProcessor.ts` and
`processor/orderProcessor.ts`; `indexHardened.ts` (the "hardened path") wires
`webhook/handlerHardened.ts`, `processor/alertProcessorHardened.ts` and
`processor/orderProcessorHardened.ts`. Both alert processors use
`copier/engine.ts`; `copier/engineHardened.ts` is wired by neither.

Nothing in the process is shared-memory concurrent: the concurrency is that of
handlers and jobs that interleave at every `await`, of several worker
processes, and of BullMQ handing a job to a second worker while the first still
runs. All shared state is in PostgreSQL and Redis, except the kill switch of
the webhook, which is a field of `config`.

### Inventory

| component | state it keeps | operations | what is hard | what makes it correct | model |
|---|---|---|---|---|---|
| Hardened webhook (`webhook/handlerHardened.ts`, `services/idempotency.ts`, `services/rateLimit.ts`) | `alerts_received`, `signal_cooldowns`, `config.features.globalKillSwitch` | handle a delivery; toggle the switch | duplicated deliveries racing, row saved and job not, two copies of the switch, restarts | queued at most once, never after a kill; a duplicate answer means it is queued | `AlertIntake` |
| MVP webhook (`webhook/handler.ts`) | `alerts_received` | handle a delivery | SELECT then INSERT, row saved and job not | a stored alert is queued, once | `MvpAlertPath` |
| Queues and workers (`jobs/*`) | BullMQ jobs in Redis | take, acknowledge, retry, stall | at-least-once delivery, two runs of one job | every job ends | `JobQueue` |
| Hardened alert processor (`processor/alertProcessorHardened.ts`) with the copier (`copier/engine.ts`) | `trade_requests`, `alerts_received.processed_at`, `orders_submitted`, `dead_letter_queue` | process an alert | retries and overlapping runs, order saved and job not, checked accounts versus traded accounts | fan-out bounded by the retries; completed means processed; failed means dead-lettered; undisturbed means settled and queued; a refused request has no order | `AlertProcessing` |
| MVP alert processor (`processor/alertProcessor.ts`) | same | process an alert | same, fewer guards | fan-out bounded over all deliveries of an alert; books balance | `MvpAlertPath` |
| Risk engine (`risk/engine.ts`) and sizing (`copier/engine.ts`) | `risk_rules` (read), what orders and executions left behind | `checkTrade`, `applyFilters`, `calculateSize`, `getOrderSide` | rules that read the results of earlier trades while these are still being filled; boundaries | an order keeps the limits of its mapping; sequences of orders keep those of the rules | `TradeRules` |
| Hardened order processor (`processor/orderProcessorHardened.ts`) | `orders_submitted` (status, version), `executions`, the broker's orders | execute an order | overlapping runs, failure after the placement, error path that fails, kill switch | one placement per claim, one account at a time, a settled order stays settled, a set switch lets only the runs past it place | `OrderExecution`, `OrderDesk` |
| MVP order processor (`processor/orderProcessor.ts`) | same without version | execute an order | failure after the placement is retried | placements bounded | `MvpOrderExecution` |
| Circuit breaker (`services/circuitBreaker.ts`) | `account_circuit_breakers`, `broker_accounts.is_disabled` | `recordFailure`, `recordSuccess`, `canTrade`, manual switch | read-then-write across statements, two tables | opens only after the threshold, follows its diagram, closes again | `CircuitBreaker` |
| Advisory locks (`services/lock.ts`) and the pool (`db/index.ts`) | session locks of pooled connections | `withLock`, `withMultiLock` | failing statements, dying sessions, pool limit, lock order | exclusive, not leaked, nobody waits for ever | `AdvisoryLock` |
| Broker adapters (`brokers/*`) and `POST /api/accounts/:id/flatten` | mock orders and positions, in memory | connect, place, flatten | positions enlarged, closed and reversed; iteration over a list that is spliced; lost with the process | the position is what the fills add up to | `PositionBooks` |
| Reconciliation (`services/reconciliation.ts`) and `startServer` (`indexHardened.ts`) | report tables that nothing reads | reconcile the accounts at startup | two reads between which orders move; an error path that fails | a symbol is reported exactly when fills of it were lost or not recorded; the server starts | `PositionBooks` |
| Dead letter queue (`services/deadLetter.ts`) | `dead_letter_queue` | `addToDLQ`, reports, cleanup | written from two places, each may fail | a job that failed for good has an entry | in `OrderExecution`, `AlertProcessing` |
| Hardened copier (`copier/engineHardened.ts`) | trade requests' orders, `idempotency_keys`, `orders_submitted` | `copyTrade`, `copyToAccountWithSafety` | calls for one request and one account that interleave, a reservation that outlives the call that made it, keys that expire | orders within the rate; one order per life of its key; a success is an order in the queue | `HardenedCopier` |
| Idempotency keys (`services/idempotency.ts`) | `idempotency_keys` | `insertAlertAtomic`, `reserveOrderExecution`, `cleanupExpiredKeys` | a key longer than its column | one reservation per life of the key | `HardenedCopier` (order keys), `AlertIntake` (the alert's row) |
| Rate limits (`services/rateLimit.ts`) | none of its own: it counts rows of `orders_submitted` and `trade_requests` | `checkRateLimit` | count, and insert later; a count that includes the caller | never more than the limit per window | `HardenedCopier`; one verdict in `AlertProcessing` |
| Heartbeat (`services/heartbeat.ts`) | `worker_heartbeats` | send, `getSystemHealth` | - | - | not modelled: nothing calls `getSystemHealth`, the rows are written and deleted |
| Operator routes (`routes/*`) | none | kill switch, enable, disable, flatten, reads | two writes of the switch | see the webhook | the writes, in the modules that read them |
| Server lifecycle (`index.ts`, `indexHardened.ts`) | none | start, stop, periodic cleanups | a restart at any time | what was stored is not lost with the process | crashes and restarts in `AlertIntake`, `MvpAlertPath` and the processors, the start in `PositionBooks`, the cleanup of keys in `HardenedCopier` |
| Execution log, configuration, schema, dashboard, deployment | - | logging, reads | - | - | not modelled, see section 6 |

## 2. Modules

Each module translates one component, or two that share their state; its
header names the files. Common conventions: a *run* (or *call*, *delivery*) is
one execution of the handler with its local variables in a record, `at` is the
awaited statement it will execute next, and each action executes one such
statement with everything up to the next `await`. A statement that fails, a
worker that dies, a queue lock that expires are actions of their own, bounded
by `budget`. Definitions under a comment that begins with "Plausible bug" are
not part of the specification: they are the mutated forms against which the
properties are tested.

* **`JobQueue`** - BullMQ as the processors see it. A job is waiting, active
  (with an owner), completed or failed; `StartJob`, `SettleJob` and `StallJob`
  are the moves. A worker that lost its job to a stall goes on and its
  acknowledgement is ignored. The bounds of failures are its constants too.
  `AlertProcessing`, `MvpAlertPath` and `MvpOrderExecution` EXTEND it.
  (`OrderExecution` has its own copy of these
  moves because its proofs are about the joint record.) BullMQ itself is not in
  the repository; these definitions are external, taken from the options in
  `jobs/queues.ts` and the handlers in `jobs/workersHardened.ts`.
* **`OrderExecution`** - `processOrderJob` (hardened): `CheckKillSwitch`,
  `LoadOrder`, `LoadAccount`, `RiskCheck`, `RiskReject`, `AcquireLock`,
  `Submit` (the versioned UPDATE), `Place`, `ReleaseLock`,
  `UpdateOrderWithExecution`, `RecordExecution`, and the catch block
  `CatchError`, `AddDeadLetter`. Every UPDATE of a row increments its version
  (the trigger in `db/schema_hardening.sql:204`). Errors keep only what the
  catch block tells apart: permanent, fatal, retryable. `filled` stands for
  `filled` and `partially_filled`, the statuses the two adapters return.
* **`OrderDesk`** - what that processor promises the broker, without queue,
  runs, retries or failures: each account has a desk for one order, an order
  comes to it under the version that was loaded for it (`Admit`), is claimed if
  the row still has that version (`Claim`), and is then placed (`Place`), once
  and under a version it was never placed under; it may leave at any time. Rows
  are updated otherwise as well (`Update`). In the refinement mapping the order
  at the desk is that of the run which holds the account's advisory lock
  (`AtDesk`): a claim by a run that has lost the lock, a placement without a
  claim, or a second one after it, is no step of `OrderDesk`.
* **`MvpOrderExecution`** - the same component for `orderProcessor.ts`, which has
  no version, no lock, and rethrows every error. Its names differ from those of
  `MvpAlertPath` (`OrderNext`, `orderRun`, ...), so that one module can prove
  theorems of both.
* **`CircuitBreaker`** - the row of one account's breaker and its
  `is_disabled` flag. Each SELECT, UPDATE and INSERT of `recordFailure` and
  `recordSuccess` is a step, what was read is kept in `call`. Order runs and
  alert runs are reduced to the points where they consult or report to the
  breaker. `opened` is null, recent or old; `Elapse` makes it old.
  `MCCircuitBreaker` adds a history variable, `overlapped`: two runs have been
  under way at the same time.
* **`AlertIntake`** - one request per delivery. `SaveSwitch` and `ApplySwitch`
  are the two writes of the kill switch route; `Crash` restarts the server,
  which reads the switch from the environment.
* **`AlertLedger`** - what both webhooks promise of an alert, and no more: it is
  unknown, stored, queued, killed or lost, and has one job if it is queued and
  none otherwise. An alert is stored once; from then on it is queued, or killed,
  or, only after something has failed, lost; the last three are for ever.
  `AlertIntake` and `MvpAlertPath` INSTANCE it with a refinement mapping: the entry of an alert is
  read off its row, the jobs that were added and the delivery that is about to
  enqueue (`Entry`), the jobs are counted, and `failed` is a budget that is no
  longer full. `ImplementsLedger` is the refinement, a theorem of both.
* **`HardenedCopier`** - `copyTrade` of `engineHardened.ts`: `Begin` loads the
  mappings of a trade request, `NextAccount` turns to one, and
  `copyToAccountWithSafety` is `AcquireLock`, `CheckAccount`,
  `CountTradesInWindow` for each window, `RecordTrade`, `LoadMappingConfig`,
  `ReserveOrderExecution` or `FindDuplicate`, `PersistOrder` and `Enqueue`.
  `CleanupExpiredKeys` is the hourly timer of `indexHardened.ts`. Nothing calls
  this class, so its callers are free: several calls, for the same trade request
  too. Filters, sizes and sides are `TradeRules`' subject; here they let the
  trade pass or not. An order of a trade request and an account is a slot, with
  the times its row was inserted and its reservation ends, so that the limits
  and the expiry can be stated. The locks are taken to work (`AdvisoryLock`
  says when they do), the clocks of Node and PostgreSQL to be one. The history
  variables are `added`, how often an order was queued, and `lost`, the orders
  whose reservation was made by a call that then failed.
* **`AdvisoryLock`** - callers of `withMultiLock` (`withLock` is the case of
  one lock) on a pool of sessions. A statement that fails aborts the
  transaction, in which `pg_advisory_unlock` fails too; the lock is the
  session's and survives `ROLLBACK` and `release()`. The callers in `Timed` pass
  `timeoutMs`, so that they execute `SET LOCAL`, which is refused; all callers
  of `withAccountLock` in the program are such, and the others show what the
  lock does without it. `LockHistory` adds `spoiled`, the sessions on which a
  statement has failed, that `SET LOCAL` among them.
* **`AlertProcessing`** - `processAlertJob` (hardened) and `copyTrade`. The
  verdicts of the circuit breaker, the rate limits and the risk rules are one
  nondeterministic choice per account; an account that is no longer active
  always fails.
* **`MvpAlertPath`** - the MVP webhook and the MVP alert processor over the
  same queue, in the one process they run in: `LookUp`, `PersistAlert` (under
  the UNIQUE constraint of `schema_hardening.sql`, which `migrate.ts` applies to
  the MVP too), `Enqueue`; `CreateTradeRequest` to `MarkAlertProcessed` with
  the statements of the copier between. Which accounts the copier finds active
  is a nondeterministic choice at the time it asks. `Crash` kills the handlers
  and the workers together.
* **`TradeRules`** - `checkTrade` and the copier's filters, sizing and sides,
  over a sequence of alerts. `LoadRules`, `ApplyRule` (one rule, one statement,
  in the order of `loadRiskRules`) and `AllRulesPass` are the check of the
  strategy and of each account; `CopyToAccount` sizes the order; `Fill`,
  `FillPartially` and `Reject` are the UPDATE that sets its status
  (`UpdateOrder`), `RecordExecution` is the INSERT of its execution, a statement
  later, and `LoseExecution` the failure or death between the two: the retry
  finds the order settled and skips it, or the catch block makes it pending or
  rejected. Meanwhile the clock and the kill switch move. Money counts
  contracts: every contract costs one, so that the cash of a day, which the
  loss limit reads, is sales less purchases as far as they are stored. A rule
  set is one choice in `Init`. `TradeHistory` adds history variables:
  `disturbed`, an alert was taken up while an order of an earlier one was
  pending or its execution not stored yet, or an account was copied to that was
  not checked; `misfiled`, an executed order was made pending or rejected;
  `balance`, what was traded in the day whether stored or not; and `astray`,
  the executions of the day that were lost or stored only on the next day. The
  properties that relate an order to earlier ones hold only while `disturbed`
  is false, because the rules read what is already filled and stored, and the
  copier does not ask which accounts passed. The
  checked instance has one account and one worker, so `disturbed` separates
  sequences that wait for their fills from those that do not.
* **`PositionBooks`** - one account's positions, kept by the mock broker and by
  the rows of `orders_submitted`. `UpdatePosition` and `ClosingOrders` are
  translated as operators on the array, the skipping iteration of `flattenAll`
  included. The startup reconciliation is a sequence of statements beside
  orders being placed and recorded: workers run from the import of their
  module, the server listens afterwards, so `Flatten` needs `recon.at =
  "serving"`. `getPositions` returns the live array and not a copy: `Compare`
  reads the positions of its own time against rows read before. The rows the
  reconciliation writes are read by nothing and are not state.
  `PositionHistory` adds `skipped`, the symbols a flatten closed without a
  closing order; `moved`, those of which an order was on its way to the books
  while the reconciliation read them; and `gap`, for each symbol the recorded
  fills that the last restart lost less the fills that could not be recorded
  since. The reconciliation is right if it reports the symbols with a gap.

`MC*` modules give the constants their values and the symmetry sets.
`TradeHistory`, `PositionHistory` and `LockHistory` hold the history variables
of their module and the properties that need them, apart from the instance
because theorems are about them; that of `CircuitBreaker` is in
`MCCircuitBreaker`.

### What PostgreSQL refuses

Some statements of the code are, by PostgreSQL's rules, refused whenever they
are executed: `strategy_id = ''` on a uuid column (`RiskCheck`), an UPDATE that
names `$4` and binds three values (`CatchError`), an execution whose
`account_id` is an order id (`InsertExecution`), `SET LOCAL ... = $1`
(`SetTimeout`), the status `success` and the source `system_sync` against the
CHECK constraints of the reconciliation's tables; and `account.brokerType` is
undefined on a row whose column is `broker_type`. `SET LOCAL` is refused in
every run and every theorem about locks: `LockSound` and `LeakNeedsAFailure`
say what remains true of a lock whose timeout is asked for, `LockLeak` what does
not. `MvpSound` and `PositionsKept` check the program as it runs and as it is
meant to be in one run, the constant `Refusals` being a set of refusals of which
`Init` chooses one: with the INSERT of the execution refused and accepted; with
all three statements of the reconciliation refused (it always ends in its catch
block, whose own INSERT is accepted) and with only `system_sync` refused.
`MvpPlacedAgain` is the MVP processor as deployed. `OrderFaulty` checks that the
design of the hardened processor is right once its statements are accepted (`Refused` empty), while its theorems hold for any `Refused`; the
other runs take the statements of their components to be accepted.
`OrderExecution` takes `withAccountLock` to work; what becomes of the lock when
`SET LOCAL` is refused is `AdvisoryLock`'s subject.

## 3. Runs

| run | properties | bounds |
|---|---|---|
| `OrderFaulty` | `AccountExclusive`, `DuplicatesNeedAFault`, `BooksBalance`, `SettledIsFinal`, `KillSwitchDrains`, `ImplementsDesk`, `JobsEnd` | 1 order, 2 workers, 2 attempts, 1 stall, 1 each of flips, faults, crashes, slow runs |
| `MvpSound` | `PlacementsBounded`, `OrderBooksBalance` | 2 orders, 2 workers, 2 attempts, 1 each of faults, crashes, slow runs; the execution refused or accepted |
| `MvpPlacedAgain` | `PlacedAtMostOnce`, violated | 1 order, no failures; the execution refused |
| `CircuitShared` | `OpensOnlyAfterThreshold`, `LegalTransitions`, `HealsWhileEnabled` | 2 runs, thresholds 2 and 3, 3 failures counted, 2 manual switches, 1 call cut short |
| `IntakeFaulty` | `EnqueuedOnce`, `SwitchStopsIntake`, `AlertsSettle`, `ImplementsLedger` | 3 deliveries of 2 alerts with one signal, 2 toggles, 1 fault, 1 restart |
| `LockSound` | `Exclusive`, `LeakNeedsAFailure`, `CallsEnd` | 2 callers of the same 2 locks, 1 of a third lock with a timeout (2 calls), 2 sessions, 1 fault, 1 death |
| `LockLeak` | `NoLeak`, violated | 2 callers of 1 lock with a timeout (1 call), no failures |
| `AlertFaulty` | `RequestsBounded`, `BooksBalance`, `RefusedHasNoOrder`, `FailedIsDeadLettered`, `AlertsEnd` | 1 alert, 2 workers, 1 account, 2 attempts, 3 faults, 1 each of crashes, slow runs, flips, at most 3 of all |
| `MvpAlert` | `RequestsBounded`, `BooksBalance`, `ImplementsLedger`, `AlertsEnd` | 2 deliveries of one alert, 2 workers, 1 account, 2 attempts, 1 each of faults, crashes, slow runs |
| `CopyHardened` | `SuccessIsQueued`, `OrdersWithinRate`, `QueuedOncePerLife` | 3 calls, 3 trade requests, 1 account, windows of 1 and 2 ticks with limits 2 and 3, keys of 1 tick, 2 ticks, 1 fault, 1 crash |
| `RulesEnforced` | `OrdersWithinLimits`, `PositionsWithinLimit`, `OneSided`, `SpendBounded`, `RequestsSpaced` | 3 alerts of 4 signals, 4 rule sets, 2 mappings, 1 account, 2 symbols, 1 move of the clock or the kill switch or 1 execution lost |
| `PositionsKept` | `OnePositionPerSymbol`, `PositionsMatchFills`, `AlarmsExplained`, `StartupEnds` | 3 orders of 4 trades in 2 symbols, 1 flatten, 1 fault or restart |

**What a run shows.** Every run but the two violations contains failures.
Properties that hold only without some of them say so in their antecedent
(`Faultless`, `Undisturbed`, `~overlapped`, `~disturbed`, `spoiled`, `moved`, a
budget that is still full): these are predicates of the state, so one run covers the
behaviours where nothing has failed *yet*, which is more than a run without
failures would.

The type invariants of the modules with proofs are theorems (section 4) and not
checked again. `OnePlacementPerClaim`, which `ImplementsDesk` contains,
`CompletedIsProcessed` and `KilledStaysKilled` are theorems only.

**Why the bounds are enough.** Every property relates at most two runs of the
same job, two jobs of one account, or two deliveries of one alert; two workers
and one stall produce every such overlap, a third delivery (`IntakeFaulty`) or
caller (`LockSound`) the case where two others interfere while one waits. Two
attempts are a first and a last one. One failure of each kind reaches every
error path; a second fault (`AlertFaulty`) is the one that hits the error path
itself. Three orders open, reverse and enlarge or close a position, or make two
positions; three alerts trade, close and trade again. One account is enough in
`AlertFaulty`: what a run does to one account it does to each of them
independently, the verdict of each being free, and a set of accounts matters
only as empty or not. In `CopyHardened` the lock, the orders and the keys are
those of one account, three orders exceed the limit of the shorter window and
reach that of the longer, and a key of one tick is cleaned up and made again
within two. In `RulesEnforced` one worker takes the alerts, since the properties
speak of alerts that do not overlap, and either the clock or the kill switch
moves or an execution is lost; each move of the clock begins a new day, and the
trading session, of which no property speaks, stays open. In `OrderFaulty` the
runs that exclude each other are of one order; that two orders of one account do
is `AccountExclusiveHolds`. In `AlertFaulty` at most three things go wrong in
one behaviour (`MaxTogether`): two failed attempts leave one more failure, a crash or a fault,
for either place that writes the dead letter. The run shows that one more
failure never loses it; that it takes two is the bound that
`FailedIsDeadLettered` states and its theorem proves for any number of failures.
The bounds are budgets in the state: within them failures happen at any step and
in any order.
Deadlock is checked in every run: the only states without a step of the program
are those where all jobs have ended and all workers are idle, for which `Next`
has an explicit stutter.

**Fairness.** Weak fairness is given to the steps of each worker and handler (a
Node process that has not died goes on to the next `await`, and a free BullMQ
worker takes waiting jobs), to the stalled check (BullMQ runs it periodically)
and to the steps of the startup. In `OrderExecution` and `AdvisoryLock` waiting
for a lock ends because PostgreSQL grants a free lock to the next in line. No
fairness is given to failures, crashes, retries of TradingView, the expiry of a
cooldown, new orders or the operator. `CircuitBreaker` alone assumes more: time
passes, orders of an account keep coming and, tried again and again, succeed
again (strong fairness of `BeginOrder` and `TradeSucceeds`); without a broker
that recovers no breaker could close.

## 4. Theorems

`X_proofs` EXTENDS `X` and proves, for all values of the constants, that the
specification has the property; the lock and the breaker, the two services that
guard an account, share `AccountGuards_proofs`, and `MvpAlertPath_proofs`
EXTENDS `MvpOrderExecution` too, with the lemmas about the queue that both
need. Hardly any of the properties is inductive: what follows
says for each what the invariant adds, and why.

* **`OrderExecution`** - the invariant of the first theorems (`TypeCorrect`,
  `AccountExclusiveHolds`, `OnePlacementPerClaimHolds`, `PlacedBehindHolds`)
  adds to the types who holds which lock in which step, and `PlacedBehind`: a
  placement was made at a version the row has since left, and a run about to
  place is the only one whose version is the one just left behind. A version is
  claimed once because the guarded UPDATE moves the row past it.
  - `DuplicatesNeedAFaultHolds`: a run that has not asked the broker yet may do
    so long after another one did, so placements alone cannot be bounded step by
    step. `PlacementsPaid` counts, besides the placements of an order, each run
    that may still place it or whose acknowledgement sends the job back, and one
    for a job that waits: together never more than one and the crashes, faults
    and expired queue locks so far (`Disruptions`). It needs what the queue and
    the runs know of each other (`QInv`: an active job has an owner, a run works
    on its own order, budgets only shrink, a handler acts last).
  - `SettledIsFinalHolds`, a property of steps: a filled or rejected order keeps
    its status unless runs overlapped, a statement failed or the switch was
    flipped. While none of this has happened (`Calm`), a run past its read of the
    row works on an order that is still open (`RunOpen`), and a set switch has
    let nobody pass (`SwitchHolds`).
  - `BooksBalanceHolds`: `RunBooks` says for each step of a run what must have
    been written when it is reached, `JobBooks` what a job that is not active
    has left behind.
  - `KillSwitchDrainsHolds`, a property of steps: of the step that reads the
    switch, the only way past it, and of the placement, the only one that places.
  - `DeskImplemented`: the processor implements `OrderDesk` (`ImplementsDesk`).
    A desk is the run that holds a lock, so the proof needs the converse of what
    the locks' invariant says: whoever holds the lock of an account is inside
    the section, for an order of that account (`HoldersLocked`); then a crash,
    which releases whatever the dead session held, empties exactly one desk. A
    run comes to the desk under a version that its row has had (`SeenBehind`).
    Each step of a run then maps to a step of the desk (`DeskTaken`, `DeskLeft`)
    or leaves all desks as they are (`DeskUnmoved`).
* **`CircuitBreaker`** - `TypeCorrect`, `OpensOnlyAfterThresholdHolds`: lost
  updates make the counter too small, but a stale count written back can make it
  larger than it just was, so the invariant bounds the row's count, and every
  count a run has read together with the number of calls under way, by the
  failures reported (`Covered`). `LegalTransitionsHolds`, a property of steps:
  as long as runs have not overlapped, a run finds the row as it read it
  (`AloneRemembers`), so what it writes is an edge of the diagram.
* **`AlertIntake`** - `TypeCorrect`, `EnqueuedOnceHolds`,
  `KilledStaysKilledHolds`, `IntakeImplementsLedger`. The row of an alert becomes
  `accepted` once and the one request that made it so is the only one that can
  enqueue; a killed row was never accepted. With that invariant every step of
  the webhook maps to a step of `AlertLedger` or to a stutter: an INSERT to
  `Record`, the call of the queue to `Queue`, a failure to `Fail`, of which the
  lost alert is the one of the request that failed. `SwitchStopsIntakeHolds`, a
  property of steps, needs that until a restart the two copies of the switch
  agree unless a toggle is half-way (`SwitchAgrees`).
* **`HardenedCopier`** - `TypeCorrect`, `OrdersWithinRateHolds`,
  `QueuedOncePerLifeHolds`, `SuccessIsQueuedHolds`. The lock belongs to the one
  call between its acquisition and its release (`LockKept`), so no order of the
  account is inserted between a count and the INSERT it allowed, and what was
  counted below the limit still is (`BelowLimit`); the orders of a window that
  ends with the new one are those counted and that one, and the trade request
  of the new order is among those counted (`AllCounted`). An order is queued by
  the call that holds its reservation, each reservation belongs to one such call
  (`Pending`), and the next is made after the last has expired, which bounds
  how many there have been by the clock (`Lives`, `Due`). A success is either
  the call's own job or a key found reserved; the key was made by a call that
  has queued the order, or still holds the lock, or failed (`ReservedIsQueued`).
* **`AdvisoryLock`** - `LockTypeCorrect`, `ExclusiveHolds`,
  `LeakNeedsAFailureHolds`. A caller's session is its own, and a lock is held by
  at most one session, which is checked out by the caller that counts it among
  those it got. `Exclusive` speaks of callers whose connection lives.
  `LeakNeedsAFailure` is about every behaviour: a session on which no statement
  failed holds each lock once, for the call it is checked out by, and is not
  aborted (`Tidy`), so that every unlock succeeds before it goes back to the
  pool; a session that is gone holds nothing (`GoneEmpty`).
* **`AlertProcessing`** - `TypeCorrect`, `RequestsBoundedHolds`,
  `CompletedIsProcessedHolds`, `RefusedHasNoOrderHolds`,
  `FailedIsDeadLetteredHolds`, `BooksBalanceHolds`. `RequestsBounded` is not
  inductive: a run that has not made its request may be one whose job has long
  gone to another worker. The invariant counts these runs with the requests, and
  compares with how often the queue handed the job out; that this number is at
  most `Attempts + MaxStalled` needs the invariant of the queue (`JobInv`).
  `RefusedHasNoOrder` holds because a run past its INSERT has a request that no
  other run has (`RequestsOwned`), saves orders only if an account passed
  (`CopyingIsSafe`), and calls its request failed only if none did
  (`CleanHasNoOrder`). `FailedIsDeadLettered` counts what a lost dead letter
  costs: one failure per attempt (`AttemptsCost`, `ThrowCosts`), one in the catch
  block of the last attempt, which knows that it is the last (`AttemptKnown`,
  `SilenceCosts`), and one in the worker's handler or its death. `BooksBalance`
  speaks of ended jobs only; `RunBalances` says what the one run of an
  undisturbed job (`RunsOwn`) has written at each of its steps, account by
  account, and `JobBalances` what remains when it has ended.
* **`MvpAlertPath`** - `TypeCorrect`, `RequestsBoundedHolds`,
  `MvpImplementsLedger`, `BooksBalanceHolds`. At most one row of an alert is
  stored, whatever raced (`StoredOnce`, the UNIQUE constraint), and the delivery
  that stored it has not queued it while it is about to (`EnqueueIsStored`), so
  the alert has one job; only queued rows get runs and requests, and the count
  of `AlertProcessing` then bounds the requests of all deliveries together. The
  steps of the webhook map to those of `AlertLedger` as the hardened ones do,
  without the kill switch: the row of a delivery that found a duplicate at its
  SELECT is always refused (`DuplicateIsStored`), so every row that is inserted
  is queued or lost by a failure; the processor's steps are stutters, or
  failures. `BooksBalance` follows from the same three parts as in
  `AlertProcessing`.
* **`MvpOrderExecution`** - `PlacementsBoundedHolds`: every placement belongs to
  one time the job was handed out, and so does a run that has yet to place
  (`PlacementsCounted`), whatever is refused. `OrderBooksBalanceHolds` holds
  with the INSERT of the execution accepted and refused: a run past the
  placement has placed and not recorded, and where the INSERT is accepted an
  order that is not `Booked` is `Blank` when its job is handed out (`RunBooks`,
  `JobBooks`); refused, it is placed again by each attempt and ends rejected.
  The assumption of `MvpAlertPath` adds that the set of workers is finite, for
  the runs to be counted.
* **`TradeRules`** - `TypeCorrect`, `OrdersWithinLimitsHolds`. An order is
  within its limits because the run that makes it carries the signal of its
  alert, and because a run that copies has passed the rules it loaded for that
  signal (`CarriesSignal`, `Vetted`, `OrderHasSignal`).
  `PositionsWithinLimitHolds`, `OneSidedHolds`, `SpendBoundedHolds` and
  `RequestsSpacedHolds` are about sequences of trades and hold while trades do
  not disturb each other (`TradeHistory`). A rule is evaluated long before the
  order it admitted is filled; `Calm` says that until then its verdict stands:
  one alert at a time has pending orders (`OnePending`), a run has written
  nothing for an account it has not come to (`Unwritten`), and every rule that
  was evaluated still passes, for the runs (`RunPasses`) and for the orders
  (`OrderPasses`) and, until its execution is stored, for the money (`Covered`). A
  fill then adds one symbol, one side or one order's money to
  what the rule admitted (`PositionsInv`, `FromSignal`). The cooldown is
  evaluated before the request exists; `Cool` keeps its verdict until then. For
  the money, `SpendInv` relates what was traded to what is stored: the two
  differ by the one execution that is between its statements and by those that
  went astray.
* **`PositionBooks`** - `TypeCorrect` and `OnePositionPerSymbolHolds`: the array
  has one position per symbol and none is empty, in every behaviour.
  `PositionsMatchFillsHolds`: for every symbol that no flatten skipped, the signed
  position in the array is what was filled (`Matches`). The step that needs an
  argument is `Flatten`: the closing orders of a loop over an array that each of
  them shortens add up to the opposite of the positions they close, and touch no
  other (`ClosingOrdersClose`). `AlarmsExplainedHolds`: while the server
  starts, what the broker has and the gap are what the rows would add up to
  were those on their way recorded (`Recorded`), through placements, records
  that fail and further restarts; for a symbol that has none on its way that is
  what the rows do add up to (`NoneOfSymbol`). So the rows that a reconciliation
  read and the array it compares them with later differ by the gap
  (`ReconAgrees`). What orders add up to is a fold over a sequence and the loop
  of `flattenAll` a recursive function, of which the library's induction
  theorems cannot speak here. Induction is therefore proved from the
  well-foundedness of the natural numbers, as a fact about a set (`LeastNumber`,
  `Induction`), and used to show that the partial sums (`Sums`) and the states
  of the loop (`Loop`) exist and have the properties of each step.

One flaw of the model came out of proving and not of checking: in
`UpdatePosition` and `DetermineResolutionAction` the arms of a CASE overlapped,
where TLA+ leaves open which one is taken and TLC takes the first; they are the
if-chains of the code now.

The proofs assume the named assumptions of the modules: the constants are of
their types, `None` is not a worker, the set of workers is finite where runs are
counted. No theorem has a hypothesis beyond them. What a property says of
undisturbed behaviours only is part of the property, not a hypothesis.

**Only model-checked**: what must eventually happen (`JobsEnd`, `AlertsEnd`,
`AlertsSettle`, `HealsWhileEnabled`, `CallsEnd`, `StartupEnds`), which is out of
the prover's reach. Every refinement, every invariant and every property of
steps that a passing run checks is a theorem.

## 5. What the code does otherwise

Two runs are expected to be violated, each checking one statement of the
repository:

| run | statement | what happens |
|---|---|---|
| `MvpPlacedAgain` | `ARCHITECTURE.md:65`, idempotency | the execution is refused after the placement; the retry places again |
| `LockLeak` | `services/lock.ts:98`, acquires and releases automatically | `SET LOCAL` is refused, the unlock fails in the aborted transaction, the pooled session keeps the lock |

Seen while modelling, and in the models either as the code has it or excluded
by the antecedent of a property, as its comment says:

* *Order processor.* The UPDATE of the catch block names `$4` and binds three
  values (`orderProcessorHardened.ts:222`): a permanent error is retried and an
  order stopped by the kill switch stays `pending` (`HARDENING_SUMMARY.md:25`);
  so does one whose last attempt failed with a retryable error. The switch is
  checked first (`:74`), the placement is seven statements and a lock later
  (`:150`), not "immediately" (`HARDENING_SUMMARY.md:24`): what the switch does
  stop is `KillSwitchDrains`. Fills
  (`:373`) and everything in the catch block are unversioned, so a filled order
  can be overwritten by `rejected`.
* *Circuit breaker.* Overlapping failures are counted once (`:84`), the state
  read is not the state updated (`:213`), a row that says open is not disabled a
  second time (`:64`). An account that its breaker disabled gets no trade that
  could close the breaker (`:118`; `HARDENING_SUMMARY.md:42` has it heal itself):
  `HealsWhileEnabled` needs the operator.
* *Hardened webhook.* The switch in memory is that of the environment after a
  restart (`config/index.ts:48`); a delivery that failed between the row and the
  job makes its retry a duplicate (`handlerHardened.ts:245`).
* *MVP webhook.* Because of the UNIQUE constraint every repeated delivery is
  answered 500 and not "Duplicate alert acknowledged" (`handler.ts:112`); so is
  an invalid payload, whose audit row has no uuid for its strategy.
* *Locks.* A lock dies with its session while the callback goes on (`lock.ts:251`);
  when a later lock of `withMultiLock` fails, the earlier ones are not released
  (`:155`).
* *Alert processor and copier.* An order is saved and not queued when the queue
  fails (`copier/engine.ts:180`); order ids come from the trade request, of which
  each attempt makes one (`:172`); one account that passes its checks lets the
  copier trade on every mapped account (`alertProcessorHardened.ts:188`); the
  column is `processed_at`, so that no alert is skipped as processed (`:77`).
* *Rules.* The cooldown rule reads a column that does not exist and so makes
  every hardened check fail (`risk/engine.ts:228`); a symbol that was closed by
  the other side can be traded no more (`:350`); closing and reversing always sells
  (`copier/engine.ts:293`); a session over midnight never contains the current
  time (`risk/engine.ts:267`); a partial fill of one contract fills none
  (`brokers/simulatedBroker.ts:107`); the rule types `kill_switch` and
  `account_disabled` are evaluated by nothing.
* *Hardened copier.* The key of a reservation is `order:` and 64 digits, its
  column a `VARCHAR(64)` (`db/schema_hardening.sql:25`): as both stand, every
  reservation is refused (`FailReservation`). With a column that fits, a failure
  after the reservation leaves it behind, and the retry finds a duplicate and
  reports a success without an order (`copier/engineHardened.ts:11` has "Proper
  cleanup on partial failures"); `SuccessIsQueued` leaves exactly these orders
  (`lost`) out.
* *Rate limits.* The trade request is in its table before trades are counted
  (`services/rateLimit.ts:40`), so a limit of n admits n - 1 fresh requests. In
  the hardened alert processor the verdict and the order's INSERT are under no
  common lock (`processor/alertProcessorHardened.ts:306`). `rate_limit_windows`
  is written and never read.
* *Positions.* `flattenAll` iterates over the array its orders splice and closes
  every other position without an order (`brokers/mockBroker.ts:131`); the route
  writes no row, so the books differ from then on. The reconciliation always
  fails (`services/reconciliation.ts:60`), runs only at startup and, were its
  statements accepted, would change no position.

## 6. Not modelled

* *Execution log* (`services/executionLog.ts`), *heartbeat*
  (`services/heartbeat.ts`), *read routes*: they insert rows that no decision of
  the program reads, or format rows for a reader. Nothing calls
  `getSystemHealth`; what the health route reports is a query of its own.
* *Configuration*: values read once at start. The kill switch is the one field
  that changes, and is in `AlertIntake`.
* *Database access* beyond the sessions of `AdvisoryLock`: `query` and the
  transaction helper of `db/index.ts` are statements that succeed or fail.
  The *schema* is in the models as the constraints the statements meet; the
  migration itself is a script that is run once.
* *Dashboard* (`apps/web`): shows what the read routes return; the hook that
  would open a socket (`useWebSocket.ts`) is imported by nobody. *Shared types*
  and *deployment* have no behaviour.
* Left out of modelled components: the operations nothing calls
  (`updateIdempotencyEntityId`, `resetRateLimits`, `isAlertDuplicate`), and the
  reports and the retention of the dead letter queue.

What further work would add: the queue's own promises
(a job is handed out at most so often, and has one owner) stated once of
`JobQueue` and used by the modules that extend it; and the conditions of the
trading limits read off the alerts that overlap, without a history variable.
