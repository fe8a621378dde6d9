# kairos-agent: TLA+ specifications

kairos-agent is a trading agent written in Go. A runtime decides which mode the
agent is in and whether new orders may enter the market; an engine runs workers
and an event bus; services create, submit, cancel and reconcile orders against
an exchange; circuit breakers stand in front of dependencies. These modules
specify the parts of it where interleavings, crashes and failures decide whether
it is correct. Paths below are relative to `src/internal/`.

## 1. Inventory

| part | state it keeps | operations | hard behaviour | what makes it correct |
|---|---|---|---|---|
| runtime manager, state machine (`runtime/`) | status, machine mode | Transition, SetConnectivity, SetLicense, NTP worker, restore | two locks in one call, concurrent callers | mode and machine agree; a halt stays; live needs the disclaimer |
| runtime repository, snapshot store (`providers/runtime/`) | the snapshot file | change then persist, restore at open | snapshot read and rename are separate; save fails; crash; two processes | what was acknowledged is on disk, a restart never resumes a session |
| agent service, trading gate (`service/agent`, `service/tradinggate`) | none | StartLive..., StopAll, EmergencyStop, CheckNewEntry | a check that is separate from what it allows | the gate is shut after a stop |
| circuit breaker (`circuitbreaker/`) | state, counts, generation, expiry | Execute, State | admission, execution and report are separate | probe bound; results of an old generation are ignored; half-open decides |
| order service (`service/agent/order_service.go`, sqlite order repository) | order rows | Create, Submit, Cancel, ReconcileOrders | lost replies, failing stores, stale rows, gate switched meanwhile, two submitters | no live order is unknown; closed rows stay true; rows settle |
| reconciler (`service/reconciliation`) | none (rows, positions) | ReconcileOrders, ReconcilePositions | compares two lists taken at two moments | a canceled row is a canceled order; a row follows the exchange |
| event bus (`engine/eventbus.go`) | subscriptions, channels, closed flag | Subscribe, Unsubscribe, Publish, Shutdown | channels closed under senders, drains, callbacks that unsubscribe | order, no loss of what was accepted, everything returns |
| engine, graceful shutdown (`engine/`) | engine state, workers | Start, Stop, workers, recoverWorker, Shutdown | workers against stop and panic | a halt stops everything and is noticed |
| router, paper simulator (`service/router`, `service/paper`) | in-flight table, virtual orders | submit, confirm, cleanup, fill, reset | timeouts against late answers | one submission per client id; the books balance |
| jobs, stream writers, QoS bus, exchange subscriptions (`service/jobs`, `storage/dual`, `providers/storage`, `domain/events/qos`, `providers/bybit`) | queues | submit, worker, stop | stop against queued work, slow consumers | accepted work is done or discarded only after a close |
| journal, backup, audit log (`journal/`, `backup/`, `audit/`) | files | append, rotate, replay; create, restore; write, find | crash or full disk between two steps | what was acknowledged is found again; a restore is whole |
| password vault, vault store (`vault/`) | rows of one file, a key in memory | initialize, unlock, set, change password; open or create, migrate | several handles and processes on one file | every secret readable; every open store fits the file |
| SQLite repositories (`providers/storage/sqlite`) | tables, one connection | statements, transactions in a context, migrations | lost updates, panics in a transaction, times as text | rows are what was stored |
| configuration, licence, entitlement (`config/`, `license/`, `entitlement/`) | config.yaml, a live copy | start, update, set, reload; evaluate | write and swap are separate, torn writes, edits by hand | the live settings are the acknowledged ones; rights only fade |
| risk engine with order entry (`domain/risk`) | none (rows read one after another) | ValidateOrder | orders validated at the same time, a stale position row | exposure stays bounded |
| backtest (`service/backtest`) | balance, positions, trades | Run, Reset | sequences of runs, cancelled runs | money is neither made nor lost |
| strategy engine, WASM host, builder (`strategy/`) | contexts, linear memory, instances | ticks, fills, load, unload; create, update | callers sharing one allocator; refused updates | a strategy hears its own input; instances are built as configured |
| cli, tui, logging, cloud client, metrics, export, integrity, sdk | none of protocol interest | I/O and rendering | | |

How they interact: a process gets its agent service in one of two ways.
`bootstrap/factory.go` opens one runtime repository over a state directory, with its
snapshot store and the audit log's disclaimer, and builds the trading gate and the agent
service on it; `app/app.go` starts the NTP worker. The shipped binary does not use it:
`cmd/kairos/cli` (the TUI in `root.go`, the headless agent, emergency-stop) puts a bare
manager, a repository without a store and a mock disclaimer repository together by hand.
So what section 3 says of the snapshot file, restarts and the disclaimer is about processes of the
factory, and `Commands` names the others. A command makes one call at a time; the TUI
may have several callers in one process; both can have the same state
directory open, with its configuration, audit log, journal and vault. The engine, the
order service, the router and the simulator call each other through interfaces; the
order service asks a gate before it creates and before it submits, validates against
rows that the reconciler rewrites, and stores them through the SQLite repositories.

At this commit no package outside `engine/` imports it: the engine, its bus and its
workers are run by their tests alone, and the Engine, Bus, Concurrency and Orders runs
take the callers that the engine's own code provides. The job manager, the QoS bus, the
stream writers, `config.Manager.ReloadFromDisk` and the journal's truncation have no
caller outside tests either; their environment is what their interfaces offer.

PROJECT.json lists every component, and every hazard at its line.

## 2. Order of the modules, and what is left

1. `RuntimeSafety`, `RuntimeSafetyProofs`: modes, halts, the state file; `AgentControl`, the
   abstract specification that its serial use implements.
2. `CircuitBreaker`, `CircuitBreakerProofs`.
3. `OrderLifecycle`, `OrderLifecycleProofs`: order service and reconciler on one store and
   one exchange.
4. `EventBus`, `EventBusProofs`.
5. `EngineLifecycle`, `EngineLifecycleProofs`: engine state machine, the listener,
   workers, panic recovery, Start, Stop and GracefulShutdown.
6. `PaperSimulator`, `OrderRouter`, which composes it with a live connector, and
   `OrderRouterProofs`.
7. `WorkQueue`, the abstract specification, and `JobManager`, `StreamWriter`, `QosBus`
   and `ConnectorStreams`, each shown to implement it; `BackgroundServices`, which puts
   them together, and `WorkQueueProofs`.
8. `Vault`, `VaultStore`, `TradingTables`, `Journal`, `StateBackup`, `AuditLog`: what
   is kept in files, over crashes, failing statements and other handles.
9. `RiskLimits`, `Backtest`, `StrategyBuilder`, `StrategyHost`.
10. `ConfigManager` with `Entitlement`, and `OperatorSettings`, which puts the configuration
    and the audit log together.
11. `ServicesProofs`: the theorems about 8, 9 and 10.

Still worth doing: a bound on what the sweep of the reconciler can cancel by mistake (the
OrdersSweep run shows that it can, RowsKeepTheirOrder that nothing else does), and an abstract
order that `OrderLifecycle` implements where no two goroutines submit it.

## 3. Modules

A definition marked "Slip" is not part of a specification: it is a mistake the
definition after it could hold. PROJECT.json names the property that finds it,
so that every property is known to be able to fail.

### RuntimeSafety

`machine[p]` is `StateMachine.current`, `status[p]` the `Manager.status` of process
p, `disk` the snapshot file, `caller[c]` where a service call is, with the status
it is about to write. A call is cut at the points where other goroutines can act:
the machine's lock, the manager's lock, the snapshot taken, the file renamed. The
actions are `Call`, `CheckDisclaimer` and `SetLicense` (StartLive), `MachineStep`
and `StatusStep` (Manager.Transition), `SetConnectivity` (EmergencyStop),
`TakeSnapshot`, `Save`, `SaveFails` (persist), `Boot` and `BootPersist`
(restoreSnapshot), `Crash`, `NTPTick` and `AcceptDisclaimer`. A process in `Commands` is put together by
cmd/kairos/cli: nothing is saved or restored, and its disclaimer counts as accepted; all
others by bootstrap.Factory.Open. `GateOpen` is
`Gate.CheckNewEntry` with the default policy. Time stamps, banners and the event
listeners are left out.

`AgentControl` is what one operator of one agent is promised: a register of mode and
connectivity that changes only as the call under way asks (`Obey`, `CutOff`), a call that
returns nil by the very write that keeps its effect (`Confirm`), failures, crashes (`Die`)
and a restart from the last write, less the session (`Start`). RuntimeSafety maps to it with
INSTANCE ... WITH: `Shown` is the mode and connectivity of the process' status, or off while it is
down, `Kept` those of the snapshot file, `Asked` the mode the caller's operation aims at. The
steps on the machine, the snapshot taken and the checks before a call stutter.

### CircuitBreaker

`cb` is the struct; `expired` says that its expiry has passed (the clock is not
modelled: `Expire` can happen whenever an expiry is set). The generation counter
is only compared for equality, so `fresh` is the set of goroutines whose call was
admitted in the current one. Execute is `Admit`/`Refuse`, then `Cancelled`, `Run`,
`Panic`, then `Success`/`Failure` (afterRequest); `Look` is State().

### OrderLifecycle

`row` is the table, `exch` what the exchange holds; each worker is in a call of
CreateOrder, SubmitOrder or CancelOrder, holding the copy it loaded; the query
(ReconcileOrders of the order service) and the sweep (the reconciler) hold the
lists they took. Requests to the exchange and stores are separate steps, each of
which can fail; an accepted submission can lose its reply. Quantities are reduced
to open, partial and complete. The exchange (`Fill`, `ExchangeCloses`, what it answers) is
external: it is modelled from what the connector interface lets the callers see. An answer
is the order as it is or, because the adapter maps a status it does not know to pending,
the order under that name (`Reads`); ReconcileOrders stores it like any other, so a sent row
can become submittable again, which `reverted` counts. The engine's ticker starts a round
only in live or paper trading (`trades`, `QueryTick`); stream events start one in any mode.

### EventBus

`sub[s]` is a subscription with its channel and delivery goroutine, `pub[p]` a Publish with the
subscriptions it copied, `lock` the write lock, `shutdown` the place of the call that won the
compare-and-swap. `sub.cancel()` and `close(sub.ch)` are two actions, because the goroutine sees
one before the other. `delivered` and `owed` are history, and `lost` is what a panic kept from a
subscription: a publisher that sends on a closed channel panics, its caller recovers, as the
engine's recoverWorker does, and may publish again, but the copied subscriptions still to come
have missed the event. OnEvent may call Unsubscribe, which the comment in Publish provides for; it
does not publish and does not call Shutdown (no subscriber in the repository does; a Shutdown from
OnEvent would wait for itself).

### EngineLifecycle

`mode` is `stateMachine.currentState`, `notes` the number of transitions in the listener's
channel. `agenda[a]` holds the steps that goroutine `a` (a worker, a user of TransitionTo, a
caller of Stop or Shutdown) has still to take; a handler or a call starts by writing its agenda,
each action takes the head off it. So a step is what happens under one lock or one call to the
outside, and every other goroutine can act between two: Stop's look at the mode and its transition
are `CheckHalted` and `HaltFirst` or `HaltRefused`; handleStreamEvent is "publish", "check_live",
"halt", "reconcile". `phase[w]` says whether a worker runs; `Panic` is recoverWorker, `Crash` a
panic inside its own Publish. `order`, `storage`, `failed`, `done` and `told` belong to
GracefulShutdown: a call waits for gs.mu (`Lock`), and the first one goes through `ListOrders`,
`CancelListed`, `CancelsDone`, `Close`, `ShutdownBus`, then the steps of Stop, then `CloseDone`; a
later one finds gs.done closed and returns nil ("already"). There is one GracefulShutdown, as in
the code that makes one. The event bus is reduced to what a publisher and a Shutdown see of it: a
Publish on a closed channel can panic, and the first Shutdown of the bus waits (`Drained`) for a
delivery goroutine (`delivery`) that may be in an OnEvent which does not return. A second one
returns at once, also while the first waits, which is why CleanShutdown does not speak of delivery
goroutines. `mustHalt` is history.

### PaperSimulator and OrderRouter

`PaperSimulator` has one action per operation of `service/paper`, each of which holds
`s.mu` throughout: `virtual` is `s.orders`, `fillers` the goroutines in simulateFill,
`position` the entry of `s.positions` for the one symbol. Prices, slippage, commission,
average entry and realized profit are computed as the code does, in units of 10^-8.
`OrderRouter` EXTENDS it and cuts SubmitOrder where it holds no lock: Enter (the locked
section), Route (the mode is read), SendPaper or SendLive (the venue takes the order and
answers, or takes it and the answer is lost, or refuses), SubmitFailed and SubmitAccepted
(the locked sections after the answer). A gate that refuses, a full table and a duplicate
change nothing, so they are no steps. `taken` and `released` are history.

Two things the code does that a reader should know: updatePosition drops what a fill
exceeds the position it closes by, and books profit on the dropped part (`reversed`
marks that; BooksBalance speaks of what precedes it), and a late failure deletes the
entry of a newer call of the same client id (EntryKept says when).

### WorkQueue and the modules that implement it

`WorkQueue` says what the background services promise: an item that was accepted is
handled at most once, and nothing is given up before the service begins to close. Each
module maps its items with INSTANCE ... WITH:

- `JobManager`: `queue` and `listed` are the pools' channels and `activeJobs`. `Submit`
  and the end of executeJob hold the lock; a worker's select is `TakeJob` or its exit,
  whichever it picks. Open until the manager's context ends.
- `StreamWriter`: `kind` chooses `storage/dual/writer.go` or
  `providers/storage/dualstream.go`. Close is cut at the flag, the signal, the wait, the
  drain and the two databases. The first counts an event as written when it goes into the
  channel and takes events even after the final drain (`late`); the second does neither.
- `QosBus`: an event's `handler` and `tries` are the loops of deliverQoS1; QoS0
  goroutines are in `spawned`. Only the asynchronous side is a queue.
- `ConnectorStreams`: one of the adapter's five alike subscriptions. The goroutine takes
  an update, holds it, and sends it or ends with it when the consumer's context is done.

`BackgroundServices` puts the four side by side and states QueuesImplementWorkQueue.

### The files and tables

`Vault` has one action per statement or transaction of `vault/vault.go`; a handle's `call` is the
place where its call stands, and a cipher text is the key it was sealed with and the value.
`VaultStore` does the same for OpenOrCreate; the copy before a migration has the name of its
second, is truncated when it is taken and then filled from a file that others may be migrating
(`CreateVaultBackup`, `CopyVault`). In `TradingTables` a session's statements go to the
transaction of its context, or to the pool, which has one connection: `conn` says who has it,
`before` what a rollback returns to. Each asset of a balance is stored with the time it last
changed at (`even` marks a balance whose assets have one time). `Journal` keeps `segments` by the
second of their names, `torn` for a line without its end; `AuditLog` is the same idea for one file
that is never rotated. `StateBackup` cuts Create at each file it reads and Restore at each file it
copies, between truncation and fill; `former` and `source` are history.

### RiskLimits, Backtest, StrategyBuilder, StrategyHost

`RiskLimits` cuts CreateOrder at its four reads, beside the exchange and a
ReconcilePositions cut at its list, its request and its update; `blind` marks that an
order was checked against less than the exposure there was. `Backtest` is Run candle by
candle with exact money: rates are multiples of 1/`Unit`. `StrategyBuilder` holds the
built-in templates with their ranges; update is field by field, as the code, and a
refusal keeps what it had changed. `StrategyHost` cuts a call into allocate, write, call,
return and apply; `heard` says whether the function read what its caller wrote. A call's
deferred reset is of the allocator there was when it began (`alloc`), while the buffer comes from the
one writeToMemory finds: Reset may have put another in its place (`strayed`).

### ConfigManager, Entitlement

`configFile` is config.yaml, `liveConfig` the pointer. Apply is truncate, fill and store, because
os.WriteFile is the first two and no lock covers the three; ReloadFromDisk reads the live copy,
then the file, then swaps. A configuration has one setting of each kind: the critical risk limit,
a validated one, the cloud section, which the domain model lacks (so SetConfig drops it:
`ThroughDomain`), and the licence. `Beginnings` is what a file cut short, also by the first start,
may still decode to; `strayed` says that the process was started from a file that was edited or
cut short, and then runs with whatever it says. `Entitlement` has no state: EvaluateState and the
editions' policies as operators. `OperatorSettings` runs the configuration beside the audit log,
two files that do not interact, and states SettingsHold about both.

### MCConcurrency, MCServices and the bounds of the other instances

The primitives of Concurrency and the services of Services do not interact, so a
behaviour picks one (`part`) and runs it while the others keep their initial state. The
reachable states are the sum of the parts', not their product, and each property is about
its part in every behaviour. The modules `MCRuntimeSafety`, `MCOrderLifecycle`, `MCEventBus` and
`MCEngineLifecycle` say in the same way, as a conjunct of the next-state relation (`OneTrouble`,
`PartNext`), which troubles one behaviour need not combine. None of these bounds forbids a step that
Fairness asks for.

## 4. Runs

| run | instance | shows |
|---|---|---|
| RuntimeSerial | one process, one caller, crashes, failing saves, NTP | ModeAgreement, AckedStopHolds, ImplementsControl |
| RuntimeShared | two callers in one process of the factory with four of the calls, or one beside a command that goes live, crashes, restarts | LiveWasPermitted, ActiveOnlyOnRequest |
| RuntimeTwoProcesses | two processes on one state directory with a caller each | violates NoOpenGateAfterStop |
| Concurrency | three goroutines on a breaker of two probes; four jobs, one with an unknown priority, two with one id, two workers, two stoppers; two events on a channel of one, two closers; two events on handlers of either QoS; four updates on a channel of one | ProbesBounded, DecidedByProbes, HalfOpenDecidesOrLeaks; ActiveJobsAreActive, CloseLeavesNothing, DeliveredByQoS; QueuesImplementWorkQueue, QueuesSettle |
| BreakerWedge | the same breaker, fair callers | violates HalfOpenDecides |
| Orders | one order that two workers submit and one of them cancels, the periodic reconciliation and the sweep, two sends, one answer that says pending, one crash | ClosedRowsAreClosed, LiveOrdersKnown, LateEntriesBounded, RowsKeepTheirOrder |
| OrdersRounds | the same with one send and an engine that goes into trading and leaves it, fair rounds | RowsSettle |
| OrdersSweep | one submitter, without fairness | violates CanceledRowsAreCanceled |
| Bus | two publishers of three events and one on one subscription, or the first of them on two, of either QoS, channels of one event | DeliveredInOrder, AcceptedIsDelivered, CallsReturn |
| Engine | one or two workers beside a user and a caller of Stop, or beside two callers of Stop and Shutdown and an OnEvent that may never return; one order, a channel of one notification | HaltsWhenItMust, CleanShutdown, CallsReturn |
| Router | two submitters, one order that buys two and one that sells one, three paper submissions, one live one, two events from outside | DuplicatesExplained, NoLeak, EntryKept, BooksBalance, OneOutcome |
| Services | two handles, openers, sessions, host callers, order entries, instruments, journal ids, editors; see the constants of Services.cfg | ChangeLosesNoSecret, OpenStoresFitTheFile, TablesKeepWhatTheyTook, HearsItsOwnInput, ExposureBounded, RowFollowsExchange, BacktestAddsUp, BuiltAsConfigured, JournalReplays, RestoreIsWhole, SettingsHold |

Services, part by part: the vault with two keys and passwords, two sets, a change of
password from two handles; the store opened by two processes, new or left unmigrated, with one
password or two; two sessions of transactions, three writes, a restart, a clock of
half seconds so that two balances fall in one second; two callers of one strategy that is
loaded twice; two orders validated at once beside a reconciliation and a trade by hand; two
runs of up to three candles over two instruments, with a balance that two positions
exhaust; one instance of every template; four entries over two rotations with two faults;
one archive and one restore with either password; three calls or edits of the configuration
by two editors over two starts; five audit records, any of them cut short.

Bounds. The runtime and the breaker keep no counter that grows: their instances are bounded by the
number of processes, callers and goroutines alone. Two callers are enough for every pair of steps
to race, three goroutines are one more than the probes admitted. Orders do not influence each
other except through the lists the reconciliations take, so one order stands for all of them. In
the Orders run both workers submit it and one cancels; `OneTrouble` keeps what a behaviour
combines small: while and after two submissions overlap (`raced`) nothing crashes and no sweep
runs, and after a crash one worker and the queries go on; an answer that says pending, and an
order the exchange rejects late, come without those and without each other, and once a row was
made pending again no round starts (RaceSpec). OrdersRounds keeps to `OneTrouble` alone.
`MaxReverts` (1) bounds how often a row is made pending again, `MaxSends` (2) bounds how often the
order is sent, `MaxCrashes` (1) how often the process restarts. The breaker limits are 2, so that
neither the first probe nor the first failure decides. In EventBus `Publishes` gives one publisher
three calls, so that a missing event can lie between two that arrive, and the other one, which is
enough for one to wait on a full channel whose goroutine has gone; the channel holds one event
instead of 10 or 1000, so that it fills. The first publisher may have two subscriptions instead of
a second publisher beside it: one is closed under it by an Unsubscribe, the other misses the
event. In the RuntimeShared run a command's process runs only while one of the other two callers
has not called yet. In the Engine run `Teams` names the sets of workers that run together (alone
the NTP worker and the stream worker, which halt on their own; together the listener and the
reconciliation, so that a recovered panic in one meets the other): workers meet only in the mode,
the bus and Stop's wait, so two show what four would. Beside the user one caller stops; Shutdown
and its repetition are looked at with two callers, without the user and the NTP worker (`part`).
`Tolerance` is 2 failures instead of 5, `Capacity` one notification instead of 10, both so that
they are reached. In the Router run `MaxPaper` (3) lets a position be opened, added to or partly
closed, and closed; one `MaxLive` submission is enough for the answer that is lost or comes after
the entry timed out; `MaxEvents` (2) counts what comes from outside the calls: confirmations,
cancels, mode changes, ticks of the clock, price moves, resets and contexts that end; two are
needed for a cleanup (a tick, then the table) to meet a late answer. Limit prices of 1, a market
price of 4 and quantities of 2 and 1 keep every average exact and amounts below 2^31. The queues
of Concurrency hold one or two items and are offered more, so that a full queue, a refusal and a
close over waiting items all happen. Those of Services are two of whatever must race and one more
fault, restart or write than a single recovery needs. `CHECK_DEADLOCK FALSE` stands where the
bounded number of calls lets the system come to rest.

Why serial and shared runs check different things: ModeAgreement, the acknowledged
stop and AgentControl do hold while calls do not overlap, which is how one operator uses a
process of the factory. With two callers Manager.Transition's two critical sections and
persist's late write interleave and they are not invariants; what remains true
then is in RuntimeShared.

Why LiveOrdersKnown excepts overlapping submissions from part of what it says: SubmitOrder reads
the row as pending and does not look again, so two goroutines in it both send the order and the
second Update overwrites the exchange id of the first. The property states what still holds then:
without an overlap a live order is known unless its answer was lost, and the exchange never has
two that were answered, but for one more with each time that a query made the row pending again.
The exceptions of the Services properties are of the same kind: each names the one circumstance in
which the code gives nothing (a Set beside a change of password, an update from a read outside its
transaction, a record behind a torn line, overlapping calls of the configuration) and holds in all
others.

The violations are disagreements of the code with its own text:

- RuntimeTwoProcesses: `emergency-stop` ("halt the runtime immediately") halts its
  own process; the one that trades does not re-read the file. (The command that is shipped has
  not even the file.)
- BreakerWedge: a probe admitted in half-open whose context is done, or whose
  function panics, is never counted back; the breaker then refuses for ever.
- OrdersSweep: an order that was filled is missing among the open ones and is
  recorded as canceled, where the comment speaks of zombies and the test expects
  filled.

Where other texts of the repository promise more than the code keeps, the properties say what it
does keep, and name the exception:

- `cmd/kairos/cli/headless.go` 43-45 says that live trading requires an accepted disclaimer; the
  headless agent and the TUI go live with a disclaimer repository that always says yes
  (`check.go` 431-433). LiveWasPermitted requires the disclaimer of the factory's processes
  alone, and the RuntimeShared run has a command beside them.
- `domain/entity/order.go` 81 calls a pending order one that awaits submission; a query whose status the
  adapter does not know makes a sent row pending (`order_service.go` 285-290, `adapter.go`
  523-524), and it can be sent again. LiveOrdersKnown, RowsKeepTheirOrder and RowsSettle except
  such a row (`reverted`).
- `engine/eventbus.go` 56 says that QoS1 events are never dropped. Publish sends to channels that
  Unsubscribe or Shutdown closed after it copied them, and panics (254); the worker that
  recoverWorker saves publishes its next event, and the other subscriptions have missed the first.
  DeliveredInOrder allows that gap and no other (`lost`).
- `engine/shutdown.go` 17 says that all orders are canceled and connections closed; a second
  Shutdown returns nil after a first one that met errors (57-61). CleanShutdown speaks of a call
  that went through its steps, and of a repeated one only that the first is over.
- `backup/doc.go` 4 promises a backup before every migration; another opener's copy in the same
  second truncates it (`vault/store.go` 271-278), perhaps with the migrated file.
  OpenStoresFitTheFile asks for the copy while no second was used twice (`shared`).
- `providers/storage/sqlite/balance_repository.go` 55 speaks of the most recent snapshot; each asset
  is stored with its own time, and only those with the greatest are read. TablesKeepWhatTheyTook
  speaks of a balance saved with one time.
- `config/doc.go` 7 has the defaults loaded before the file; a start decodes the file into an empty
  configuration (`config.go` 161), so a file cut short has no risk limit. SettingsHold excepts a
  start from such a file (`strayed`).

## 5. Fairness

Only what the code schedules is fair. Breaker: time
passes (an expiry comes), a goroutine in Execute goes on, and calls keep coming
(the engine's worker calls every minute; without calls the breaker decides nothing).
Queues: somebody who can take a step does (`QueuesProgress`: a worker, a closer that has
begun, a delivery, the goroutine of a subscription); jobs and handlers return; nobody has
to submit, publish, read a subscription or close. Orders: the
engine's reconciliation worker calls ReconcileOrders every five minutes in the
trading modes (`engine/engine.go` 566-609), so the start of a round is fair while the engine trades
(`QueryTick`; RowsSettle assumes that it trades from some time on), and its queries and
stores are, the queries and stores strongly, because the exchange and the
disk may fail now and then but not for ever; workers, fills and the sweep are not fair.
Bus: goroutines that can run do, OnEvent returns, and an Unsubscribe that OnEvent called
gets the lock; nobody has to publish, subscribe or shut down. Engine: a worker goes on
in its handler, a call of Stop or Shutdown goes on, and outside calls return (they
carry timeouts). Somebody's exit is strongly fair (one condition on the exits of all
workers together), because a select whose tickers are also ready picks the done context at
last. A subscriber need never take an event (`Sent` is not fair), no OnEvent has to return
(`HandlersReturn` is not fair: CallsReturn says what a caller has then, and what if they do), a delivery
goroutine that may leave does, nobody has to call Stop.
The runtime, router and service runs check no liveness: nothing in the
repository calls CleanupTimedOutOrders or ConfirmOrder, so no entry is bound to go, and the
services promise nothing about when.

## 6. Proofs

`RuntimeSafetyProofs` proves for any processes, callers and assignment of callers
to processes:

- `TypeCorrect`: Spec => []TypeOK.
- `HaltReasonTheorem`: HaltReasonMatchesMode is inductive with TypeOK; every status that is
  written comes from Transitioned, Drifted or Restored, which keep the relation, or is a copy of
  one.
- `LiveTheorem`: LiveWasPermitted, whose disclaimer part is about processes outside `Commands`. It
  is not inductive: the call that makes a process live checked the disclaimer and stored the
  licence some steps earlier. The strengthening LiveInv says that every StartLive past its check
  has the disclaimer, past SetLicense has a licensed status, and that no call outlives its
  process.
- `RequestTheorem`: ActiveOnlyOnRequest, strengthened by RequestInv: a caller that still has its
  steps ahead has its request recorded.
- `SerialModeAgreement`, `SerialHaltIsSticky`: under `OneCallerEach` (no two callers share a
  process), ModeAgreement and HaltIsSticky, from SerialInv, which says where machine and status
  may differ: only between the two steps of the one call.

`CallEffect` and `ProcEffect` say once what a step of a caller and of a process
leaves alone; the theorems use them instead of opening every action again.

- `DurableTheorem`, `AckedStopTheorem`: under `Alone` (one process, put together by the
  factory, and one caller), CallsAreDurable and AckedStopHolds. AloneInv follows the call:
  from the transition to its return, machine and status show what was asked for, the
  snapshot under way has the mode and the connectivity of the status, and the last snapshot
  of an EmergencyStop is taken after the process was cut off. `Alone` cannot be weakened to
  OneCallerEach: RuntimeTwoProcesses is a counterexample.

- `ControlTheorem`: under `Alone` and with a caller at all, Spec implements AgentControl. Each
  of the fourteen kinds of steps maps to one of its steps or to a stutter; TypeOK, SerialInv and
  AloneInv say what the machine, the status, the snapshot under way and the call have in common
  when it is taken. Without them the write at the end of a call need not be of the state that the
  process shows. CallsAreDurable, which speaks of one moment (a call that has returned nil is in
  the file), stays a theorem, and its run now checks the refinement.

The assumptions used are those named in RuntimeSafety, OneCallerEach in the two serial
theorems and Alone in the last three.

`OrderLifecycleProofs` proves the safety properties of the Orders run for any orders,
goroutines, sends, crashes and answers that say pending, and for Spec itself: `OneTrouble`,
RaceSpec and the other bounds of the runs are not needed.

- `TypeCorrect`, `ClosedTheorem`: TypeOK and ClosedRowsAreClosed. The row alone is not inductive,
  since every writer replaces it by a copy that it read before it talked to the exchange. CopyOK
  says what a row may claim of the exchange, and CopiesInv that it holds of the rows, of the copy
  of every worker and of all that the query and the sweep have in their lists; exchange orders
  only get nearer to their end, so an old copy stays true. A row that a query made pending again
  (`reverted`) may be resubmitted, and be stored as rejected over its live order: that is the one
  exception.
- `LateTheorem`: LateEntriesBounded; a goroutine that has sent its late entry is past the gate,
  and the gate is closed.
- `KnownTheorem`: LiveOrdersKnown. KnownInv(o) says of an order that no two submissions raced for:
  one goroutine submits it, while its row is pending; every other copy, of a cancel or in a list,
  names the exchange order its row names, which is for good as long as no query made the row
  pending; and what was sent is in the row, in that goroutine's hands or lost. The number of
  orders sent is counted against `reverted`, so that each resubmission is paid for by an answer
  that said pending.
- `KeepTheirOrderTheorem`: the action property RowsKeepTheirOrder. A step writes a whole copy over
  the row, so it says nothing by itself: KnownInv gives that the copy names the same exchange
  order, and CanceledCopies that a copy which CancelOrder or the queries are about to write as
  canceled is of an order the exchange has canceled.

`EventBusProofs` proves every safety property of the Bus for any publishers,
subscriptions, channel size and number of calls:

- `TypeCorrect`, `TypeTheorem`: TypeOK, with PubNumbered (a publisher that is in a
  call has a number to give to its event), without which the event sent has no type.
- `QuietTheorem`: QuietAfterShutdown. QuietInv adds that the bus is closed as soon as
  Shutdown is called, so that nothing subscribes any more.
- `AcceptedTheorem`: AcceptedIsDelivered. OwedInv says that what is owed is in the
  channel, that a closed channel was cancelled first, and that a goroutine drains
  only when its context is done, so that nothing more becomes owed while it drains.
- `OrderTheorem`: DeliveredInOrder. The calls of OnEvent alone are not inductive:
  OrderInv speaks of the numbers a subscription has seen, called or queued. They
  rise along the calls and then the channel (Rising), none is newer than the
  publisher's call (Newest), and under QoS1 they have no gap up to the current call,
  as long as the channel is open and the context not done (Complete): a subscription
  that was in no copy has seen nothing or is closed (Made). OrderImplied then finds
  no place for a number missing between two calls.

A Publish that panics on a closed channel is part of the specification the proofs
are about, and its publisher goes on: the order stays, and the only numbers missing under QoS1 are
those in `lost`, which Complete and OrderInv carry along.
The assumptions used are CapacityAssumption and MaxPublishAssumption.

`EngineLifecycleProofs` proves the safety properties of the Engine run for any teams of
workers, users, callers, orders and sizes:

- `TypeTheorem`: TypeOK.
- `HaltTheorem`: HaltsWhenItMust speaks of handlers that are over. HaltInv says where the debt is
  until then: a worker with a reason to halt finds the engine halted or has a halt ahead on its
  agenda (for a lost stream perhaps the look at the mode before it). No step loses it: a step
  takes the head off an agenda and only Halt and CheckLive take those heads, Panic writes the halt
  anew, a user who changes the mode clears the debt.
- `CleanTheorem`: CleanShutdown. ShutInv says that at most one caller is in Shutdown, at a place k
  of its steps (those of its Stop and the wait of the bus included), and that, unless it has met
  an error, the steps before k left what they should (Behind); a Stop that returns at once leaves
  an error. `done` says where that call is, so a repeated one returns when it is over, whatever it
  returned. Every other step takes nothing of that back: workers that exited stay so, the bus
  stays closed. PlaceNext is the lemma that a step leads to the next place.

TLC checked HaltInv and ShutInv with two callers before they were proved. The
assumptions used are those named in EngineLifecycle.

`OrderRouterProofs` proves for any callers, orders, prices and bounds:

- `DuplicatesTheorem`: DuplicatesExplained. It is not inductive, since a call between its
  entry and the venue may still send its order: Debt counts those calls with what was
  taken, and the standing entry with what was released. SendingMoves says how a step of
  one caller changes the number of such calls.
- `LeakTheorem`: NoLeak, with the fact that a call that was accepted has a taken order.
- `KeptTheorem`: EntryKept, from OwnEntry: a call stands behind its own entry, or an
  entry of its order was removed since.
- `OutcomeTheorem`: OneOutcome, both its parts. A submission that gets the id of a waiting
  order takes its place, and a goroutine that ends decides its order or leaves it as abandoned.
- `BooksTheorem`: Spec and []ExactAverages imply []BooksBalance. The average entry price is
  a quotient: the code's decimals round it at 16 digits, the model cuts it off at units of
  10^-8. Either way the difference is missing in the books, and where the average of a position
  that is added to comes out whole, code and model agree and the books balance. TLC finds
  ExactAverages to be an invariant of the Router instance, in which positions are opened, added
  to, partly closed and closed; it is a hypothesis, not an assumption on the constants, because
  it depends on the prices that occur. Profit is proved to be booked fill by fill for what the
  position loses, the rest being linear arithmetic over products that are named first.
- `RouterTypeTheorem`: TypeOK, SimTypeOK included. UpdatedTyped says what a fill makes of a
  position: quantity and entry price stay natural numbers through every average, reduction and
  reversal. TableTyped keeps the clock of an entry within the events.

They use that there are finitely many callers (RouterAssumption) and the bounds'
assumptions.

`CircuitBreakerProofs` proves for any goroutines and limits:

- `TypeCorrect`: TypeOK.
- `ProbesTheorem`, `DecidedTheorem`: ProbesBounded and DecidedByProbes. ProbeInv says that
  a half-open breaker has no expiry and has counted its unfinished calls, and that a call of
  the current generation was admitted in the state the breaker still has. LookedFacts and
  JudgedFacts say once what looking at the state and a result can do to the breaker.

The assumptions used are MaxRequestsAssumption, TripAfterAssumption and
GoroutinesAssumption (calls in flight are finitely many, so they can be counted).

`WorkQueueProofs` proves the four refinements, for any jobs, classes, workers, events,
handlers, closers and capacities: `JobsRefinement`, `WriterRefinement`, `BusRefinement`,
`StreamsRefinement`, and `QueuesTheorem` for QueuesImplementWorkQueue. What a step does to
the one item it moves is immediate; the work is in the channels. The inductive invariant of
each part says that what a channel holds is in the state that says so and is there once, so
that what is received leaves the channel and nobody else has it (TailOnce, AppendOnce); that
no two workers hold one job; and that the bus' context ends only after the bus is closed,
without which an event could be given up while it is open. Steps that leave the channel
alone are gathered in one formula (WriterElse, QosElse, Onward) before they are mapped.
With an invariant of its own on top, each part also gives one of its safety properties:
`ActiveJobsTheorem` (ActiveJobsAreActive, inductive once every listed entry is a job: a job is
listed and taken off under the lock that changes its state), `CloseTheorem`
(CloseLeavesNothing: CloseOrder says, for each place of a closer, what its steps so far have
left, and every queued event is in the channel) and `DeliveryTheorem` (DeliveredByQoS: LoopOK and
HeardOK fix the calls a handler has had by the place of the event in its two loops).
`QueueTypesTheorem` gives the three type invariants: with the facts above, that no channel
holds more than it was made for and that the bus' loop over handlers and retries ends where it
should. The assumptions used are those of JobManager, StreamWriter and QosBus.

`ServicesProofs` proves what the Services run checks, part by part, for any sets of handles,
keys, sessions, callers, instruments and editors and any bounds:

- `StoreTheorem`: OpenStoresFitTheFile. Nobody takes back the file, its verifier or a version;
  each place of an opener carries what it has found there. While no second was used twice, a copy
  that is finished is whole and unmigrated, and a file that was there is migrated only behind one.
- `VaultTheorem`: ChangeLosesNoSecret. Between its read and its transaction a change has, of every
  row that is still there, what was written (ChangeSound); a Set that no change ran beside has
  sealed with the key of the file (SetSound); and one Initialize at a time runs, before there is a
  hash (InitializeSound).
- `TablesTheorem`: TablesKeepWhatTheyTook. What a rollback returns to (`before`) is as sound as
  what is written over it, and the order a transaction has read is the one in its table, because
  nobody else has the connection. The latest second is found by a least-element argument over the
  times of the snapshots. Unique is kept by every statement (StatementsStayUnique), and by a
  rollback because `before` has it too.
- `ServicesTypeTheorem`: the type invariant of each of the eleven services. It follows from the
  inductive invariant of each, with what those do not need: that the host's positions, the
  journal's clock, the names of archives and the candles of a run stay within their bounds, that
  only saved versions are copied and only appended entries lost, and that what a refused update of
  the builder has spoiled is stored all the same.
- `ExposureTheorem`, `RowTheorem`: ExposureBounded, RowFollowsExchange. Orders that were checked
  against all there was rest one at a time (ExposureSound), so the sum over any part of them is
  one of them or nothing; a pass has the row as it is and, unless something was traded since, the
  quantity that is held (PassSound).
- `HostTheorem`: HearsItsOwnInput. A buffer that nobody disturbed lies below the allocator's next
  cell, apart from every other such buffer, and holds what its caller wrote (OwnerSound). An
  allocator that is past its start has a call that began with it, or is `strayed`: it was last
  used by a call which will put back an older one.
- `SettingsTheorem`: SettingsHold, from ConfigInv and AuditInv: what an undisturbed file holds is
  what is expected, and what runs is that, unless calls overlapped or the start was from a
  disturbed file. RightsOnlyFade is a lemma about the operators of Entitlement alone.
- `RestoreTheorem`: RestoreIsWhole. CopySound says how far a restore has copied and that what is
  not yet copied is as before, but for the one file that is truncated and not filled yet.
- `BuiltTheorem`: BuiltAsConfigured, from lemmas about the templates and about an update field by
  field.
- `ReplayTheorem`: JournalReplays. The numbers of the entries rise along each segment and from an
  older segment to a newer one (InOrder), so the last entry read for an id is the newest except
  where the active file, read first, has it.
- `BacktestTheorem`: BacktestAddsUp. Worth, what an account has besides what it won and lost,
  changes only by the fees of an opening. AtEntry sums over a function's domain in an arbitrary
  order: SumExists, SumTakesAny and EntryAdds show that the order does not matter and what one
  more or one less position adds; BacktestClosesAll that the end of a run leaves none.

Where an induction would be natural the proofs take the least counterexample instead (Least,
SmallestSubset): the induction theorems of the library have an operator as parameter. For the
same reason `Journal!Replay` picks the newest line by a maximum over the segments in the order
in which they are read, not by a sort. Beyond the bounds' types the theorems assume that a
constant that stands for "no value" is none of the values (NoRowAssumption, NoOneAssumption,
MissingAssumption, the second part of StoreAssumption, the last of JournalAssumption: a nil or
a line that does
not decode is no row, key or entry), and, in Vault, that the keys are finitely many (its type
assumption).

A theorem states each safety property the runs check. Every type invariant the modules state,
HaltReasonMatchesMode, HaltIsSticky, CallsAreDurable and QuietAfterShutdown are proved and no
longer model-checked: a theorem for every instance leaves nothing for a run to add.

Only model-checked: liveness, that is HalfOpenDecidesOrLeaks, QueuesSettle, RowsSettle and the
two CallsReturn. Leads-to under fairness is out of the prover's reach, as are ENABLED,
induction over recursive definitions and RECURSIVE operators, of which the modules have none.
The violations are counterexamples, for which there is nothing to prove.

## 7. Not modelled

- The clock (expiries, drifts and the seconds of names and balances are events that may happen),
  prices and quantities beyond open/partial/complete outside the paper simulator, the risk engine
  and the backtest, the text of reasons and banners, logging, metrics, HTTP and SQL.
- Power loss: a process may die at any step, the operating system keeps what was written.
- Cryptography: a cipher is the key it was sealed with; signatures of licence tokens and the
  authentication of archives are not taken apart.
- `SetIntegrity`, `EnableAnalyticsDegrade`, `ValidatePositionClose`, `ShouldForceClose` and
  `ShouldBlockNewEntries` have no caller outside tests.
- The engine's metrics worker only reads; its setters, and what a bus event or a notification
  says, are left out. A transition notification that finds its channel full is dropped
  (`engine/state.go:147`): modelled, and nothing depends on it.
- An idle snapshot that was blocked stays blocked after a restart until the next NTP probe
  (`runtime/restore.go:37`), and a breaker whose interval is the period of its worker may never
  see its three failures together (`circuitbreaker.go:240`): modelled as the code does, and no
  line of the code says which is meant, so no property speaks of them.
- Of the simulator, unrealized profit and further symbols; of the router, QueryOrderStatus, which
  only reads; of the backtest, the equity curve, win rate, drawdown and profit factor.
- The strategy host's UpdateBalance, GetParameters and SetParameters, which pass through the
  allocator as OnTick does.
- `storage/storage.go` and the repository interfaces: single statements without logic of their
  own.
- The command-line and terminal interfaces parse and render: of `cmd/kairos/cli` only the way it
  puts the agent service together is modelled (`Commands`). Its processes have no snapshot store,
  so AckedStopHolds after a restart, ImplementsControl and what ActiveOnlyOnRequest says of
  snapshots are about the factory's; a command starts idle every time. The strategy commands that
  offer values to the builder are in `StrategyBuilder`.
- Overlapping calls of the order service's ReconcileOrders (a stream event beside the ticker when
  no Reconciler is configured, `engine/engine.go` 515-533): `query` is one call at a time.
- By how much orders that are validated at the same time exceed the position limit:
  ExposureBounded exempts them (`blind`). A side through zero and several strategies on one
  symbol, both part of what ReconcilePositions does by symbol, are exempt or left out.
- The signal's quantity in the backtest is taken as positive, a caller's parameter map that it
  changes after an update of a strategy instance is left out, and so are a clock that goes back
  and the line limit of the scanner that reads the journal.
- CloseLeavesNothing exempts what `WriteAnalytics` takes after the final drain (`late`): that is
  the loss the code permits.
- Export, metrics, the cloud client, the sdk and the integrity check keep no state the others
  read.
