# booking_monitor: specification, model checking and proofs

TLA+ modules for the ticket booking system of this repository, TLC
configurations that check them on small instances, and TLAPS proofs of what
holds for every instance. Paths are relative to the repository; `int/` stands
for `internal/`.

## 1. The system

Customers book tickets of one event. Redis carries the hot path, Postgres is
the source of truth, Kafka carries compensation. The deployed flow is
"Pattern A" (Stage 4): reserve, then pay, then either sell or compensate. Stages
1, 2, 3 and 5 are other binaries that book the same tickets in other ways.

| Component | State | Operations | Talks to |
|---|---|---|---|
| Booking API, `int/application/booking/service.go` | none | `BookTicket` (mint id, deadline, deduct, repair metadata and deduct again) | Redis, Postgres (repair) |
| Idempotency middleware, `int/infrastructure/api/middleware/idempotency.go`, `cache/idempotency.go` | `idempotency:<key>` | look up, replay or refuse, store | around the booking API |
| Redis inventory, `int/infrastructure/cache/redis.go`, `lua/*.lua` | `ticket_type_qty`, `ticket_type_meta`, `saga:reverted:*`, `orders:stream` | `deduct.lua` (DECRBY and XADD in one script), `revert.lua` (idempotent INCRBY) | called by API, worker, compensator |
| Order queue and worker, `redis_queue.go`, `int/application/worker` | stream, pending entries, `orders:dlq` | read pending, read new, process with retries, compensate, dead-letter, acknowledge | Redis, Postgres |
| Order tables, `int/infrastructure/persistence/postgres` | `orders`, `event_ticket_types`, `events_outbox` | the statements and units of work | called by all |
| Payment, `int/application/payment` | none of its own | `CreatePaymentIntent`, `HandleWebhook` (success, late success, failure) | provider, Postgres |
| Expiry sweeper, `int/application/expiry/sweeper.go` | none | `Sweep`, `resolve` | Postgres |
| Outbox relay and advisory lock, `int/application/outbox`, `advisory_lock.go` | a lock connection | leader election, publish a batch, mark | Postgres, Kafka |
| Saga consumer and compensator, `saga_consumer.go`, `int/application/saga/compensator.go` | fetched offset, `saga:retry:*` | fetch, compensate (Postgres, then Redis, then the record), count, dead-letter, commit | Kafka, Postgres, Redis |
| Saga watchdog, `int/application/saga/watchdog.go` | none | `Sweep`, `resolve`, then the same compensator | Postgres, Redis |
| Reconciler, `int/application/recon/reconciler.go` | none | `Sweep`, `resolve`: ask the provider about an order in `charging`, confirm or fail it | provider, Postgres; hands failures to the saga |
| Stages 1 and 2, `int/application/booking/sync`, `synclua` | none | one transaction around a row lock; Redis, then one insert, then the revert | Postgres, Redis |
| Stage 3, `cmd/booking-cli-stage3` | as Stage 4's queue | the queue and workers, in the serving process | Redis, Postgres |
| Stage 5: `service_kafka_intake.go`, `kafka_intake_consumer.go`, `stage5_compensator.go` | fetched offset | deduct, publish, revert; consume into a row or give back; confirm; compensate in one transaction | Redis, Kafka, Postgres |
| Stage servers, `cmd/booking-cli-stage*/server.go` | life of the process | create the event, serve, stop in order, restart | all of the stage |
| Event creation, `int/application/event/service.go` | none | transaction, Redis write, compensation | Postgres, Redis |
| Rehydration and drift detector, `cache/rehydrate.go`, `int/application/recon/inventory_drift.go` | advisory lock 2001; a counter and a gauge | restore missing keys, compare, repair, report | Postgres, Redis |
| Admin event feed, `int/infrastructure/cache/admin_event_bus.go`, `int/infrastructure/api/sse` | bounded channels, a capped Redis stream | publish, drain, XREAD, fan out, replay, shut down | Redis, browsers |
| Configuration, `int/infrastructure/config` | none | load, validate; constructors that refuse later | every process |

What makes it hard:

- One booking's tickets are counted in two places, Redis and Postgres, that no
  transaction spans. Every path that takes them on one side and fails has to
  give them back on that side, once, in the right order.
- Everything is delivered at least once: stream messages after a worker
  restarts, Redis scripts whose reply was lost, webhooks, outbox rows, Kafka
  messages. Commits may take effect although the caller is told they failed.
- Handlers read an order, decide, and move it later in a transaction: webhook
  against webhook, webhook against sweeper, consumer against watchdog, one
  reconciler against another, a compensation against a confirmation.
- Deadlines are compared with the server's clock in some places and with
  Postgres' `NOW()`, frozen at the start of the transaction, in others.
- Redis may be lost and restored from Postgres while bookings are in flight.
- Processes stop in order: listener, sweeper, consumer, workers, hub and bus end
  one after the other, each with work the others may wait for.
- Progress rests on sweepers and tickers after retries have given up.

What each component must guarantee:

| Component | Properties |
|---|---|
| tables | tickets conserved, one order per customer, tables follow `OrderLifecycle` |
| booking path | each message's tickets leave Redis once and return at most once; no delivered booking disappears; dead-lettered means given back; every accepted booking is resolved |
| idempotency | a replay answers the same request, and only a booking that was accepted |
| payment | a paid order stays paid, is charged and carries its intent; one event per failure; 200 only for settled orders; overdue reservations are released; charges are settled |
| saga | Postgres before Redis, once each; the fence `redis_reverted_at` never ahead of Redis; no row leaves the outbox unpublished; failed orders are compensated |
| reconciler | an order follows its charge, whoever asks and however old the answer; it leaves `charging` |
| Stages 1, 2, 3, 5 | tickets are taken when there are any, once; compensated means given back in Redis; every accepted booking is accounted for; overdue reservations are released |
| stage servers | 201 means on sale; a stop in order loses no ticket |
| event creation, Redis as a cache | an event is created or gone; the two inventories differ by what is in flight; lasting drift is reported, and none that is not there |
| admin feed | no panic on a closed channel; a client misses nothing in silence; order; the shutdown ends |
| configuration | what loads is not refused later, satisfies the assumptions of the modules, and is no development setup in production |
| together | Redis never offers what Postgres lacks; both agree at rest; accepted bookings end |

## 2. The modules

| Module | Models | State and actions against the code |
|---|---|---|
| `Catalog` | constants | orders (one per request), customers, quantities, one ticket type |
| `Environment` | clock, failures | `phase[o]` is the relation between `reserved_until` and now: unset, open, lapsed, overdue (grace period passed); `Fault(kind)` takes one of `MaxFaults` failures |
| `Postgres` | tables | `status`, `available`, `outbox`; each operator is one committed unit of work: `InsertReservation`, `MarkPaid`, `FailOrder`, `CompensateOrder` |
| `RedisInventory` | quantity and revert keys | `RevertMsg` and `RevertOrder` are `revert.lua` under its two kinds of compensation id |
| `OrderLifecycle` | the abstract promise | an order is held, then sold or lost, and only a lost one is released (`Sell` turns one or several at once; `Direct`: or a held one, as the stages without a saga do); free tickets move with it; its proofs |
| `Reservation` | `BookTicket`, queue, workers | `api[o]` is how far a request is; `stream`, `cursor`, `pel`, `dlq` the queue; `mode`, `batch`, `step`, `tries`, `why` a worker's local state; `left` the messages logged as left pending. One action per step a crash or another process can come between |
| `Idempotency` | the middleware around `BookTicket` | extends `Reservation` with `cache` and `mw[o]`; looking up, handling and storing are three steps |
| `Payment` | `/pay`, webhooks, sweeper | `payer`, `handler`, `event`, `began` are the local state of requests; `created`, `charged`, `declined`, `webhooks` the provider; `sweep`, `expiring` the sweeper's |
| `Saga` | relay, consumer, compensator, watchdog | `lock`, `leads`, `listed`, `sent` the relays; `topic`, `committed`, `fetched`, `retries`, `sagaDlq` Kafka; `comp`, `job` the two runs of the compensator |
| `Reconciler` | the reconciler, over the saga | extends `Saga` with `charging`, `recorded`, `charge` (what the provider has) and each process's `found`, `subject`, `verdict` |
| `BookingSystem` | Stage 4 as a whole | extends `Reservation`, with instances of `Payment` (`Pays`) and `Saga` (`Undo`) over the same tables, Redis and clock; a step of one leaves the others' variables alone |
| `Stage5Intake` | Stage 5's `BookTicket`, intake consumer, payment shortcuts, compensator | `api[o]` the request; `topic`, `committed`, `fetched`, `at` the consumer; `confirming` UPDATEs that wait for a row; `comp`, `job` the transactions that hold one (`SELECT ... FOR UPDATE` around the Redis revert) |
| `SyncStages` | Stages 1, 2 and 3 beside 5 | extends `Stage5Intake`, whose payment path they share, with `stage` and their ways to book and to compensate; Stage 3 is an instance of `Reservation` |
| `StageServer` | the process of a stage | extends `SyncStages` with `event`, `rows`, `keys` (creation of the event) and `life`, `listening`, `running` (the ordered stop of each server) |
| `HotInventory` | Redis as a cache | `row`, `available`, `key`, `meta`, `group`; `CreateEvent` step by step, rehydration by every pod, `Flush` and `Expire`, the drift detector's sweep; orders cut down to what they do to the two counts |
| `AdminStream` | bus, subscriber, hub, SSE handlers | the channels as bounded sequences, the capped stream, one step per channel operation or Redis call, the shutdown |
| `Configuration` | `LoadConfig`, `Validate`, constructors | predicates on a record of what they look at |
| `CatalogProofs`, `PostgresProofs` | lemmas | section 6 |
| `ReservationProofs` | proofs | of `Reservation`, `Idempotency` and `BookingSystem` |
| `PaymentProofs` | proofs | of `Payment` and `Configuration` |
| `SagaProofs` | proofs | of `Saga` and `Reconciler` |
| `StageProofs` | proofs | of `Stage5Intake`, `SyncStages` and `StageServer` |
| `HotInventoryProofs` | proofs | of `HotInventory` and `AdminStream` |
| `MC*` | instances for TLC | |

A component that needs an order to exist, or to fail, gets it by one step of
its environment when it is checked alone (`Reserve`, `FailPayment`); in
`BookingSystem` the real components do it.

`OrderLifecycle` is the specification the others implement: `Postgres` maps
`orders.status` to its `life` and `available_tickets` to its `free`, and this
refinement is checked of `Reservation`, `Payment`, the saga with the reconciler,
and the stages. Stage 2, whose `available_tickets` are never written, maps what
Redis has given back instead.

Each file keeps, next to a definition, a mutated form of it ("Mutant of ..."):
a bug one could plausibly write, under which the property it is meant for fails.

## 3. What is abstracted

- A message, an intent, an event are named by their order or their position in
  a queue. Payloads, wording, metrics and logs are left out.
- One ticket type of one event. Inventory is per ticket type, so tickets of
  different types never meet; uniqueness is per customer and event.
- An amount matters only in that it may not fit an int64 (`Oversized`), which
  fails the request after the script ran and makes the queued message
  unparsable.
- One Kafka partition and one consumer of it, here and in Stage 5. Retry counters do not expire.
- The provider is external: idempotent on the order id, delivers each event
  until it is answered 200, in any order.
- The body of a request is named by the first order that asks for it. `Earlier`
  is what an entry of the older format, without a fingerprint, answers. The 24
  hours an entry lives are longer than a behaviour.
- The earlier release's `charging`, `confirmed` and `failed` stand under the names
  of this one in `Reconciler`; `phase` is there the age against its two thresholds.
- Of a configuration, a text is kept as far as the program tells texts apart.

Bounds, all of them named: `MaxFaults` failures of the kinds in `Faults` (in
`HotInventory` losses of data too, in `StageServer` the one stop too; that the
creation of an event fails there takes none); the sets of `Orders`, `Workers`,
`Handlers`, `Relays`, `Reconcilers`, `Pods`, `Conns`; `Requests`, those that
arrive in each stage; `Failing`, the orders whose payment fails; the batch sizes
(`BatchSize`, `SweepBatch`, `RelayBatch`, `StuckBatch`, `ReconBatch`, `ReadCount`),
retry budgets, `MaxConsecutiveFailures`, channel capacities, `MaxEvents` and `MaxFailedCalls`; a
decline happens once per order; `NobodyPays` in `SystemSafety`.

## 4. The runs

| Run | Instance | Question and answer |
|---|---|---|
| `Reservation` | `MCIdempotency`: 3 requests with one key, two of alice with one body and one of bob's that is oversized; 2 tickets, 1 worker, 2 attempts, 1 failure of any kind; 172 thousand states | Is anything given back twice, lost, or answered with another's booking? Is every accepted booking resolved? Safety and liveness hold. |
| `ReservationRedelivery` | `MCReservation`: a worker that dies after a commit | expected violation, finding 1 |
| `SyncStages` | `MCStageServer`: Stages 1, 2, 3 and 5, 2 requests (3 in Stage 1), 2 tickets, a reported failure of payment, 1 failure of any kind or a stop; 255 thousand states | Does any stage sell twice, forget a compensation or a published booking? Is what was answered true, does a stop lose something? Safety, liveness and refinement hold. |
| `Payment` | 1 order, 2 handlers, sweeper, 3 failures | All payment properties, safety and liveness, hold. |
| `PaymentUnalerted` | | expected violation, finding 2 |
| `Saga` | 2 orders, one of which fails, 2 relays, consumer, watchdog, 2 reconcilers for the one that is in `charging`, 1 failure of any kind | Tickets return once and Postgres first, the outbox is honest, orders follow their charge, failed ones are compensated. |
| `SagaSkipped` | both orders fail, a Redis failure | expected violation, finding 3 |
| `SystemSafety` | 2 customers, 2 tickets, 2 workers, the whole of Stage 4, nobody pays, 1 failure; 2.3 million states | Tickets of one reservation recycle to the next; Redis and Postgres offer the same at rest. |
| `SystemLiveness` | 1 order, the whole of Stage 4, may be paid, no failure | Every accepted booking ends and the inventories agree for good. |
| `SystemRetry` | one customer, two orders | expected violation, finding 4 |
| `HotInventory` | 2 orders, 2 pods, 2 failures or losses; 1.1 million states | An event is created or gone, the ledger of the two inventories balances, the gauge comes to tell the truth. |
| `AdminStream` | 1 connection, buffers of one, 2 events, 1 failure | No panic, no silent loss, order, and a shutdown that ends. |

Why these bounds show the interesting cases:

- In `Reservation` two tickets against three requests of sizes one, one and two
  give a sold-out inventory, a duplicate customer and competition for the last
  tickets; a batch of two leaves an unprocessed message behind a failed one. All
  three with one key overlap in the middleware in every way, and bob's request
  has the key but not the body. One worker meets its own pending entries after a
  restart; two workers meet in `SystemSafety`.
- Payment properties speak of one order; orders meet only in
  `available_tickets`, which no payment step touches. Two handlers make every
  pair of webhooks race, and the third actor of a race is the sweeper. Three
  failures give a lost commit, a redelivery and a crash in one behaviour.
- Two relays give a deposed leader that still publishes, two reconcilers two
  answers of different age. One order that fails is enough for consumer and
  watchdog to meet at it, the other keeps its tickets out of Redis or is
  reconciled; the run of finding 3 has both fail, the least with which a commit
  covers another.
- In `SyncStages` the customer's second request is the one the unique index
  refuses after its tickets were deducted; Stage 1 has a third, of another
  customer, that competes for the row lock. The single failure is a crash that
  redelivers a committed message, a script that runs twice and sells out what is
  left, a publish that timed out, a revert or commit that is lost, or the stop,
  which itself may be cut off.
- `HotInventory` needs two failures: a loss, and one more while it is repaired.
  Two pods are the one that holds the lock and the one that skips. A tolerance
  of one against orders of one and two tells a tolerated drift from a reported one.
- In `AdminStream` a full buffer takes one message more than its capacity, so
  two events against buffers of one fill each of them; the connection may
  disconnect, be slow, or register while the hub stops. They do not make the
  subscriber pass over an id that was trimmed in between, which takes a third
  event and a state space out of TLC's reach: that half of `RelayedInOrder`
  rests on its proof, `FeedRelaysInOrder`.
- `SystemSafety` leaves out two kinds of failure: those that make a worker
  repeat a committed message (`crash`, `ack`, `commit`), because finding 1
  breaks `NoOversell` then, and those that lose a Redis revert (`redis`),
  because finding 3 leaves Redis behind then. The constraint `NobodyPays` keeps
  its state space in reach; payments in composition are in `SystemLiveness`.

`MCPayment` also evaluates two assumptions on configurations: one with which every
process starts (`SampleAssumption`), so that the theorems about what loads speak of
something, and values that load although a component refuses them later
(`RefusedLater`).

## 5. Fairness

Weak fairness, per process, of the disjunction of its own steps, never of a
single outcome: the server finishes its requests; a worker, relay, consumer,
watchdog or reconciler runs and is restarted when it dies (a supervisor and
tickers: the sweep intervals of `int/infrastructure/config/config.go` have
defaults and must be positive); in the stages consumer, workers and sweeper are
goroutines of the server, restarted with it, and a transaction that has locked a
row goes on to its end; a server that was told to stop goes on with stopping; a
pod that starts goes on with its rehydration, and the drift detector ticks; the
goroutines of the admin feed run; the provider redelivers until it is answered.
Nothing makes a customer ask or pay, a client connect, an operator stop a server
or create an event, nothing makes a failure happen, and failures are bounded, so
liveness is checked of behaviours that are free of failures from some point on.
`SystemLiveness` also assumes that time passes.

## 6. Proofs

Every safety and action property a passing run checks is also a theorem. The
proofs hold for any finite set of orders, any customers, quantities and total, any
workers, handlers, relays, reconcilers, pods and connections, any batch sizes,
capacities, retry budgets and numbers of failures. They assume the named
assumptions of the modules and nothing else: `CatalogAssumption` (finitely many
orders, positive quantities), `EnvironmentAssumption`, `ReservationAssumption`,
`PaymentAssumption`, `SagaAssumption`, `ReconcilerAssumption`, `StagesAssumption`
(batch sizes and attempts positive, and the like), `SystemAssumption` (those of the
parts), `IdempotencyAssumption` (one body has one customer and one quantity, for
the body that is fingerprinted holds both, `int/infrastructure/api/dto/request.go`),
`HotInventoryAssumption` and `AdminStreamAssumption`. Three theorems have a
hypothesis of their own: `StopsLoseNothing`, `SystemNeverOversells` and
`SystemRestsInAgreement`, see there. `LoadedIsUsable` shows that configurations
`LoadConfig` accepts satisfy the assumptions on the batch sizes and attempts of
worker, watchdog and reconciler.

`CatalogProofs`. What the other proofs need of the cardinality of the tickets of a
set of orders (`TicketsOfOneMore`: it grows by an order's quantity;
`TicketsOfUnion`, `TicketsMonotone`), and that a set of numbers has a least one
(`LeastNatural`) and what the first n of an interval are (`FirstOfInterval`): what a
worker takes up, and what XREADGROUP delivers.

`OrderLifecycle`. `Inv` is typing, conservation and one order per customer;
conservation alone is not inductive because a quantity must be a number and an
order must be counted once.

`PostgresProofs`. `PgStep` is any of the four transactions. It keeps the types
of the tables and is a step of `OrderLifecycle` or a stutter. A component whose
steps are all `PgStep`s therefore implements `OrderLifecycle` and inherits
conservation and one order per customer. `OutboxGrows`, `RowsHaveOrders` and
`CompensatedStays` say what no transaction takes back.

`ReservationProofs`, the booking path.

- `ReservationTypeOK`. The least obvious parts: the current message is a member
  of the batch (a nonempty set of numbers has a least one), and what XREADGROUP
  delivers is the interval after the cursor and does not overrun the stream.
- `ReservationImplements`, then `ReservationConserves` and
  `ReservationOneOrder`: `Next` is a `PgStep`.
- `ReservationLosesNothing` and `ReservationDeadLetters`. `NoBookingLost` is not
  inductive: that an acknowledgement removes only a resolved message depends on
  where the worker stands. `DeliveryInv` adds that a worker about to
  dead-letter has reverted, and one about to acknowledge has resolved, its
  current message. `ResolvedStays` says that what is resolved stays so.
  `DeliveryInv` was checked by TLC before it was proved.
- `ReservationLedger`. `QueueStep` classifies each step by what it does to the
  quantity in Redis and to the stream; `QueuedBefore` says that a longer stream
  has the tickets of its old messages as before. The ledger alone is not
  inductive: `LedgerInv` adds that only messages of the stream are reverted, else
  one could be queued whose tickets had come back already.

`ReservationProofs`, the middleware.

- `ReplaysAnswerTheRequest`, an action property. `MiddlewareInv` says what an entry
  may be: empty, of the older format, or the answer to an accepted booking with the
  body it is filed under. An accepted booking stays accepted, so whoever replays,
  however late, replays the truth.

`ReservationProofs`, Stage 4 as a whole.

- `SystemImplements` and `SystemConserves`: the steps of all components are
  `PgStep`s, whatever fails.
- `SystemNeverOversells` and `SystemRestsInAgreement`, under `Tame`: no failure that
  repeats a committed message (`crash`, `ack`, `commit`) or loses a revert (`redis`) is
  among `Faults`. Findings 1 and 3 show that without it both are false. What is left
  of `Faults` (failures of Postgres, Kafka and the provider, scripts sent twice,
  messages delivered twice, lost lock sessions) may happen any number of times, and customers may pay: the theorems go beyond
  `SystemSafety`, which is TLC's instance of them, where nobody does.
  The argument: `LedgerInv` says what Redis lacks, in messages and orders given
  back; `WrittenInv`, that the messages that became orders are as many tickets as
  the orders there are, and it needs `ReadOnceInv` (a message is with one worker) and
  `GivenBackInv` (a message whose tickets are back is on its way to the dead-letter
  stream, and will not become an order); `UndoInv`, that a compensated order is given
  back or about to be. With conservation in Postgres the two counts then differ by
  what is underway (`Balance`), which is nothing at rest. `RestsInAgreement` first
  excepted states with a failed order; the proof did not need the exception, so the
  run checks the stronger form.

`PaymentProofs`.

- `PaymentTypeOK`, and `PaymentImplements` by the same argument: every step of
  `Next` is a `PgStep`.
- `PaymentPaidIsCharged` and `PaymentAnsweredIsSettled`. That only charged
  orders are paid depends on what is under way, so `PayInv` adds causality: a
  success event, waiting or served, is about a charged order, and a handler that
  is on its way to `MarkPaid` serves a success. Answering is safe because each
  branch that answers 200 has just seen the order settled, and a settled order
  never returns to `awaiting_payment`.
- `PaymentPaidIsFinal` is an action property, from the guards of the four
  transactions.
- `PaymentOneEvent`. Its invariant `EventInv` says the same without counting (a
  failed order has a single row, with the reason it failed for, and any other
  order none); each `PgStep` preserves it, so it holds of every component.

`SagaProofs`, about the saga with the reconciler (`ReconSpec`).

- `SagaTypeOK`. `SagaTypeInv` adds that a consumer that is compensating has
  fetched a message, without which the position it commits could be none.
- `SagaImplements` and `SagaConserves`: every step is a `PgStep`.
- `SagaMarkedIsReverted`. `MarkedInv` follows the compensator: past its
  transaction the order is compensated, and one that is about to set
  `redis_reverted_at` has reverted it. Since two compensators may hold one order,
  the invariant speaks of both and of everything reverted so far.
- `SagaLedgerHolds`. `InventoryStep` classifies each step by what it does to
  Redis: nothing, the deduction for an order that comes to exist, or the return
  of one order's tickets, once; the ledger is preserved by each class.
- `SagaNoPhantomTickets`: the ledger, conservation and `MarkedInv` together.
  What is reverted is compensated, so Redis lacks at least what Postgres lacks.
- `SagaProcessedIsPublished`. `RelayInv` adds that what any relay holds as sent,
  leader or not, is in the topic.
- `SagaVerdictIsFollowed`. `VerdictInv` says that the verdict a reconciler carries
  was justified by the provider's answer and stays so while the order is in
  `charging`: a settled charge does not change, and age only grows.

`HotInventoryProofs`, about any losses and pods.

- `CacheCreatedOrGone`: rows are deleted only on the way to an answer that says so;
  `KeysInv` adds that keys are written before the answer and only a loss takes them.
- `CacheLedger`. `CreationInv` adds that nobody books before the creation has been
  answered, so that the keys it writes are right, and that no pod restores a key
  before there is a row; `RevertedInv`, that only what was given up or released is
  ever reverted, so that taking an order into flight is noticed. `OrderStep` lists
  the six things an order can do to the two counts and to what is between them.

`HotInventoryProofs`, about any connections of the admin feed.

- `FeedOpenWhileRegistered` and `FeedLosesNothingSilently`. `OnceInv` says that the
  hub is offered a client once: a connection is in the channel `register` at most
  once, and one the hub has had never returns to it; `BlankInv`, that before the hub
  takes a client it was sent nothing, so that what it is owed starts when it is
  registered. The lemmas `WriteMovesOne` and `SendAddsOne` are about what wire and
  buffer hold together.
- `FeedRelaysInOrder`, an action property. `OrderInv` says that the batch just read is
  consecutive and starts after the last id relayed, but for what was trimmed;
  trimming may go on while it is relayed, and the oldest id only grows.

`StageProofs`, about the servers of the stages.

- `StagesCompensateAfterRevert`, `CommittedAccounted`, `AnswersAreTrue`: from `BaseInv`.
  A compensation owns the row it has locked (`LocksInv`) and comes to its commit only
  when the tickets are back (`BackInv`); what the consumer has fetched is accounted
  for, left, or what it is at (`FetchedInv`); Stage 1's booking finds under its lock
  the tickets it has seen (`TicketLockInv`).
- `Stage2NeverOversells`. `RedisInv` counts the orders that are underway too, from the
  deduction to the row; a failure may lose tickets, but not find some.
- `StagesFollowLifecycle` and `StagesConserveTickets`: the refinement under `Direct`.
  Stage 2, where no row counts, needs `RedisInv` to show that an order takes free
  tickets.
- `StopsLoseNothing`. `ExactInv` is `RedisInv` as an equality, as long as nothing fails
  but the stop. To keep it Stage 5 needs that a message is published once and left
  to at most one process (`PublishInv`), and Stage 3 that each is with one worker, who
  knows whether it is done (`WorkInv`). The forms of both that TLC had accepted were
  not inductive. The hypothesis is that every amount fits (`Oversized = {}`): tickets of
  one that does not are deducted before the request fails, with no failure of any
  server, and nobody gives them back.

`PaymentProofs`, about configurations.

- `LoadedIsUsable`: above. `LoadedIsNotRefused`: what loads is not refused later by
  the reconciler or the watchdog.
- `ProductionIsReal`: in production the gateway is Stripe's, the key is of the
  right kind, no development default is left, and admin requests are checked.
- `MockIsNeverServed`: no configuration with the mock provider starts the server
  (section 7).

Two things the proofs changed. `OrderLifecycle` had let orders be sold one at a
time; in Stage 2 a crash can turn several at once, those that are paid while their
booking is about to be reverted, which `SyncStages` with its single failure does not
reach. And `RestsInAgreement`, above.

Only model-checked is liveness, which is out of the prover's reach:
`AcceptedIsResolved`, `StagesAccepted`, the two `OverdueIsReleased`,
`ChargedIsSettled`, `FailedIsCompensated`, `AgedIsResolved`, `AcceptedEnds`,
`SettlesInAgreement`, `GaugeSettles` and `ShutdownEnds`.

## 7. Findings

1. `ReservationRedelivery`. A worker that commits an order and dies before the
   acknowledgement finds the message pending, fails on the primary key until
   its retries are used up, and compensates it: Redis offers tickets Postgres
   has sold (`int/application/worker/message_processor.go:108`). The comment at
   `int/application/worker/queue.go:112-115` counts on `revert.lua` to absorb the
   duplicate; its key is the message id, whose first revert is the wrong one.
2. `PaymentUnalerted`. A success that loses the race inside its transaction to
   a decline or the sweeper is answered 200 as a duplicate without the
   late-success alert: the customer is charged for a dead order and nobody is
   told.
3. `SagaSkipped`. The consumer goes on past a failed message without
   committing, and the commit of a later message covers it: its tickets may
   never return to Redis, with no dead letter.
4. `SystemRetry`. `uq_orders_user_event` spares only the status `failed`, which
   Pattern A does not write, so a customer whose payment failed can not buy
   again; migration 000006 says the index exists to let them.

The theorem `MockIsNeverServed` states a fifth. `LoadConfig` copies
`PAYMENT_WEBHOOK_SECRET` into the secret of Stripe
(`int/infrastructure/config/config.go:687-701`) and `Validate` then refuses the mock
provider for having one (`config.go:852`), while the webhook handler and the test
endpoints need `PAYMENT_WEBHOOK_SECRET` (`webhook/module.go:47`,
`testapi/module.go:33`). So the server never starts with the mock provider, although
`config.go:692-694` says deployments that set the legacy variable keep working and
`.env.example:64-72` and `docker-compose.yml:56,69` combine the two. With
provider Stripe and `STRIPE_WEBHOOK_SECRET` alone it loads and the server refuses it;
with both, the warning says Stripe's takes precedence but the handler verifies
with the legacy one (`webhook/module.go:56`).

Seen while modelling and not kept as runs:

Booking path.

- A message left pending after a failed revert is only read again when the
  worker restarts, not in the next cycle as `redis_queue.go:472-474` says.
- A reservation that lapses in the queue is dead-lettered
  (`int/domain/order.go:373`), where `int/application/worker/queue.go:62-67` says
  it is inserted.
- Stages 3 and 4: the worker acknowledges with the context a stop has cancelled
  (`redis_queue.go:343`), so a graceful stop right after a commit leads to finding
  1. `StopLosesNothing` therefore excepts Stage 3. Stage 4's server does not wait
  for its worker at shutdown.
- Two requests with one key that both miss the cache both book
  (`README.md:315` says "at-most-once"). Keys are global: another user's request with
  the same key and body is answered with the first one's order.

Payment, saga, reconciler.

- Two deliveries of one success across the deadline can raise the refund alert
  for an order the other marks paid.
- `repositories.go:1169-1170` calls `MarkRedisReverted` best-effort;
  `compensator.go:346` fails the message when it fails.
- `reconciler.go:205` tests the age before the null intent (`:234`), so an order the
  comment at `:221-233` says is skipped is failed once it is old enough.
- `recon.go:254-260` says `--once` recovers a panic and panics again; `safeSweep` does
  not.

Stages.

- Stage 5: a publish that times out although the message reached the topic is
  refunded under the bare order id, and the consumer or the compensator gives the
  same tickets back under `order:<id>`: two keys, two refunds
  (`service_kafka_intake.go:166-167`). A redelivered intake message meets its own
  row as a duplicate and reverts the tickets of a live order. This is why nothing
  is claimed of the sum of Redis and Postgres in Stage 5 outside
  `StopLosesNothing`, which speaks of behaviours without a failure.
- Stage 2: an insertion whose reply was lost is reverted while its order is alive.
- Stages 2, 3 and 5: a compensation whose commit fails after the Redis revert leaves
  an order that can still be confirmed.
- `StagesAccepted` excepts what is logged as left for redelivery: a later commit
  covers such a message.

Redis as a cache.

- A pod that skips the rehydration because another one holds the lock serves
  before that one is done; a booking on the missing key creates it with 0 and
  SETNX then skips it (`cmd/booking-cli/server.go:214-215`, `rehydrate.go:39-42`). A key restored
  while messages are in flight has their tickets twice. `Ledger` excepts both
  (`astray`), and the detector reports what comes of them.
- Messages queued before the group was made anew at `$` are read by nobody
  (`redis_queue.go:230-236`).
- A lost commit in `CreateEvent` leaves rows without keys.
- `inventory_drift.go:191-218` reports the largest of clean, drifted and skipped, so a
  skipped ticket type hides a drifted one.

Admin feed.

- A replay that is cut short says so only when it is empty (`handler.go:217-220`);
  events between XRANGE and the registration are missed (`hub.go:205-206`), and
  those buffered during the replay are sent twice (`handler.go:55-57`).
- The hub does not drain its broadcast channel at shutdown, although a comment says
  so (`bootstrap/admin_stream.go:228-229`): `hub.go:161-188` returns and closes the
  clients. The model follows the code; what is left in the channel, the retry hint
  among it, reaches nobody.
- A registration the hub has not taken when it stops waits until its client leaves
  (`hub.go:48-49`); `ShutdownEnds` excepts it (`Stranded`).
- With `$` an idle subscriber misses what arrives between two calls of XREAD.

Configuration.

- `Kafka.OutboxBatchSize` and `Booking.ReservationWindow` are validated nowhere: with
  a batch size of 0 the relay publishes nothing. Those of the sweeper and the drift
  detector are only partly validated when loading (`RefusedLater`).

## 8. Not modelled

- The 7-day expiry of revert keys and the 24-hour expiry of retry counters and
  idempotency entries: longer than any behaviour a bounded model has. Differences
  between the clocks of the servers.
- The compensator's paths B and C, for messages older than the current wire
  format; the status `pending` and `order_status_history`, which nothing reads.
- Of Stage 5: several partitions, and messages that do not parse (the publisher
  encodes its own). The routes' validation of a request.
- The handlers that only read (orders, history, events) and the mapping of their
  bodies; authentication and signatures, which accept or refuse a request before
  any state is touched; the error classes of the gateways, which every caller treats
  alike but for the HTTP status.
- Reading of files and environment variables; configuration that nothing tests.
- Logging, metrics, tracing decorators, dora, demo and load tests: no state of
  the booking domain.
- In the composition: `HotInventory`, `Reconciler` and `Idempotency` are not parts of
  `BookingSystem`, whose state space leaves no room for them. Each is checked over the
  parts it touches.

## 9. How it was built, and what could follow

The tables and their abstract specification came first, then the components of
Stage 4, each as a module, a run and its proofs, then their composition; then the
stages it is compared with, from the booking algorithm to the server process; then
what stands around the booking path: Redis as a cache, idempotency, the
reconciler, the admin feed, the configuration.

A proof that the reconciler and the saga keep the promises of the composition
together, as `BookingSystem` without it does, would follow from the same lemmas.
A model with two ticket types would reach the detector's summary over several of
them.
