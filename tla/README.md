# Verification of the cross-border logistics platform

TLA+ models, TLC runs and TLAPS proofs for the Go services under `backend/`
and what they do to each other over PostgreSQL, Kafka and HTTP. Paths below are
relative to the repository.

## Inventory

Six Go services, one Kafka broker, and a React frontend. Four services have a
PostgreSQL database of their own (Read Committed, pgx); the admin and the
notification service keep their state in memory. Nothing is shared between services but
HTTP calls and Kafka records; inside a service, HTTP handlers, an outbox worker
and consumers are goroutines that share only the database (the admin and
notification services: a mutex).

| Component | State | Operations | Hard behaviour | What makes it correct |
|---|---|---|---|---|
| Order state machine (`order/domain/order.go`) | an order's status | `CanTransition` | none by itself | no cycles: everything below leans on it |
| Order event consumers (`order/adapters/kafka`, `HandleX` in `order/application/service.go`, `processStatusEvent`) | `orders`, `tracking_events`, `processed_events`, `outbox_events`; Kafka offsets | apply a deposit, a remaining balance or a package to an order | two consumers and operators on one row, redelivery, restarts, lost COMMIT answers, poison records | no event lost, none applied twice, only legal transitions, truthful status events |
| Payments (`payment/...`) | `payments`, `provider_callbacks`, `outbox_events` | create a payment, mock success, provider callback | every request is concurrent with every other; the order is read over HTTP and not locked; callbacks repeat | one payment per order and type, one success event per payment, an acknowledged transfer is paid |
| Order creation (`Create` in order and quotation services) | `orders`, `quotations` | confirm a quotation, insert the order | a saga over two databases, concurrent and repeated requests, a half-hour limit | one order per quotation, a confirmed quotation can get its order, money adds up |
| Outbox worker and producer (`pkg/kafka`) | `published_at`, `attempts` | fetch 20, publish, mark | crash between publish and mark, failed publish inside a batch | at least once; what order is kept |
| Warehouse (`warehouse/...`) | `packages`, `outbox_events` | receive a package | the number is looked up, the order read over HTTP, the package inserted, and nothing joins the three | one package per tracking number, an order arrives only for a package on record |
| Quotations (`quotation/...`) | `quotations` | extract and price a product, snapshot, confirm | parsing and sums at the limit of `int64`, rates that fail, a half-hour limit | a quotation adds up exactly at a rate the bank gave |
| Product extraction (`quotation/adapters/extraction`) | none | fetch and parse a product page | none that is shared | - |
| Admin rates (`admin/...`) | a cache under a mutex that is held over the call of the bank | fetch, fall back on the cache, back off | the source fails, is slow or answers nonsense; the caller goes; restarts | rates never go back, calls are spaced, every answer has a cause |
| Notification service (`cmd/notification-service`) | history and subscribers in memory | publish, subscribe, replay | full channels, trimmed history, repeated records, restart | order of events per stream, what may be missed |
| Order pages (`frontend/src/hooks/useOrderStream.ts`) | what is shown, the state of the stream, the last event id | connect, refresh, poll | reconnects, fallback | a page does not stay behind the order |
| Other pages, middleware, configuration, deployment | - | - | - | - |

`PROJECT.json` lists the same parts with their sources, and under `hazards` the
lines where each of these can go wrong.

## Modules

| Module | Models |
|---|---|
| `OrderStatus` | the statuses, the transition table, the three event kinds with target, required and claimed previous status |
| `OrderEvents` | the order service as a consumer: one action per statement others can interleave with |
| `OrderLifecycle` | abstract: what an order is for its customer, with no broker, lock or failure |
| `OrderEvents_proofs` | the inductive invariant of `OrderEvents` and theorems from it |
| `OrderDelivery_proofs` | exactly-once, the timeline, the status events, admissibility, the offsets and the refinement of `OrderLifecycle`, proved from that invariant |
| `PaymentService` | concurrent create, mock and callback requests of the payment service |
| `PaymentLedger` | abstract: one payment per order and type, paid at most once, one event |
| `OutboxRelay` | the outbox table of a producer and the worker that publishes it |
| `EventChannel` | abstract: an at-least-once channel |
| `OutboxRelay_proofs` | the inductive invariant of `OutboxRelay` and theorems from it |
| `PaymentService_proofs` | the inductive invariant of `PaymentService`, its safety and the refinement of `PaymentLedger` |
| `WarehouseReceipt` | the warehouse receiving packages, composed with `OrderEvents` |
| `WarehouseReceipt_proofs` | the composition implements `OrderEvents`; one package per number |
| `OrderPlacement` | a quotation becomes an order: create requests over the quotation and order services |
| `Placement` | abstract: a quotation is offered, reserved, ordered, and then told of |
| `OrderPlacement_proofs` | the inductive invariant of `OrderPlacement`, its safety and the refinement of `Placement` |
| `Pricing` | parsing and calculation of a price in integers of limited width |
| `ExchangeRates` | the admin service's cache of the bank's rates |
| `QuotationPricing` | quotation requests, composed with `ExchangeRates` and `Pricing` |
| `QuotationPricing_proofs` | the inductive invariants of the rates and the quotations, and theorems from them |
| `NotificationHub` | the notification service and the pages that follow an order |
| `NotificationHub_proofs` | the inductive invariant of `NotificationHub` and theorems from it |
| `MC...` | instances for TLC |

Operators introduced by a comment "A fault" are wrong on purpose: they are what
`PROJECT.json` puts in place of the operator after them, to see that a property
notices. They take no part in any specification.

### OrderEvents

`status`, `timeline`, `outbox`, `processed` are the tables of
`migrations/order/001_create_orders.sql`; `log` and `committed` are the broker's
records and group offsets; `position`, `pc`, `at`, `current` are the memory of
the two consumer goroutines. A record goes through `Poll`, `CheckProcessed`
(the SELECT before any lock), `LockOrder` (SELECT ... FOR UPDATE), `Commit`
(the checks passed; the four writes become visible at once) and `CommitOffset`.
The writes before COMMIT are one step with it because nobody else can see them
and the row lock is held. `Reject`, `OrderNotFound` and `StatementError` roll back and
lead to the next attempt; `Refuse` is the warehouse consumer's skip of
`ErrInvalidInput`. `CommitUnacknowledged` leaves the transaction with the
server (`indoubt`), which keeps its row lock and later commits or aborts it,
while the handler already retries. `PollError` is the branch that drops records
which come together with an error; it is possible on the partitions in `Lossy`.
`Crash` loses the memory and resumes at the committed offsets.

Events are told apart by kind, order and what validation makes of them
(`valid`, `malformed`, `invalid`, `mismatch`); amounts and payloads are
abstracted to that. `Accept` and `Publish` are the other services: a payment or
package is accepted on a status the order had when it was read, and its record is
written at least once. `OperatorMove` is external: the statuses between
`WAITING_PURCHASE` and `WAITING_REMAINING_PAYMENT` are set by no code here.

### PaymentService

Every request has a program counter. Creating: `FindExisting`,
`GetPaymentSummary` (HTTP), `Insert` (unique index). Paying: `FindPayment`
outside the transaction; for a callback `ReadCallback`; `LockPayment`
(FOR UPDATE), `RecordCallback` (its key makes it wait for another transaction
that has inserted the same transfer), `Commit`. `row`, `recorded` and `outbox` are
`payments`, `provider_callbacks` and `outbox_events`; `rowlock` and `claim` are
the server's locks. A payment is named after the request that inserted it and an
event after the request that wrote it: both ids are minted per request. The
callback routes and the mock route are registered for different values of
`PAYMENT_PROVIDER`, hence `provider` and `Registered`. The two gateways with a
callback (`sepay`, `sepay_pg`) reach the same application function and are one
value here.

### OutboxRelay

Three services share `pkg/kafka/outbox.go` and have the same table and the
same three statements. `Stamp` is the handler reading its clock and `Insert` the
commit of its transaction, so rows become visible in another order than that of
`created_at`. `FetchUnpublished` takes the oldest rows not yet published, at
most `Limit` (20 in the code); the loop over them is `Publish` and
`MarkPublished` for each, always of the oldest one left. `PublishError` and
`MarkError` are calls that fail, whether or not they took effect (a lost
acknowledgement), `PublishRefused` is a record the broker never takes, and
`Crash` stops the process in any of these calls; a shutdown, which leaves the loop
when the context is cancelled, is the same. `attempts` and
`last_error` are written and never read, so they and `MarkFailed` are left out.
`clock` only supplies times; that two handlers of one process that do not
overlap never read the same microsecond, and that the host's clock does not
step back, is assumed. `earlier` and `failed` are history variables for
`DeliveredInOrder`.

`EventChannel` is also what `OrderEvents` assumes of its producers (`Accept`,
`Publish` and the fairness of `Publish`), and what `NotificationHub` assumes of
the order service's outbox (`Deliver`).

### WarehouseReceipt

A request to `/packages/receive` stands for the package and the event it would
write, whose ids it mints. `Receive` is the input checks and `SELECT EXISTS`;
`GetWarehouseSummary` the HTTP call, whose answer is what `Accept` of
`OrderEvents` is for a receipt (a status the order had when it was read);
`InsertPackage` the INSERT, where the unique key of `source_tracking_number`
makes a second transaction wait for the first; `CommitReceipt` the outbox row
and the COMMIT. `ReceiptError` is a statement or both attempts of the HTTP call
failing, `ReceiptUnacknowledged` a COMMIT whose answer is lost (`indoubt`: the
server decides later), `WarehouseStops` a stop of the service. Everything else
is a step of `OrderEvents` (`Elsewhere`), except that a package's record is
published only once its row is committed. Measurements, warehouse codes and
the wording of refusals are left out: a request that fails a check, or whose
order is unknown or in another status, is answered `refused`.

### OrderPlacement

`Create` of the order service reads the quotation (`GetQuotation`), asks for its
confirmation (`call` is the request at the quotation service: `CheckAge` is
`FindByID` and the half hour, `Confirm` the conditional UPDATE), takes its answer
(`ConfirmQuotation`), and runs one transaction: `SelectOrder`, `InsertOrder`
(primary key: it waits), `CommitOrder` with the item, the timeline row and the
event. `DependencyFails` is either call failing or timing out, and the quotation
service goes on with a call its client has given up. The id of the order is
derived from the quotation's (`orderID`), which is what makes repeats meet.
`GrowsOld` is the passage of half an hour. The history variable `calm` holds
the requests that nothing has interfered with: no other request about the
quotation, no failure, no ageing. A 201 for an order that was there already
carries an order made up from the caller's own request; its amounts and
customer are compared with the stored order, while its address, status and
creation time are the caller's own and are left out.

### Pricing, ExchangeRates, QuotationPricing

`Pricing` computes with `Wrap`, the machine's integers, for any width: the price
parser with its guard, which itself wraps round when a sign follows the decimal
point, and the calculation, exact in big integers and guarded before it is
added up. Prices are whole and fractional digits, not strings.

In `ExchangeRates` every request for the rates is a goroutine. The mutex is held
from `GetSystemRates` until the call of the bank has ended, so `Locked` is being in
a call. A call ends in a usable snapshot (`Replace`), a useless one (`Reject`: an
error, no fall-back, no back-off) or a failure (`FetchFails`: the cached snapshot
or, without one, an error, and no other call for `cacheTTL`). `Cancel` is a caller
that has gone: its context carries the call of the bank, which then fails. The
bank's snapshots are numbered; `cachedAt`, `called` and `outcome` are history
variables. The provider with fixed rates is a bank with one snapshot.

`QuotationPricing` adds the quotation service: `Refuse` (input, extraction,
forbidden words, or no price), `Ask` (the HTTP call, a request of
`ExchangeRates`), `RateFails`, `RateArrives` (currency and calculation),
`InsertQuotation`, `InsertFails`. Product extraction is the set `Refused` and the
values of `Products`. A rate source of another kind, a plain HTTP provider chosen
by configuration, is not a module of its own.

### NotificationHub

`log` and `committed` are Kafka's; `published` is all envelopes since the service
started, `history` the ones it keeps, `buffer` the channel of a subscriber (one of
capacity 16 in the code, to which `publish` sends only if there is room),
`replay` what a new subscriber is sent first. `publish` and `subscribe` hold the hub's
mutex and are one step each; reading the record, offering it and committing its
offset are `Consume` and `CommitRecords`. A stream is `Connect` (request and
headers), `subscribe`, `SendReplay`, `SendLive`, `Done`. A page has the states of
`useOrderStream`: `onopen`, `onerror`, `receiveStatus` (every event makes it read the
order again), `GetOrder`, and polling while it has no stream. The service keeps
orders apart, so one order is enough. Left out: connections that are dead
without either side noticing, the cache times of the query library, and reads
of the order that fail while the stream is live.

## Runs

`CHECK_DEADLOCK FALSE` everywhere: the customers, clerks and providers of an
instance make finitely many requests, after which the system rests.

| Run | Instance and bounds | Shows |
|---|---|---|
| `deliver` | warehouse and order service: 1 order, its deposit, three scans, two of them of one number (alike: symmetry); 2 copies of each record; 1 stop of the order service, 1 failure or stop of the warehouse; operator may cancel | `ReceivedOnce`, `NoEventLost`, `ExactlyOnce`, `InsertNeverConflicts`, `TransitionsAreLegal`, refinement of `OrderLifecycle` |
| `live` | 1 order; deposit, package, remaining balance; operator moves it along; 2 copies, 1 stop; `FairSpec` | `AcceptedIsApplied`, `TimelineAdvances`, `PreviousIsTruthful` |
| `poison` | 2 orders on shared partitions; malformed, invalid, wrong-amount records; lossy package polls; 1 stop | `NoEventLost`, `ExactlyOnce` |
| `headofline` | 2 orders, a second package for one of them | finding: `PackagesArrive` fails |
| `requests` | 2 create requests for one slot and 1 for another; 5 callbacks (a transfer delivered twice and for another payment, a second transfer, and that one for another payment with the wrong amount), 2 mocks; 1 failure; `FairSpec` | `OneSuccessEvent`, `AcknowledgedIsPaid`, `OnePayment`, refinement of `PaymentLedger`, `EveryRequestEnds` |
| `relay` | 3 rows of one partition, one always refused; batches of 2; 3 faults of any kind; `FairSpec` | `MarkedIsDelivered`, `DeliveredInOrder`, `RepeatsHaveACause`, refinement of `EventChannel` with its liveness |
| `hub` | 1 page that connects twice; 2 changes of the order, a topic of 2 records, in any order and repeated; history of 2, channel of 1; 1 break, 1 stop; `FairSpec` | `InOrderOnce`, `NothingMissed`, `PageIsNotBehind`, `PagesAreRefreshed` |
| `placement` | 1 quotation; 3 requests of its owner, one of another customer, one invalid; 2 failures of any kind; `FairSpec` | `OrderIsSound`, `CreatedIsStored`, `RetryIsCreated`, `EveryRequestEnds`, refinement of `Placement` |
| `quotes` | 5 requests; 3 snapshots of the bank, one useless; 4 ticks, `cacheTTL` of 2, 1 stop; integers up to 999 | `QuotationAddsUp`, `RatesMoveForward`, `CallsAreSpaced`, `AnswersAreJustified` |
| `fallback` | 2 requests; 2 snapshots of the bank, the second useless; 2 ticks, `cacheTTL` of 2 | finding: an error although a snapshot is cached |
| `repeat` | 1 payment, a callback delivered twice at once, no failure | finding: the loser gets a 500 |
| `race` | 2 create requests at once, no failure | finding: the loser gets a 409 |

Why the bounds are enough to be interesting. Two copies of a record and one
stop give redelivery before and after the transaction and, with an in-doubt
commit, two transactions of one event. Transactions of one consumer are
sequential, so only payment against package, operator, and in-doubt server
transactions interleave; one order with all of them has every such pair. Two
orders are needed only for what partitions couple. One failure (of any kind) in
`PaymentService` may fall anywhere; a second would fall on a system that is no
different from one where a request arrived later.

In `deliver`, two scans of one number and one of another for the same order
give both conflicts a receipt can meet: the number is taken, and the order has
gone on. The failure may be an in-doubt COMMIT, during which the other scan
waits, and may come before or after the order service's stop.

In `placement`, three requests of the owner allow a race of two and a later,
undisturbed third; two failures allow a lost confirmation followed by an
in-doubt COMMIT. The total of 151 is one where 70 percent is rounded.

In `quotes`, four ticks and a `cacheTTL` of two let a snapshot expire, its
replacement fail and the back-off end. With integers up to 999 the prices are
chosen so that one is too dear by less than the shipping, and two wrap round
in the parser, one of them ("205.-5") in its guard too.

In `hub`, a history of two and a channel of one (100 and 16 in the code) are
reached by two records; the second connection comes back with an id that is
known, or that the restarted service does not know.

In `relay`, three rows and batches of two mean that a batch is cut off, that a
refused row sits in front of others, and that rows appear between fetches; three
faults let one row be repeated and another be delayed in the same behaviour.
`DeliveredInOrder` and `ImplementsChannel` say what is kept when things fail,
and by what they except they say what is not: an event one of whose publishes
failed may be overtaken by later events of its order (the loop goes on with the
batch), and a full batch of refused rows would keep all others back.

`PreviousIsTruthful` holds in `live` because there the package comes while the
order waits for purchase. The transition table also admits a package for an
order in `IN_TRANSIT_TO_FOREIGN_WAREHOUSE`; were an operator to move the order there,
through `PURCHASED`, between the acceptance of the package and its processing, the
status event would name the wrong previous status. No code in the repository
makes those moves and no document speaks of the field in that case. The theorem
`PreviousStatusIsTrue` has exactly this as its hypothesis.

### Fairness

`OrderEvents!FairSpec`: the consumer loops and outbox workers never give up
(weak fairness of their steps); PostgreSQL queues waiters of a row, and errors
do not recur for ever (strong fairness of `LockOrder` and `Commit`); the server
ends transactions whose client is gone. Nothing obliges customers, clerks, operators, `Crash` or
failures. `PaymentService!FairSpec`: as long as any request that was
begun can go on, or the server can decide a transaction, one of them does. That is
less than what goroutines and the queues of PostgreSQL give every single one, and
it is enough, as there are finitely many requests and each takes finitely many
steps: what remains to be excluded is that all that are left wait. The arrival of
a request is not fair.
`OutboxRelay!FairSpec`: the ticker never stops and calls return; that errors and
stops end is the bound `MaxFaults`. `OrderPlacement!FairSpec`: a handler that was
begun goes on, the quotation service too, and the server decides every COMMIT.
`NotificationHub!FairSpec`: the service's loops and the browser's reconnects,
reads and polls go on, and the outbox delivers every event (what
`ImplementsChannel` shows of it); no break and no stop is fair.
`WarehouseReceipt`, `ExchangeRates` and `QuotationPricing` are checked for safety
only and have no fairness.

### Findings

* `headofline`: `ErrInvalidTransition` of a package is retried for ever
  (`warehouse_consumer.go:73`), and the topic has one partition for all orders.
* `repeat`: the loser of two concurrent deliveries of a callback gets a 500
  (`payment/adapters/postgres/repository.go:185`), where the end-to-end script
  requires 200. No money or event is lost: `OneSuccessEvent` and `AcknowledgedIsPaid` hold.
* `race`: the loser of two concurrent deposit creations gets a 409, where the
  script requires 200 or 201. `OnePayment` holds.
* `fallback`: a refresh that brings a snapshot which fails `Validate` is answered with
  an error although an earlier snapshot is cached
  (`admin/adapters/vietcombank/provider.go:91`), and so is every request after it
  until the bank sends a usable one. `README.md:155` ("If a refresh fails after a
  successful load, Admin returns the last successful snapshot"),
  `docs/api-examples.md:139` and `docs/troubleshooting.md:79` promise the cached one.
  Of a refresh that fails in the call itself they are right: `AnswersAreJustified`.

### What properties except

Some properties hold only with an exception, and the exception is where the
code does less than a document says. But for the useless snapshot they have no
run of their own. In `PROJECT.json` a hazard does not name a property that
excepts it; its note says which one does.

* `RetryIsCreated` excepts a quotation that has grown old: confirmed for an order
  whose insertion failed, it can no longer be ordered after half an hour
  (`quotation/application/service.go:153`), though
  `docs/SEQUENCE_ALIGNMENT_REFACTOR_PLAN.md:204` says "Partial failure is
  retryable". It also excepts a request that runs beside another one about the
  same quotation: the loser violates the primary key and gets a 500
  (`order/adapters/postgres/repository.go:145`), where
  `scripts/sequence-e2e.ps1:182` has concurrent creations succeed.
* `CallsAreSpaced` excepts a useless snapshot, after which every request calls
  the bank again (`docs/api-examples.md:139`: "the source asks clients not to
  request more frequently" than every five minutes).
* `AnswersAreJustified` accepts the error that answers a request whose own call has
  brought a useless snapshot, also while another one is cached; that is the
  divergence the run `fallback` shows. It also counts a call whose caller has gone
  as a call that failed: without a cached snapshot its cancellation is everybody's
  error for a whole `cacheTTL`.
* `PageIsNotBehind` and `PagesAreRefreshed` except a stream whose last event id the
  service does not know, after a restart or a cut of its history: nothing is
  replayed, and the page may stay behind while it shows itself live, until the
  next event (`docs/SEQUENCE_ALIGNMENT_REFACTOR_PLAN.md:260` says a reconnect does
  not leave it stale).

## Proofs

Eight modules hold proofs. None assumes anything but the named assumptions of
the modules they extend, and none bounds sets, failures or stops.

`OrderEvents_proofs` proves, for any finite or infinite sets of orders and
events, any number of shards, copies and stops, and any `Lossy` and
`OperatorMoves`, from the named assumptions of `OrderEvents` only:

* `Safety`: `Spec => []SafetyInv`;
* `TypeCorrect`, `NeverConflicts`, `LegalTransitions`: the properties `TypeOK`,
  `InsertNeverConflicts` and `TransitionsAreLegal`.

`InsertNeverConflicts` is not inductive: that an admissible event is
unprocessed is a fact about the past. `SafetyInv` is the conjunction of
`TypeOK`; `RecordInv` (a consumer at work has a record of one of its own
partitions in hand); `ConsumerInv` (under the lock, `current` is the row's
status, and nobody else holds the row); `IndoubtInv` (an in-doubt transaction
of an event was admissible for the status the row still has); and `ProcessedInv`
(an order whose event was processed has reached at least the rank of the
event's target). The argument: a transition raises the rank (`TransitionsClimb`)
and an admissible target is above the current rank, so a processed event is no
longer admissible (`AdmissibleIsNew`). This is where the proof needs the
transition table to have no cycle, and it would fail with one.

`OrderDelivery_proofs` builds on it, from the same assumptions:

* `EventsApplyOnce`: `ExactlyOnce`. `DatabaseStep` reduces every step to what it
  does to the tables (an order is created, an admissible event is applied, an
  operator moves an order, or nothing), so the proof has four cases rather than
  one per action; `ExactlyOnce` is inductive under it.
* `TimelineClimbs`: `TimelineAdvances`, by the same four cases and
  `TransitionsClimb`: a new row lies above the order's status, and the
  status above every row.
* `EventsAreNotLost`: `NoEventLost`, which is not inductive: `CommitOffset`
  commits the fetch position, so that must be known to be behind the work
  too. `OffsetInv` adds, for a partition that is not in `Lossy`, that every
  record the consumer is through with (`Reached`: all it fetched but the one in
  hand) is processed or skippable, and for every partition that offsets stay
  within the log and that it holds only its own records (which is why the
  skip of an invalid record can only concern a package). `NoEventLost` says
  nothing of the partitions in `Lossy`, where records are really dropped.
* `PreviousStatusIsTrue`: `PreviousIsTruthful`, if `OperatorMoves` lacks `PURCHASED`
  or `IN_TRANSIT_TO_FOREIGN_WAREHOUSE`. The handlers write a constant; it is
  the status left because the transition table leads to each target from that
  status only (`SourceOfTarget`), but for a package, which has a second source. The
  invariant `NoneOnTheWay` says that no order gets there.
* `EffectsHaveACause`: what is in the log, in doubt or processed was accepted, so
  no order moves without a payment or a package.
* `AcceptedStaysAdmissible`: an accepted event that is not processed yet is one
  that its order admits, through all repeats, stops and transactions in doubt. This is
  the part of `AcceptedIsApplied` that does not depend on fairness: a consumer
  cannot get caught in retrying such an event. It has two hypotheses, both satisfied
  by the run `live`: `OperatorsStandBack`, operators leave an order alone while it
  waits for an event, and `OnePackage`, an order has one package. The second is
  what the finding `headofline` violates. The invariants are `OneAccepted` and
  `AcceptedIsAwaited` (the order is still in the status that was required at the
  acceptance).
* `ProducersAreAChannel`: the producers that `OrderEvents` assumes (`Accept`,
  `Publish`) take only steps of `EventChannel`, which is what `RelayIsChannel` proves of
  the outbox worker. The two meet in the same abstract module.
* `RefinesLifecycle`: `ImplementsLifecycle`. Each step is `Create`, `Apply` or
  `OperatorMove` of `OrderLifecycle`, or a stutter, again by `DatabaseStep`.

`OutboxRelay_proofs` proves, for any rows, partitions, batch size and number of
faults, `RelayTypeCorrect`, `MarkedWasDelivered`, `NotOvertaken` and the safety
part of the channel, `RelayIsChannel`, from `RelaySafety`. The invariant adds to
the properties: `ClockInv` (times differ, and a row was stamped after all it could
have seen), `LogInv` (only committed rows are in the log), `MarkInv` (the row about
to be marked is in the log) and `BatchInv`, the heart of it: what precedes a
row of the batch has been delivered, has failed, or is in the batch too. A fetch
establishes it because it takes the oldest rows, the loop keeps it because it
takes the oldest first, and a stop keeps it because the batch is forgotten.
`RepeatsAreCaused` proves `RepeatsHaveACause`, a bound on the records of a partition,
by an account of what the worker will still repeat. A row is owed (`Owed`) while
it has a record, is not marked, and is not the one just about to be marked;
`CauseInv` says that the records and the rows owed are together no more than the
recorded events and the faults so far. Every failure and every stop makes one more
row owed at most, the writing of a row that has a record pays for one, and a
first record adds an event and leaves nothing owed.

`PaymentService_proofs` proves every safety property of `PaymentService`
(`PaymentTypeCorrect`, `SuccessHasOneEvent`, `AcknowledgedArePaid`,
`OrdersHaveOnePayment`) from `PaymentIsSafe`. `PaymentInv` adds `PlaceInv` (where
which request can be), `SlotInv` (one holder of the unique key of an order and
type, transactions in doubt included, and what was read of the order has not become
less true), `LockInv` (the holder of a row lock has seen what the row says, the
holder of a claim has inserted its transfer) and `EventInv` (the properties with
what they rest on). The actions are reduced to a few kinds of steps
(`Quiet`, `RolledBack`, `Holding`, `Inserted`, `Written`, a stop, a move of
the order), each with its own lemma. `OneSuccessEvent` needs the row lock: under
it a payment seen as pending is pending still. `ServiceImplementsLedger` maps
every kind to `Open`, `Pay`, a move of the order, or a stutter.
`WaitsAreNotCircular` is the part of `EveryRequestEnds` that does not depend on
fairness: `WaitsFor` reads the three waiting guards (`Insert`, `LockPayment`,
`RecordCallback`) as a relation between requests, and by `LockInv` a chain of
waits has at most two links, as the key of a transfer is the last thing a
transaction takes.

`WarehouseReceipt_proofs`: `ReceiptsAreOrderEvents` shows that every behaviour of
the composition is one of `OrderEvents`, so all theorems about the consumers hold
of it (`ReceiptsAreApplied`). `PackagesAreReceivedOnce` needs two invariants:
`DeskInv`, one holder of a number among the committed, inserted and in-doubt, and
`RecordedInv`, that whatever the order service has of receipts, in the log, in
doubt or processed, is on record at the warehouse.

`OrderPlacement_proofs`: `PlacementIsSafe` with `ConfirmInv` (a request that
inserts has had the quotation confirmed for its order, and a confirmation is
never taken back), `ClaimInv` (an order id is claimed by the one request whose row
is undecided) and `OrderInv` (an order is what its request made up from the
quotation). From it `OrdersAreSound`, which includes that the two parts of the
split add up and are 70 percent rounded down; `CreatedAreStored`;
`PlacementIsImplemented`, the refinement of `Placement`; and `RetriesAreCreated`,
by a second invariant that follows an undisturbed request through its steps.

`QuotationPricing_proofs`, about the rates: `RatesNeverGoBack`, `BankIsSpared`, `RatesAreJustified` are
action properties that follow from `RatesInv`: one call at a time, begun after
the expiry, whose answer is not older than the cached snapshot (`CallInv`), and
what the time of expiry says about the call that ended last (`ExpiryInv`).
`QuotationsUseRates` and `QuotationsKeepPromises` carry them over to the
composition. About the quotations: `QuotationsAddUp`, for any width of the
integers and any scale; the lemmas show that the parser returns the written price
or rejects it, also where its guard wraps round (a sign after the decimal point
passes the digits but not the guard), and that the guarded sum does not wrap.

`NotificationHub_proofs` proves, for any clients, attempts and events, any sizes of
the history and the channels, and any number of breaks and stops, `HubTypeCorrect`,
`SentInOrder`, `NoneIsMissed` and `PagesAreNotBehind` from `HubIsSafe`. Besides these
four properties `HubInv` has `StatusInv` (only changes the order has made are
published), `HistoryInv` (the history holds the newest envelopes, without a gap),
`HandlerInv` (a stream that is not subscribed has nothing), `PlaceInv` (where in
`published` the event is that a page names), `PageInv` (a page reads the connection it
has made) and `SeenInv` (a page that has nothing to read again shows what it
has had). The argument about `subscribe` is `ReplayIsRun`: a replay is a contiguous
run of envelopes that ends with the newest, as one lock covers the copy of the
history and the registration; so the live part begins where the replay
ends. It then grows at its end only (`StreamPublishes`), and sending moves an envelope
from one part of the stream to the next (`StreamSends`), which changes nothing of
the whole. For `PagesAreNotBehind` a lost envelope has another one in the channel that
was full, so the page has still something to receive, and reading that makes it
read the order again.

Only model-checked, because it is liveness and out of the prover's reach:
`AcceptedIsApplied`, `EveryRequestEnds` of the payments and of the placement,
`PagesAreRefreshed`, and that the outbox delivers every event (the liveness in
`ImplementsChannel`). Every other property of a passing run is the property of a
theorem; the four findings are counterexamples of TLC.

## Not modelled

Signatures, request parsing and the checkout page of the payment service, the
extraction of product pages, middleware, start-up, configuration and containers:
no shared state, and mostly string processing. The other pages of the frontend:
single requests. Reads that change nothing (`GET` of an order, a package, a
payment) are part of the actions of those who use them, or left out. A weight or
length so small that `NUMERIC` rounds it to 0 is a 500 instead of a 400; it is
one refused request here. Kafka and PostgreSQL are modelled by what the code
relies on (per-partition order, group offsets, row locks, unique indexes, Read
Committed). A consumer group has one member: the deployment runs one instance of
each service; rebalancing is left out.

## Plan

1. The outbox composed with the consumers, so that `NoEventLost` begins at the
   producer's transaction, with the order a failed publish leaves.
2. The safety part of the remaining liveness properties, as `AcceptedStaysAdmissible`
   and `WaitsAreNotCircular` are for two of them: `EveryRequestEnds` of the placement.
3. That `PaymentService` keeps the promise `Accept` of `OrderEvents` makes in its name:
   what it accepts was required of the order when it was read, and once per kind.
4. Product extraction as far as it decides anything (which extractor, which
   redirect), if a property about it is worth stating.
