# Formal model of ms-orders-management

TLA+ specifications of the orders microservice (NestJS, rxjs, TypeORM, Kafka),
the TLC configurations that check them and the TLAPS proofs about them. Paths
below are relative to the repository's root.

## 1. The system

Clients reach the service over HTTP and gRPC; other services reach it over
Kafka. One Node.js process runs everything; state lives in PostgreSQL and Kafka.

| Component | State | Operations | Interacts with |
|---|---|---|---|
| Order aggregate (`src/domain/orders/entities/order.entity.ts`) | status, products, recorded domain events of one object in memory | `create`, `requestConfirmation`, `confirm`, `cancel`, `ship`, `deliver`, `clearDomainEvents` | called by the domain service |
| Domain service (`src/domain/orders/services/order.domain.service.ts`) | none of its own; each call holds the object it read | `createOrder`, `reserveOrder`, `confirmOrder`, `cancelOrder`, `shipOrder`, `deliverOrder`, two queries | repository, publisher |
| Repository (`src/infrastructure/persistence/orders/`) | tables `orders` and `products` | `findById`, `save`, `findByIds`, `findAll`, `delete` | PostgreSQL through TypeORM |
| Publisher (`src/infrastructure/messaging/adapters/publisher.adapter.ts` and the Kafka publisher under `providers/kafka/adapters/`) | what the Kafka client holds in memory | `publishBatch`, `publish`, `emit` | Kafka topics, one per event type |
| HTTP and gRPC endpoints (`src/application/orders/controllers/`) | requests in flight | the five operations clients may call; "confirm" runs `reserveOrder` | application and domain service, interceptors, filters |
| Interceptors (`src/shared/interceptors/`) | one timer per request | timeout, retry branch | wrap the endpoints |
| Kafka consumer (`.../kafka/consumers/orders.consumer.ts`, `kafka.filter.ts`) | offsets of the consumer group | one handler per topic, one empty handler per dead letter topic | domain service; `stock.reserved` runs `confirmOrder`, `stock.rejected` runs `cancelOrder` |
| Stock service (another repository) | stock held per order | answers `stock.reserve`, executes `stock.compensate` | the consumer, through Kafka |
| Input and output (`src/application/orders/dtos`, `mappers`, `src/domain/orders/value-objects`) | none | DTO validation, value objects, mapping to rows and back | endpoints, aggregate, repository |
| Exception filters (`src/shared/filters/`) | none | error to HTTP status or gRPC code | endpoints |
| Messaging provider (`src/infrastructure/messaging/`) | `connected` flag, callbacks of the subscriber | `connect`, `disconnect`, `health`, `emit`, `subscribe`, `onModuleDestroy`; a factory | Kafka client |
| Logging (`src/infrastructure/logging/`) | none | levels, contexts, one set of rules per file | transports |
| Logstash transport (`.../transports/logstash.transport.ts`) | connection flag, timer, socket | connect, reconnect, log, close | a TCP socket |
| Configuration and bootstrap (`src/infrastructure/configuration/`, `src/main.ts`) | the servers that are up | validate, build, start microservices, listen | everything |
| Health endpoints (`src/application/health/`) | none | answer true | nothing |
| Guards, validators, middlewares | none | two guards are empty files; the rest checks single variables or logs | |

### What is hard here

* **Interleaving.** JavaScript runs one handler at a time, but every `await` of
  the database lets another handler in. `findById`, the aggregate's method and
  `save` are not one transaction, and nothing (no lock, no version column)
  notices that the row changed in between.
* **Stale decisions.** `reserveOrder` saves an object it has not changed;
  `cancel` decides about compensation on the status that was read.
* **Two stores.** The row and the events are written in separate steps, without
  an outbox; `publishBatch` does not wait for the broker.
* **Timeouts that cancel nothing.** Unsubscribing from a handler does not stop a
  query, only what would have come after it.
* **At-least-once messages, a dead letter topic nobody reads**, replies of the
  stock service that arrive after the order has moved on.
* **Shared rows.** Products are keyed by their own id alone, so orders that
  contain the same product write the same row.
* **Four views of one input.** A body passes protobuf, the DTO, the value
  objects and the columns, which disagree about prices, texts and numbers.
* **Reconnection.** Errors, close events, a timer and `close()` meet in any order.

`PROJECT.json`, "hazards", lists these at their lines, with the properties that
cover them.

### What makes each component correct

* Aggregate and domain service: documented transitions; final statuses; no
  fulfilment without a reservation; no compensation without a confirmation; no
  announcement without a commit; truthful answers; everything answered.
* Publisher: events of a commit reach the broker, when nothing fails.
* Saga: stock held exactly for the orders that are confirmed or further; stock of
  every other order given back in the end.
* Consumer: each message handled at least once, or kept in a dead letter topic;
  the offset never passes an unhandled message.
* Product rows: an order appears with all its products, shows none it was not
  created with, and keeps those nobody else orders.
* Requests: what a client is told about its order is true, only an invalid request
  is called one, what is stored can be read and shows nothing that was not sent, and no
  timer fires before its client has lost patience.
* Process: an entry reaches the file it belongs to; the transport has one reconnection
  pending while it is not connected. (That HTTP is served with a consumer, and that the
  provider reports the connection it has, would be right as well; neither is so.)

## 2. The modules

| Module | Models |
|---|---|
| `OrderAggregate` | the aggregate's methods as pure operators |
| `OrderLifecycle` | abstract: what the service promises about one order |
| `OrderService` | domain service, repository, publisher, endpoints and timeouts as concurrent calls |
| `MCOrderService` | the requests, the symmetry and the arrival order of the runs |
| `OrderServiceProofs` | theorems about `OrderService` |
| `OrderSaga` | `OrderService` composed with the consumer's handling of the stock service's replies and with a stock service that remembers what it granted and took back |
| `MCOrderSaga` | the requests, the symmetry and the arrival order of the saga's runs |
| `OrderSagaProofs` | theorems about `OrderSaga` |
| `OrderSerialProofs` | theorems about both when the calls on an order come one after the other and no save is cut off |
| `KafkaConsumer` | handlers, exception filter and consumer group: offsets, rebalances, dead letters and the sends of them that fail |
| `MCKafkaConsumer` | the symmetry of the consumer's runs |
| `KafkaConsumerProofs` | theorems about `KafkaConsumer` |
| `ProductRows`, `MCProductRows` | the product rows behind `findById` and `save` |
| `ProductRowsProofs` | theorems about `ProductRows` |
| `ErrorFilters` | from an exception to a status or code |
| `RequestTimers` | how long a request may take |
| `OrderInput` | the body of a creation: protobuf, DTO, value objects, rows, and back |
| `Requests`, `MCRequests` | requests that create, get and list orders: composes the three above with the database and the clock |
| `RequestsProofs` | theorems about `Requests` and its operators |
| `Configuration` | from environment variables to a configuration |
| `LogRouting` | the transports an entry reaches |
| `LogstashTransport` | the transport's connection life cycle |
| `MessagingProvider` | the provider's connection, callbacks and destruction |
| `Process`, `MCProcess` | bootstrap, composed with the four above |
| `ProcessProofs` | theorems about `Process` |

### OrderAggregate

`Allowed` is `validateTransition`; `Accepts`, `Refusal`, `StatusAfter` and
`EventsOf` say whether a method returns, what it throws otherwise, the status it
leaves and the events it records. `"reserve"` is `requestConfirmation`: it
validates the transition to CONFIRMED, leaves the status alone and asks for
stock. A reader who compares it with `confirm` sees why the endpoint called
"confirm" does not confirm.

### OrderService

The variables and the code:

* `row[o]`: the status column. `req[c]`, `pc[c]`, `seen[c]`: a call of the
  domain service, where it stands and the status in the object it has read.
* `answer[c]`: what the caller was told. RPC callers get the result or the error;
  every error of a Kafka handler ends in `<topic>.dlq` (`catchError`).
* `wrote`: the calls whose save has been committed. It is history: the code
  keeps no such set, and no action reads it.
* `outbox`, `topics`: events given to the Kafka client, and stored by a broker.

A call goes through `Begin` (the query is issued), `Find` or `Refuse` (the row
arrives, and the aggregate's method returns or throws), `Save` (the row is
written) and `Publish` (the continuation after the save: the events are handed to
the Kafka client, which works in the background, and the caller is answered).
Creation reads nothing and starts with its save. `StoreEvent` and `DropEvent`
settle an event at the broker.

Faults are actions: `QueryFails` (nothing happened), `AckLost` (the save is
committed, the handler sees an error), `Timeout` (the pipeline is unsubscribed;
a save on the wire goes on as `"orphaned"` and is executed by `SaveOrphan`),
`Crash` (handlers and unsent events are gone; saves on the wire go on).

A save is an overwrite of the column. TypeORM's `save` first loads the row and
updates the columns that differ from the object; whether it finds a difference or
not, the effect is that of an overwrite at the time of the load or of the update,
both of which lie between `Find` and the acknowledgement.

Two facts come from outside this code. Identifiers of new orders are random
UUIDs, so `Begin` lets no two creations share one. The stock service sends
`stock.reserved` only in answer to a `stock.reserve` it has received, any number
of times (Kafka delivers at least once); a `stock.rejected`, like any
cancellation, may come at any time.

### OrderLifecycle

The promises of `docs/bounded-contexts.md`, lines 46-50 and 61: the documented
transitions, and stock released once for an order that was confirmed and is
cancelled. It knows neither calls nor faults. `OrderService` maps to it with
`status <- row`, `confirmed` the orders some committed call confirmed, `released`
the orders with a stored `stock.compensate`.

### OrderSaga

Extends `OrderService` and shares its variables. It adds `replies` (what the
stock service has answered and Kafka keeps), `handled` (which call was started
for which reply) and `released` (the compensations the stock service has
executed).

* `Deliver` is the consumer's `stockReserved` and `stockRejected`: it begins the
  call `Handling` names, `confirmOrder` or `cancelOrder`, when no earlier reply is
  still being handled. Its call then goes through the steps of `OrderService`;
  every error ends in the dead letter topic, and either way the reply is
  `Consumed`. `Redelivers` says whether Kafka may deliver a consumed reply again;
  one whose handler was lost in a crash always may be.
* `Call` is a client's request; it is never `confirmOrder`.
* `Decide` and `Release` are the stock service. It is outside this repository:
  nothing is assumed but that it answers each `stock.reserve` once, either way,
  and executes each `stock.compensate` once.

`Held` is what the stock service holds for an order: grants minus releases. A
message names an order and no request, which is why grants and releases are
counted and not matched.

The guard of `confirm` in `OrderService` (a `stock.reserve` was published) is
weaker than that of `Deliver` (it was granted): every step of the saga is a step
of the service or leaves it alone, which `OrderSagaProofs` proves, so whatever
holds of the service holds of the saga.

### KafkaConsumer

The machinery around the handlers, for any number of processes of the group: a
message is a topic and an offset, and what its handler does to an order is
`OrderService`'s concern.

* `Sent[t]`: how many messages there are. `owner[t]`, `committed[t]`, `position[m][t]`: which member reads a topic, from
  where it would be read again, and what its reader takes next.
* `stage[m]`, `message[m]`: where the handler of m is. `Take` enters it; `Handle`
  is the application service succeeding; `Reject` is a validation error, after
  which `handleValidationError` sends to `<topic>.dlq`; `Fail` is any other
  failure, after which `catchError` does; `Park` is either send succeeding.
* `RejectFails`: the send of `handleValidationError` fails inside the pipeline,
  so `catchError` sends again. `ParkFails`: that one fails too, and the exception
  filter gets the error.
* The filter sends once more in the background (`background`, `SettleLate`) and
  returns `EMPTY`. Nest waits for the last value of what a handler returns;
  `EMPTY` has none and the wait rejects, so kafkajs sees a failed message. With
  `retries: 0` and `restartOnFailure` returning false (`src/main.ts`) it commits
  what came before and stops: `Stop`. The process goes on (`status` "stopped")
  and serves HTTP and gRPC.
* `Evict`: no heartbeat is sent while a handler runs, so one that takes longer
  than `sessionTimeout` loses its topics and does not know. `Finish` and `Commit`
  count only for the member that still owns the topic.
* `Commit`, `Assign`, `Die`, `Restart` are kafkajs, the broker and the process.

`handled` and `parked` are history: they record what has been dealt with.

What the filter's comments describe, that the consumer carries on after `EMPTY`,
would be worse than what happens: `MutantCarriesOn` lets the offset pass a message
that is kept nowhere, and breaks `CommittedIsSettled`.

### ProductRows

`OrderService` keeps one column per order, because its calls share nothing else.
The products are what orders do share: their table has the product's id as its
primary key (`product.typeorm.entity.ts`, line 15), and `order_id` is a plain
column.

* `owner[p]`, `details[p]`, `price[p]`: the row of a product: the order it names,
  and the orders whose details and price it shows. That is all that tells rows
  apart: two orders describe a product differently.
* `created`: the orders with a row, oldest first (the order of creation is
  history; that they exist is not). `held[c]`: the products of the object in the
  hands of a call. `plan[c]`: what TypeORM has decided to write.
* `Create` builds the object, `Change` and `Read` read one with `findById`. `Load`
  and `Write` are the two halves of `save`: TypeORM selects the order with its
  products and the rows of the object's products, compares, and then executes
  inserts and updates in one transaction, each by primary key. Other saves come
  between the two. `GiveUp` is every error; nothing of a failed save remains.
* A price of 0 is stored as NULL and read as undefined (`order.mapper.ts`), and an
  undefined property is not compared: a row that changes hands keeps the price of
  the order before.

`NoDuplicates` is PostgreSQL's: of two transactions that insert the same key, the
second is refused.

### Requests

What lies between a client and the domain, for the requests that `OrderService`
leaves out or takes for granted.

* `ErrorFilters`, `RequestTimers` and `OrderInput` are pure. `http2grpc`,
  `grpc2http` and `CodeFor` are the mappers and filters; `HttpTimeout` and
  `GrpcTimeout` the two `timeout()` methods, `Delay` the timer of Node.js; `Received`,
  `Invalid`, `Constructible`, `SavedOf`, `RowsOf`, `Readable` and `Shown` the stations
  of a body.
* `clock`, `start[r]`: milliseconds. `pc[r]`: "querying", "saved" (the database has
  stored the order, the acknowledgement is on its way), "orphaned" (it is still to
  store it, but the pipeline was unsubscribed).
* `Choke`: the timeout of the request is no number, and the interceptor throws before
  it does anything else. `HTTP_TIMEOUT` and `GRPC_TIMEOUT` are strings when they are
  set (`Configured` says which are), because `validation.ts` does not declare them.
* `Refuse`, `Health`, `Ask`: the request is received, validated and answered, or
  handed to the database. Nothing in between waits, which makes it one step.
  `BadRequest` and `Refusal` are the pipes and the value objects, with the error
  each throws: `ValidationFailedError` reads the constraints of nested errors, which
  have none, and throws a TypeError instead (`validation-failed.error.ts`, line 15).
* `Save`, `Created`, `Read`: the database answers. What it returns is mapped back
  through the value objects, which may throw; a creation announces its order and is
  answered.
* `QueryFails`, `AckLost`, `Timeout`, `SaveOrphan` as in `OrderService`; `Timeout`
  may fire at its time or later. `NoEarlyTimeout` measures it against what the client
  may expect (`Promised`), of which the code falls short for deadlines that are `TooFar`. `Tick` moves the clock to the next of `Instants`.

A text is its length, raw and trimmed; an identifier is a UUID of version 4, of
another version, or none, and the same as another of its order or not: the code
distinguishes no more. Identifiers of new orders are random, so each request creates
an order of its own. Orders of different requests contain different products here.
The dates of a body must be there and are not used: `createOrder` of the domain
service puts its own in their place.

A body that names a product twice is accepted. TypeORM makes one row of products with
the same key, that of the first (`RowsOf`), while the object that was saved, which the
creator is shown, keeps all of them (`SavedOf`); `ShownAsOrdered` says just that.

### Process

* `Configuration`: `validate` and `configuration`. A flag that is declared as a
  boolean is converted before it is written back to `process.env`, so "false" in an
  env file becomes true (`DeclaredFlag`); for one that is not declared
  (`UndeclaredFlag`) it stays false. Env files are not read when the environment of
  the process says production (`FilesAreRead`); an env file that says so is read, and
  is believed by everything else.
* `LogRouting`: `processLogArguments` guesses the context (a text at the end);
  `customContexts` tests the rules of a file; `Sinks` adds the level of each
  transport. The level of the logger (`LOG_LEVEL`) filters nothing: winston uses it
  for transports without a level, and every transport of `winston.factory.ts` has one.
* `LogstashTransport`: `Construct` is the constructor, which may throw
  (`parseInt` of a missing port); `Fails` and `PeerCloses` are the socket, which
  emits "error" and "close"; `Event` is either listener; `TimerFires` reconnects;
  `CloseTransport` is `close()`. `connectionTimeout` is the handle the code keeps,
  `timers` counts what is really pending.
* `MessagingProvider`: a call that is awaited is a pair of steps (`Connect`,
  `ConnectOk` or `ConnectFails`). `client` is the Kafka client, which the flag
  `connected` is meant to follow.
* `Process`: `Create`, `Certify`, `StartGrpc`, `StartKafka`, `Listen` are `bootstrap`;
  `Exit` is any failure on the way. `started` is what bootstrap knows of the
  microservices, `serving` what is true of them: kafkajs resolves the start of a
  consumer that could not join its group, and one that stops later (`ConsumerStops`;
  why it stops is in `KafkaConsumer`) tells nobody. `Log`, `Transport` and `Provider`
  go on from the moment the modules exist.

The model shows several things no property needs: the configured Logstash host is
never reached, since `url.host` contains the port and the reconnection goes to
localhost:5000; `close()` only holds until the close event arms the timer again;
`MESSAGING_PROVIDER` (`docs/adr/adr-004-decoupled-event-publisher.md`) is read by
nobody, so that the provider is always Kafka.

## 3. What is checked

| Run | Bounds | Shows |
|---|---|---|
| `SagaSerial` | 4 client calls and 3 handlers, one after the other, redelivery, failing queries, timeouts, 1 crash, none of which cut off a save | `SagaTypeOK`, `FulfilledHoldsStock`, `NothingReleasedTwice`, and `ImplementsLifecycle`: the documented life cycle is what the service implements under this condition |
| `SagaFaults` | 3 client calls and 2 handlers, 3 at a time, redelivery, all faults, 1 crash, only timers fair | `TypeOK`; `FulfilledWasReserved`, `FulfilledWasGranted`, `CompensationBacked`, `AnnouncedWasSaved`, `AnswersAreHonest`, `SettledIsFinal` hold even when saves overwrite each other; `RpcCallsAreAnswered` although the database may hang |
| `SagaReliable` | 4 client calls and 3 handlers, 1 at a time, no faults, fair | `RequestsAreDecided`, `StockReleased`, `CommitsAreAnnounced`, `CallsAreAnswered` |
| `ConsumerFaults` | 2 members, topics of 2 and 1 messages, failing sends, 1 crash, 1 eviction, fair | `ConsumerTypeOK`, `CommittedIsSettled`, `HandledInOrder`, `CommitsNeverGoBack`, `SettledUnlessAllStop` |
| `ProductRows` | 3 orders, 3 products, 5 calls, 3 at a time | `RowsTypeOK`, `UnsharedIsKept`, `OnlyOrderedProducts`, `LastBuyerHolds`, `CreationIsWhole` |
| `Requests` | 2 requests out of 38 calls, 6 instants, `GRPC_TIMEOUT` set, only the clock and timers fair | `RequestsTypeOK`, `AnswersMatchFate`, `NobodyIsBlamed`, `StoredIsReadable`, `ShownAsOrdered`, `NoEarlyTimeout`, `RequestsAreAnswered` |
| `Process` | 7 environments, 2 levels, 3 lists of arguments, 1 topic | `ProcessTypeOK`, `EachInItsFile`, `Reconnects` |
| `OverlapTransitions` | 5 calls, 2 at a time, no faults | violated: `DocumentedTransitions` |
| `TimeoutStock` | 4 calls, 1 at a time, timeouts, fair | violated: `StockReleased` |
| `SagaCancel` | 3 client calls and 1 handler, 1 at a time, no faults, fair | violated: `CancelledHoldsNoStock` |
| `ConsumerStops` | 2 members, topics of 2 and 1 messages, failing sends, nothing else fails, fair | violated: `EveryMessageIsSettled` |
| `ProductTheft` | as `ProductRows` | violated: `AtLeastOneProduct` |

**Bounds.** Orders share nothing in `OrderService` (each call touches one row of
`orders`, each event names one order; what they do share is in `ProductRows`), so one order shows everything; with more, calls would
only be spread thinner. Three calls at a time allow a chain of two overwrites,
and one of them may be the handler of a reply. In the runs with one call at a
time, four client calls are create, confirm twice and cancel, or create, confirm,
ship and a competitor, and three handlers serve as many replies, or one of them
twice. Larger overlaps are left to the proofs, which have no such bound.
For the consumer, two members are a zombie and its successor, two messages of a
topic are one that is being handled and one behind it, and the second topic shows
that a member that fails on one lets go of the other. The proofs cover larger
groups here too. For the products, two orders share one, of which one gives it a
price and one does not; a third order shares nothing; five calls allow each order
to be created and two of them to be changed later, three at a time a save between
the load and the write of another. For the requests, two are an order and a request
that reads it, or two that compete for nothing but the clock; the instants lie at
and around the boundaries of the timers (1 s, 30 s, 5 min), and the bodies differ
from a valid one in one field at a time, at the boundary of what is accepted or just
beyond it, or name a product twice. TLC's integers have 32 bits, so `MaxInteger`
stands for 2147483647, and `MaxDelay`, the longest timer, for as many milliseconds.
`Requests` sets one of the two timeouts and leaves the other at its default, so that
both cases occur.
For the process, the environments are one per branch of the configuration.
`Calls`, `Deliveries`, `MaxOverlap`, `MaxCrashes`, `Members`, `Topics`, `Length`,
`Sent`, `MaxEvictions`, `MaxOpen`, `Orders`, `Products`, `MaxRequests`, `Instants`,
`V4Ids`, `OtherUuids`, `NoUuids`,
`Offered`, `OfferedEnvironments`, `OfferedLevels` and `ArgumentLists` are the only
bounds.

**Deadlock** is not checked: a finite number of calls is made, and when all have
been answered the system rests; so does a consumer that has read everything, or
whose members have stopped, and a process that has exited.

**Symmetry.** Calls are interchangeable, and so are members; the safety runs
`SagaSerial`, `OverlapTransitions`, `ProductRows` and `ProductTheft` use
`CallSymmetry`. For liveness, where symmetry reduction is unsound, `ArrivalOrder`
and `FirstIsM1` keep one representative of each renaming: the identifier of a call
has no meaning before it begins, nor that of a member before it does something.

**Fairness.** `FairSpec` is weakly fair to a call's next database answer
(PostgreSQL settles every query), to the continuation after a save (the event
loop runs it) and to each event in the Kafka client (kafkajs settles a send
either way). Nothing obliges a client to make a call, a timer to fire or the
process to crash. `FairSagaSpec` adds that the stock service answers and releases
in the end (assumed of another service) and that the consumer gets to every
reply it has not consumed. `TimerSagaSpec` has the
fairness of the interceptors' timers alone, and so has `TimedSpec` of `Requests`
besides that of the clock: the database may hang for ever. `FairConsumerSpec` lets
handlers end and their sends be settled, and has a topic that nobody reads assigned
to a running member, if there is one, as the group coordinator does; no process has
to be started again, which is why `SettledUnlessAllStop` has to except the end of
all. `ProductRows` and `Process` state no liveness: TypeORM's half-way stations are
left by `Read`, `Load`, `Write` or `GiveUp`, which `OrderService` covers, and that a
transport reconnects in the end depends on a peer.

**Findings.** The violated runs are disagreements with the documents:

1. `OverlapTransitions` (`docs/bounded-contexts.md`, lines 47-50). Both calls
   read, both validate, both save. A PENDING order confirmed and cancelled at the
   same time may be answered "ok" twice and end CONFIRMED after having been
   CANCELLED. A cancellation that read PENDING and is saved after a confirmation
   compensates nothing: the stock of line 61 stays reserved as well.
2. `TimeoutStock` (same file, line 61). No failure is needed: a cancellation that
   is slower than the client's timeout is saved, and its compensation never
   published.
3. `SagaCancel` (`docs/bounded-contexts.md`, line 69). An order cancelled while
   its reservation is under way: the grant that follows is refused and kept in a
   dead letter topic nobody reads. This takes no overlap and no fault.
4. `ConsumerStops` (`docs/adr/adr-006-kafka-validation-dlq.md`, line 267). A
   message whose dead letter sends fail stops the consumer of its process for
   good; the rebalance hands the message to the next process, which may meet
   the same end. No message is lost, but those behind it wait.
5. `ProductTheft` (`docs/bounded-contexts.md`, line 53). An order that contains
   the only product of an earlier order takes its row over; the earlier order has
   none left. This takes no overlap and no fault, only two orders for one product.

`SagaSerial` and `SagaReliable` are the other half of findings 1 and 2: serialise
the calls on an order and let nothing cut off a save, and the safety promises hold;
remove the timeouts and the other faults, and stock is released in the end. Finding 3
stays: it is about what `cancel` remembers, not about interleaving.
`SettledUnlessAllStop` is the other half of finding 4, and `LastBuyerHolds` says
what remains true in the place of finding 5.

**Disagreements without a run.** The model contains seven more, at the edges of the
program. Each is one definition, which does the wrong thing whenever it is used, so that
a search for a counterexample would add nothing to reading it:

* `docs/adr/adr-003-data-validation.md`, line 338: "Same validation rules across HTTP,
  gRPC, and Kafka contexts". `app.proto` declares the price a string, the DTO demands a
  number (`Received`, `ValidLine`): no order passes over gRPC, although `app.proto`
  (line 123), the controller and its tests offer `CreateOrder`. The theorem
  `NothingIsCreatedOverGrpc` proves it for every body.
* `grpc.interceptor.ts`, line 199: "Clamp custom timeout to reasonable bounds (1s to
  5min)". Of the string in the metadata the first character is taken for the time
  (`GrpcTimeout`), and one second is granted whatever was asked for; the theorem
  `MetadataGrantsOneSecond` proves it.
* `grpc.interceptor.ts`, line 213: "Use the remaining time, but ensure it's at least 1
  second". A deadline more than 2^31 - 1 ms away, which has no upper clamp, overflows
  the timer of Node.js (`Delay`), and the call is cut off at once.
* `http.interceptor.spec.ts`, line 95: "should apply default timeout to HTTP requests".
  The test mocks a number; a process with `HTTP_TIMEOUT` in its environment gets a
  string (`DefaultFor`), for which `timeout()` of rxjs throws, and answers every request
  with 500 (`Choke`); the same holds of `GRPC_TIMEOUT` and calls without a deadline.
* `docs/adr/adr-003-data-validation.md`, line 341: "Context-appropriate validation error
  responses". `ValidationFailedError` reads the constraints of nested errors, which have
  none: the sender of an order with an invalid product is told 500, or INTERNAL over
  gRPC (`ValidationError`).
* `src/main.ts`, line 148, of `restartOnFailure`: with the exception filter "we should
  never reach this code in theory". A consumer that fails to join its group has not met
  any filter; it is not restarted, its start counts as done (`StartKafka`), and HTTP is
  served by a process that handles no message.
* `messaging-provider.interface.ts`, line 33: "Check if the provider is connected".
  Nothing calls `connect()`, which alone sets the flag: the provider reports to be
  disconnected while its client sends (`Emit`).

Two limits are consequences of the causes of findings 1 to 3 and have no run of their own.
`NothingReleasedTwice` needs the serialisation of `SagaSerial`: two overlapping
cancellations of a confirmed order both compensate. And a PENDING order that is
asked to confirm twice is reserved twice and compensated once.

`RequestsAreDecided` is only checked without database failures. With them a grant
whose handling fails goes to the dead letter topic and the order stays PENDING;
`docs/adr/adr-006-kafka-validation-dlq.md` lists retries as future work, so this
is a limit and not a disagreement.

## 4. What is proved

`OrderServiceProofs` proves, for every set of orders, calls and requests, every
degree of overlap, every combination of faults and any number of crashes:

| Theorem | Statement |
|---|---|
| `TypeCorrectness` | `Spec => []TypeOK` |
| `InductiveInvariant` | `Spec => [](TypeOK /\ IInv)` |
| `ReservationPrecedesFulfilment` | `Spec => []FulfilledWasReserved` |
| `CompensationNeedsConfirmation` | `Spec => []CompensationBacked` |
| `AnnouncementsAreTrue` | `Spec => []AnnouncedWasSaved` |
| `AnswersCanBeTrusted` | `Spec => []AnswersAreHonest` |
| `FinalStatusesAreFinal` | `Spec => SettledIsFinal` |

`OrderSagaProofs` proves, for every number of replies and redeliveries as well:

| Theorem | Statement |
|---|---|
| `SagaImplementsOrderService` | `SagaSpec => Spec` |
| `SagaTypeCorrectness` | `SagaSpec => []SagaTypeOK` |
| `FulfilmentIsGranted` | `SagaSpec => []FulfilledWasGranted` |

`OrderSerialProofs` proves what overlapping calls break. `SerialSpec` and
`SerialSagaSpec` are the two specifications in which every step is `Undisturbed`: no
call is taken while a handler still works on its order, and no handler is cut off, by a
timer or a crash, while its save is on the way. Everything else may happen: any number
of orders, calls, replies and redeliveries, failing queries, lost acknowledgements and
sends, timers and crashes before and after a save.

| Theorem | Statement |
|---|---|
| `SerialInvariant` | `SerialSpec => [](TypeOK /\ IInv /\ SerialInv)` |
| `ServiceImplementsLifecycle` | `SerialSpec => ImplementsLifecycle` |
| `TransitionsAreDocumented` | `SerialSpec => DocumentedTransitions` |
| `GoodsMoveWithStock` | `SerialSagaSpec => []FulfilledHoldsStock` |
| `StockIsReleasedOnce` | `SerialSagaSpec => []NothingReleasedTwice` |

`KafkaConsumerProofs` proves, for every group, set of topics and length of them,
any number of crashes and evictions:

| Theorem | Statement |
|---|---|
| `ConsumerTypeCorrectness` | `ConsumerSpec => []ConsumerTypeOK` |
| `ConsumerInvariant` | `ConsumerSpec => [](ConsumerTypeOK /\ ConsumerInv)` |
| `MessagesAreNotLost` | `ConsumerSpec => []CommittedIsSettled` |
| `MessagesAreHandledInOrder` | `ConsumerSpec => []HandledInOrder` |
| `OffsetsNeverGoBack` | `ConsumerSpec => CommitsNeverGoBack` |

`ProductRowsProofs` proves, whatever the orders share and however many calls
overlap:

| Theorem | Statement |
|---|---|
| `RowsTypeCorrectness` | `RowsSpec => []RowsTypeOK` |
| `ProductsAreOrdered` | `RowsSpec => []OnlyOrderedProducts` |
| `UnsharedOrdersAreKept` | `RowsSpec => []UnsharedIsKept` |
| `OrdersAreCreatedWhole` | `RowsSpec => CreationIsWhole` |
| `ProductsGoToTheLastBuyer` | `RowsSpec => []LastBuyerHolds` |

`RequestsProofs` proves, for any number of requests of any kind, any times and any
behaviour of the database:

| Theorem | Statement |
|---|---|
| `ErrorsStayErrors` | no error is shown as a success, in either protocol |
| `ProtocolsAgree` | of the two codes of an error, the mappers make one the other |
| `MetadataGrantsOneSecond` | a wish in the metadata is granted one second |
| `TimeoutsAreNotEarly` | `Spec => NoEarlyTimeout` |
| `StoredCanBeRead` | `Spec => []StoredIsReadable` |
| `NothingIsCreatedOverGrpc` | no call over gRPC ever stores an order |
| `BlameIsDeserved` | `Spec => []NobodyIsBlamed` |
| `AnswersAreTrue` | `Spec => []AnswersMatchFate` |
| `RequestsTypeCorrectness` | `Spec => []RequestsTypeOK` |
| `OrdersAreShownAsSent` | `Spec => []ShownAsOrdered` |

`ProcessProofs` proves, for every set of environments, levels and arguments of the
logger, and however often anything connects, fails or is closed:

| Theorem | Statement |
|---|---|
| `TransportReconnects` | `Spec => []Reconnects` |
| `ProcessTypeCorrectness` | `Spec => []ProcessTypeOK` |
| `EntriesAreFound` | `Spec => []EachInItsFile` |

Assumptions: `OfferedAssumption` (requests are well formed, confirmations come
through Kafka only: no endpoint calls `confirmOrder`), `BoundsAssumption` and
`NoRequestAssumption` of `OrderService`, `DeliveriesAssumption` of `OrderSaga`,
`ConsumerBounds` and `ConsumerNulls` of `KafkaConsumer` and `RowsBounds` and
`RowsNulls` of `ProductRows`, which say that the bounds are numbers and that the
null values are none of the others; `ItemsAssumption` (orders have products, as
`Order.create` demands); `InputAssumption`, `TimersAssumption` and
`RequestsAssumption` (a timer can be set for five minutes, clients make calls that are
well formed, ids that exist are UUIDs of version 4); `LoggingAssumption` and
`ProcessAssumption` (levels, environments and arguments are such).

The argument. `FulfilledWasReserved` speaks of the row, but the row is written
from what a call read earlier, so an invariant about the row alone is not
preserved by `Save`. `IInv` therefore says of every status that is *visible*, in
the row or in the hands of a call, that it is `Backed`: the order was created,
and if the status is CONFIRMED or beyond, a reservation was published and a
confirmation committed. `Backed` only mentions facts that are never taken back
(`HistoryGrows`), so it is stable (`BackedStable`), and an overwrite with a stale
status keeps it. `CallConsistent` ties phase, answer and effect of one call
together, `EventConsistent` ties an event to the answered call that recorded it;
a call that is done is frozen (`DoneFrozen`), which makes both stable.

The saga's argument repeats the pattern one level up. `SagaInv` says that every
visible fulfilled status, and every confirmation under way, goes back to a grant.
`ReadsAndWrites` is all it needs of the service: a row only takes what an accepted
call leaves it, and a call only reads the row. `ConfirmationsAreGranted` is where
the consumer comes in: no call but the handler of a grant begins a confirmation.
`SagaImplementsOrderService` carries `TypeOK` and `IInv` over.

When every step is `Undisturbed` more is true, and the second invariant, `SerialInv`,
says what the condition buys: a call that is saving still sees what the row shows, no two calls
work on the same order, and at most one cancellation of an order is ever committed,
after which its row stays CANCELLED. From the first two, each commit is the step of
the aggregate on the row itself, so it is a step of `OrderLifecycle`, and every step
that commits nothing leaves the abstract state alone (`StepIsTransition`). From the
third, an order has at most one compensation, and a confirmed one has none
(`ReleasedInv` carries that over to what the stock service was asked to take back);
with `FulfilledWasGranted` it follows that stock is held while goods move.
The condition is a restriction on steps and not on the constants, so that it excludes
nothing but what it names; the run `SagaSerial` checks the same specification, where
create, confirm, cancel and ship all succeed and timers and a crash do strike. Neither
half can be dropped: with two calls at a time `OverlapTransitions` breaks
`DocumentedTransitions`; with one call at a time and one timeout or one crash at any
moment, TLC finds violations of `ImplementsLifecycle` and `FulfilledHoldsStock`,
because a save that is cut off commits behind the next call. Nothing in the code
enforces the condition: it is what a lock on the order, held until its save is settled,
would buy.

The consumer's invariant, `ConsumerInv`, has to speak of `position`, which the
properties do not mention: what the owner of a topic has read covers the commit,
and everything before it is settled. A member that was evicted still works on a
message, and when it ends its position is stale; nothing is claimed of it, because
only an owner commits. That `Settled` only grows (`SettledGrows`) lets what was
true of an offset stay true when the topic changes hands.

The rows' invariant, `RowsInv`, follows a product from the table into a call's
object, into its plan and back. What a plan does not insert is there, because rows
move but never vanish (`PlanFits`); who saves an order that is not there yet holds
all its products (`NewOrders`), so the write that creates it creates it whole, and
`NoDuplicates` lets it fail as a whole otherwise. `UnsharedRows` says of a product
that only one order contains that its row, and what any call holds of it, is as it
was created: there a stale write does no harm, since it writes what is there.
`LastBuyerHolds` is about histories without overlaps, so its invariant, `SerialRows`,
is claimed only until two calls have overlapped: what a call holds and plans is what
the rows show (`UpToDate`), and each order keeps of its products those that no later
order contains (`Kept`). Saving an old order therefore writes nothing, and saving a
new one takes its products from all orders before it.

The requests' invariant, `FateInv`, gives each request a fate: where it stands, what
it was told, and whether its order is stored and announced go together. A step
concerns one request (`OthersKeepTheirFate`), so it only has to be shown for that
one. The lemmas about the operators do the rest: an accepted body has rows the value
objects accept (`RowsAreReadable`), a body that came through gRPC is refused
(`GrpcIsRefused`), and a refused one is blamed only if it is invalid (`Refusals`).
What clients are shown needs a second invariant on top, `TruthInv`: a row that exists
holds what its creator's body is mapped to, and every view that was ever handed out is
the view of an order that exists. Since rows are written once (`OrdersStay`), a view
stays true; and reading back what was stored gives what was sent, because trimming
twice is trimming once (`ReadAsStored`). `ErrorsStayErrors` and `ProtocolsAgree` are
about the filters alone: for every exception that carries an error, by cases on the
filter that catches it (`CodesOfFailures`) and on the two tables (`MappersKeepErrors`).
An error of axios without a response has no code and is left out; nothing in the
application calls axios.

In `ProcessProofs`, `TransportInv` adds to `Reconnects` that only a destroyed socket
has events to emit; without it an event could arm the timer under a new connection.
`Logged` ties the last entry to the call that logged it, which reduces
`EachInItsFile` to facts about the routing operators: where an entry goes (`WhereEntriesGo`), that the daily file excludes
what the file for HTTP includes (`FilesShareNothing`), and that warnings are important
enough for the file of errors (`WarningsAreErrors`).

The invariants that were strengthened for the proofs were checked by TLC first, as
invariants of the runs' instances: `SerialInv` on `SagaSerial` with failing
sends as well (1 723 621 states), `SerialRowsInv` on `ProductRows` (48 376) and
`TruthInv` on `Requests` (473 075).

Every invariant and every action property that a passing run checks is now also a
theorem. Left to TLC are the liveness properties (`RpcCallsAreAnswered`,
`RequestsAreDecided`, `StockReleased`, `CommitsAreAnnounced`, `CallsAreAnswered`,
`SettledUnlessAllStop`, `RequestsAreAnswered`), which need fairness and ENABLED and are
out of the proof system's reach, and the counterexamples of the violated runs.

## 5. What is not modelled

* The contents of texts, identifiers and dates, and the wording of responses, errors
  and log entries: no control depends on them. (`OrderDate` and the DTOs demand that
  a date is there, which is modelled.)
* `delete` of the repository: nothing calls it. The retry branches of the
  interceptors react to status 429 and code 8, which no error of the application
  carries.
* Which environment variable is well-formed: the validators are regular expressions
  without state, and the Boolean `valid` stands for all of them.
* Rotation and formats of log files, and the logger of the framework, which
  `ExtendedLogger` does not replace (`app.useLogger` is never called).
* The guards (empty files), the throttler guard (a library's), the HTTP middleware
  and the axios interceptor (they log), the exception filters no controller uses, and
  the unused copies of modelled files that `PROJECT.json` lists.
* Database seeds, factories, Docker and build files.
* `ShipOrder` and `DeliverOrder` over gRPC: the controller has handlers, `app.proto`
  has no such calls, so nobody can reach them; `OrderService` offers these operations
  over HTTP and Kafka.
