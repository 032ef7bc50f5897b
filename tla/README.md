# Checkout: a TLA+ verification project

This directory holds TLA+ models of the checkout application, the TLC runs that
check them on small instances, and TLAPS proofs of their main safety properties.
`PROJECT.json` is the index: which definition models which lines, what every run
checks, which hazards of the code the properties are aimed at, and where code and
documentation disagree.

## The system

Two Go services share one database and one Kafka topic.

| Part | Code | State | Operations |
| --- | --- | --- | --- |
| Inventory | `services/orders/item.go`, `database/` | table `inventory`: id, sku, name, price, quantity; the id sequence | `AddItems` (upsert on id), `ListItems`, `ItemPrice`, `ItemsPrice` |
| Purchases | `services/orders/purchase.go`, `promotions/` | the request's copies of the rows; tables `orders`, `outbox` | read rows, count down, apply promotions, one transaction |
| Outbox relay | `services/orders/relay.go` | one goroutine per replica; `published_at` | tick, scan, publish, mark, stop |
| Broker | `messaging/kafka/client.go`, external Kafka | a log per partition, committed offsets, the group's assignment | publish, poll, commit, rebalance |
| Notifier | `services/notifier/service.go`, `sink.go` | one goroutine per replica; `delivered_at`; terminal and file | poll, write, mark, commit, stop |
| Worker | `services/worker/worker.go` | cancel function, Once, WaitGroup | Start, Stop |
| Node lifecycle | `cmd/service.go`, `httpserver/server.go` | flag `started`, listener, running handlers | Start, interrupt, Stop |
| Start-up | `cmd/orders.go`, `cmd/notifier.go`, `cmd/service.go`, `database/` | configuration, the tables of each database | open, drop, migrate, ping, serve |
| HTTP path | `client/`, `httpserver/`, `services/*/api.go` | the client's header, requests in flight | send, route, authenticate, handle, probe, receive |

A purchase reads inventory rows, computes new quantities in memory and, in one
transaction, writes the rows back, adds the order and enqueues an event in the
outbox. The relay of every orders replica publishes unpublished rows and marks
them. The notifiers form one consumer group, show each event, mark its row
delivered and commit the offsets.

What is hard here: requests interleave between read and write; the replicas claim
nothing, so rows are published twice; processes crash, are stopped and restarted
between any two steps; acknowledgements are lost; partitions change hands between
poll and commit; ids become visible out of order; transactions lock rows in no
fixed order; nodes migrate one database at the same time; shutdown involves four
goroutines. `PROJECT.json` lists these hazards at the lines where they bite.

## Modules

    Faults                 events, budget of faults
      OutboxStore          table outbox, the order's transaction
      Broker               the topic
        Relay              the relays over OutboxStore and Broker
          RelaySystem      + purchases, broker failures                (MCRelaySystem)
        Notifier           the notifiers over OutboxStore and Broker
          NotifierSystem   + any log the relays can write              (MCNotifierSystem)
        Pipeline           relays and notifiers together               (MCPipeline)
          OrderNotification  what the pipeline promises (abstract)

    Inventory, Promotions  table inventory and AddItems; the promotions
      Purchase             PurchaseItems, ItemsPrice                   (MCPurchase)
    OrderTransaction       its transaction, statement by statement     (MCOrderTransaction)
                           over Faults; implements OutboxStore's OrderStep

    Startup                open, migrate, start, restart; over Faults  (MCStartup)

    Runner                 worker.Runner
      Server               one node from start to exit
    Api                    client, router, middleware, adapter         (MCApi)

    RelayProofs, NotifierProofs, PipelineProofs, PurchaseProofs,
    OrderTransactionProofs, StartupProofs, ServerProofs, ApiProofs

### Event pipeline

`OutboxStore` identifies a row with its event. `Enqueue` is the INSERT in the
order's transaction, which draws the serial id; `CommitOrder` makes it visible;
`RollbackOrder` leaves a gap. So scans in id order meet rows that appear behind
them. A timestamp is abstracted to whether it is set.

`Relay` has one action per step of `run`, `drain` and `publish`: `Tick`, `Scan`
(rows of lowest id first, at most `BatchSize`), `Publish`, `MarkPublished`, and
the error path of each. `Advance` is the loop: next row, another scan after a
full batch, or back to `select`. `PublishError` covers both a record that was
not written and one whose acknowledgement was lost. Some events may be `refused`:
their row does not decode, or the broker never takes the record, and every
attempt fails (`PublishFails`). `drain` runs on a background
context, so a cancelled relay finishes its drain; `ExitRelay` is the `select`
that sees the cancellation. While the broker is down, `ProduceSync` either fails
(`PublishFails` again) or, with the defaults `NewClient` leaves in place, retries
without limit: the relay then stays where it is (`Waits`), and no fairness makes
it go on.

`Notifier` has `Poll` (any run of records of each owned partition),
`WriteNotification`, `MarkDelivered`, `Commit` and their error paths. A call on a
cancelled context fails without effect. The tee writes the terminal before the
file, so `WriteError` has shown the event. `Assign` and `Leave` are the consumer
group: a new owner starts at the committed offset, or at the start of the log;
the commit of a member that no longer owns a partition is refused. All of this is
external code, modelled from the options `NewClient` sets. The history variable
`failed` collects the events whose own write or mark has failed.

A record that does not decode is skipped by `Poll` and committed past, and an event
that does not render is dropped by `dispatch`. Neither has an action: the topic's
only producers are the relays, which publish what they have decoded and encoded
themselves (`relay.go:136`, `kafka/client.go:107`), and the only writer of the
outbox is `PurchaseItems`, whose data is a marshalled order (`purchase.go:130`), so no
record of this system is of either kind. The notifier and pipeline properties say
nothing about records from elsewhere.

Faults (crash, stop, broker outage, failed call, rebalance) spend a budget
`MaxFaults`, which also bounds the counters. The theorems hold for every budget.

### Purchases

`Purchase` follows the handler: `Fetch`, one `CountItem` per SKU of the list,
`ApplyPromotions`, `AddGift`, `Commit`. The reads are separate steps, as they are
separate statements outside the transaction; `Commit` is one step here, and
`OrderTransaction` shows why it may be. `items` holds
the fetched rows whose quantities the loop reduces, `gift` the row of the free
Raspberry Pi, which the handler reads again. A SKU without a row is a nil pointer
dereference (`"panic"`). An empty list of SKUs fetches every row, as
`GetItemsBySKU` does.

Both handlers write through `UpsertItems`: `INSERT ... ON CONFLICT (id) DO UPDATE`
over a list, row by row and all or nothing (`UpsertRow`, `Upserted`). Each item of
the list has any id, or none and draws the next one; it replaces whatever row has
its id; it is refused if its SKU has another row or its quantity is negative. The
engines differ, and the constant `Engine` says which it is: Postgres refuses to
write a row twice in one statement, advances its sequence only for drawn ids, and
does not take back those of a refused list; SQLite applies both writes and keeps
its sequence above every id. The history variable `ahead` collects the ids that
were written before the sequence had reached them. The list of a purchase is the
rows it holds in any order, as `getItems` has no ORDER BY, the free item last
(`Writes`).

`OrderTransaction` has the statements of the transaction: `WriteRow` per row of
`UpsertItems`, `AddOrder`, `AddOutboxItems`, `Commit`, and the transactions of
`AddItems`, which lock the same rows. `getItems` has no ORDER BY, so rows come in
any order, the free item last. A writer waits for a row that another holds;
`BreakDeadlock` is Postgres ending a cycle. `CommitUnconfirmed` commits and loses
the acknowledgement. It refines the purchase steps of `OutboxStore`
(`FillsOutbox`), which the event pipeline starts from. It is about Postgres: SQLite
has one writer at a time, whose statements no other writer can come between.

Abstractions: an item's name goes with its SKU; ids are not negative; the SKUs are
a finite set (a SKU is six alphanumeric characters); prices are whole amounts,
multiples of ten where a percentage is taken; authentication, decoding and the
format of SKUs come before the first read and are left out. Invalid and refused
requests change nothing and have no action.

### Start-up, lifecycle and HTTP path

`Startup` has the nodes of a deployment, each with any of the given
configurations: Postgres, a SQLite file or memory, the schema recreated or not, a
broker or the no-op client. A node opens its database, drops (`deleteStorage`) and
migrates (`newStorage`) the tables one by one, opens its client and sink, pings
and serves. GORM's migration asks whether a table exists and creates it in two
statements, so nodes on one database race; the loser's process ends and is
started again. A node may crash between any two statements, and database and
broker have outages. A purchase is one step, to have rows that can be lost.

`Runner` has the two statements of `Start` and the three of `Stop` as separate
steps, for any set of callers of `Stop`; in a node there is one. `Server` adds the
main goroutine of `serve`, the listening goroutine that raises the flag, the
handlers and `http.Server.Shutdown` with its timeout. Nothing is assumed of the
worker's loop, which need not return when its context is cancelled:
`InterruptEnds` says that the process ends if the wait for the loop does. `relay`
shows that it does for the relay while the broker comes back, and
`relay_stop_unavailable` that it may not when the broker stays down.

`Api` has the calls of the Go client against one service: the header that is
cloned when the request is built, routing, authentication, the ways each handler
can end, the mapping of errors to statuses, and what the client makes of the
answer. Each service has its own password (`PasswordOf`), and both defaults are
empty: with an empty password, a request without the header passes. A null element in
the list of items panics in `AddItems` (`item.go:57`). The handlers' effects belong
to `Purchase` and `Notifier`. The health
probe pings database and broker in two steps between which they may fail or
recover; `HealthCmd` is the exit of `checkout health`.

## Runs

### Passing

| Run | Instance | Shows |
| --- | --- | --- |
| `relay` | 2 events, one of which may be refused, 2 relays, batches of 2, 2 faults of any kind | marks only for logged events, only committed orders published, a replica or a fault for every duplicate, settled rows stay settled; every committed row that can be published is, and Stop returns, while fewer rows than a batch are refused |
| `notifier` | 2 events, 2 notifiers, log of 2, 2 faults of any kind | at-least-once, marks after writes, undelivered events only after a failure of their own, bounded redelivery, offsets advance; every logged event is shown |
| `pipeline_promise` | 2 events on 2 partitions, 1 relay, 2 notifiers, batches of 1, 1 fault of any kind | the composed invariant, bounded repetition, no delivery without a mark or a reason, rows end with both marks, and that the pipeline implements `OrderNotification`, liveness included |
| `purchase_concurrent` | 2 handlers, 2 orders, Postgres; additions with drawn ids, with ids of existing rows, with an id ahead of the sequence, and both kinds in one list | no negative quantity; undisturbed purchases change exactly what they list; what stock a purchase needs; how quote and charge differ; no promotion deducts anything; which rows an addition can take |
| `purchase_transaction` | 2 purchases, one with a free item, and a restock on 3 rows; 2 faults | orders, events and quantities appear together; answers are outcomes; the outbox fills as the pipeline assumes; every request ends, deadlocks of two and of three included |
| `startup` | an orders node and a notifier, 5 configurations each, 1 purchase, 2 faults | serving nodes have their tables; rows survive restarts; orders keep their events; both nodes serve in the end |
| `server_stop` | 3 requests | handlers, worker and publisher end in this order, and the process ends if its worker's loop does |
| `api_calls` | 2 calls, both services, every client method, 2 credentials, 2 changes of a dependency | a result is what became of the call; health probes are true of the time they took |

### Disagreements

Each of these runs checks one property that a comment or a document of the
repository states, and finds it violated. `PROJECT.json` quotes the lines.

| Run | What the code does |
| --- | --- |
| `relay_stop_unavailable` | with the broker down and a full batch waiting, one drain never ends and Stop does not return, even if every Publish fails rather than waits (if it waits, one row is enough) |
| `notifier_stranded` | after a failed write or mark the offset is committed all the same; no redelivery follows |
| `purchase_oversell` | two purchases that read the same stock both succeed; the check constraint sees nothing |
| `server_early_stop` | an interrupt before the flag is raised stops nothing |

The models show further places where a comment or a document says something else
than the code does. They have no run of their own.

- `services/notifier/service.go:90`: a repeated event is shown again, although
  `relay.go:132` relies on the consumer to deduplicate and `event/event.go:37`
  says it must (`RedeliveryBound` and `NotificationBound` say how often).
- `relay.go:109`: rows that never publish keep their place at the head of every
  scan. With `batchSize` of them nothing else is ever scanned, and every drain is
  a full batch again (`EventuallyPublished` is stated for fewer).
- `purchase.go:144`: an error of the transaction does not mean that nothing was
  bought: the acknowledgement of COMMIT may be lost (`AnswerIsOutcome`).
- `docker-compose.yml`: the SQLite profile sets `CHECKOUT_RECREATE_SCHEMA`, so a
  restart drops unpublished rows, where `relay.go:33` says that they wait for the
  next process start (`RowsSurvive` exempts this case).
- `database.go:52`: on an empty database one of two nodes that start together can
  fail in the migration and depends on being restarted (`EventuallyServing`).
- `notifications.go:16`: the list is documented as newest first; `GetOutboxItems`
  orders by id, oldest first.
- `purchase.go:72`: the quantity compared falls while the count rises, so k copies
  need 2k - 1 units in stock (`RefusalRule` states this); two units of an item
  with two in stock are refused as "empty".
- `purchase.go:72`: a well-formed SKU without a row panics instead of the
  documented 404 (`"panic"` in `CountItem`), and the Observer then neither logs
  nor counts the request (`UnmeteredArePanics` proves that no other goes uncounted).
- `purchase.go:120`: a purchase writes back the price and id it read, undoing an
  update made meanwhile.
- `purchase.go:101`: on SQLite a MacBook Pro together with a Raspberry Pi upserts
  the Pi's row twice and deducts one unit too few (`WrittenTwice` allows it).
- `promotion.go:29,53,70`: promotions count rows, one per SKU, where units are
  sold: two MacBook Pros come with one Pi, three Google TVs cost three. The
  deductions are therefore zero for every inventory with unique names
  (`NoDiscount`).
- `item.go:139`: `ItemsPrice` quotes a SKU listed twice once; `PurchaseItems`
  charges it twice. `QuoteIsCharge` states the difference: the price of every
  unit after the first of its SKU.
- `database.go:138`: on Postgres a drawn id may be one that a client chose before
  the sequence reached it, and that item is replaced. `ItemsKept` names this
  exception, which `purchase_concurrent` reaches. It is the one item missing in
  `integration/inventory_test.go:118` ("999 vs 1000 ?"): the first item of the test
  has no id and draws 1, which is the id the test gives the second.
- `relay.go:145`: `delivered_at` can be set before `published_at`, contrary to the
  lifecycle in the repository's README.
- `worker.go:36`: a Stop before Start uses up the Once, and a Stop after Start then
  waits for ever. No code of the repository calls them in this order.
- `client.go:208`: `ListNotifications` decodes a list into one object
  (`ResultIsOutcome` names this exception).
- `services/orders/api.go:58`: the documented path of the batch price
  (`item.go:115`) is not routed.

### Bounds

Two relays are the fewest that race; with batches of 2 and 2 events there are
full, short and empty batches, and batches of 1 make every non-empty scan a full
one. Two notifiers on one partition give rebalances in both directions; two
partitions give members that own different ones. `MaxLog` leaves room for a
duplicate. Two faults allow a fault during the recovery from another; the
pipeline, whose parts have had that, gets one. Two handlers are the fewest that
lose an update; three writers on three rows are the fewest that deadlock in a
cycle of three; two nodes are the fewest that race in a migration. `MaxOrders`
stops new requests, `MaxId` new ids. Handlers and calls are symmetric; runs with
liveness properties use no symmetry.

Deadlock is checked where the system never stops (relay and pipeline runs). It
is off where a bound ends the run (purchases, a full log, `startup` once all serve
and nothing is left to buy), where the process ends (`server_*`) and where each
call is made once (`purchase_transaction`, `api_calls`).

### Fairness

- A relay or notifier that can take a step takes one: the Go scheduler runs every
  ready goroutine, and `docker-compose.yml` restarts the processes (`restart:
  unless-stopped`).
- `select` chooses at random among its ready cases, so a cancelled context is seen
  in the end even if the ticker is always ready: strong fairness of `ExitRelay`.
- A `Publish` that finds the broker down may wait for it, so no fairness is put on
  it until the broker is up. `UnavailableSpec` is the kinder case for Stop: there
  the call fails.
- The broker comes back and its group assigns every partition. `UnavailableSpec`
  drops the first of these.
- Of the worker's loop in `Server` nothing is assumed.
- In `OrderTransaction` a statement that can run runs, and Postgres breaks every
  deadlock; no fairness among those who wait for a row is needed.
- In `Startup` a stopped process is started again and outages end.
- Nothing is assumed of faults, of whether purchases are made, or of signals.

## Proofs

Every safety property that a passing run checks is a theorem, for every value of
the constants, under the named assumptions of the modules. Only liveness is left
to TLC alone.

| Module | Theorems | For |
| --- | --- | --- |
| `RelayProofs` | `AccountedInvHolds`, `PublishedIsLoggedHolds`, `OnlyOrdersLoggedHolds`, `DuplicateBoundHolds`, `SettledStaysSettledHolds` | any number of relays, any batch size and budget |
| `NotifierProofs` | `NotifierInvHolds`, `CommittedIsShownHolds`, `DeliveredIsWrittenHolds`, `StrandedHasFailedHolds`, `RedeliveryBoundHolds`, `CommitsAdvanceHolds` | any number of notifiers, any partitions, log and budget |
| `PipelineProofs` | `PipelineInvHolds`, `DeliveredIsPublishedHolds`, `NotificationBoundHolds`, `KeepsPromiseSafelyHolds` | the composition; it implements `OrderNotification!SafetySpec` |
| `PurchaseProofs` | `PurchaseInvHolds`, `WritesNonNegativeHolds`, `FreshPurchaseExactHolds`, `RefusalRuleHolds`, `QuoteIsChargeHolds`, `NoDiscountHolds`, `ItemsKeptHolds` | any requests, stock, prices, additions with any ids, and number of handlers |
| `OrderTransactionProofs` | `TransactionInvHolds`, `OrdersAreWholeHolds`, `AnswerIsOutcomeHolds`, `FillsOutboxHolds` | any requests, any rows in any order, any budget; it implements the steps of `OutboxStore` |
| `StartupProofs` | `StartupCorrect`, `OrdersKeepEvents`, `RestartsKeepRows` | any number of nodes and configurations |
| `ServerProofs` | `ServerInvHolds`, `StopsInOrderHolds`, `ClosedAfterLoopHolds` | any requests |
| `ApiProofs` | `ApiCorrect`, `ResultsAreOutcomes`, `UnmeteredArePanics`, `HealthTellsTheTruth` | any number of calls |

Four of these have no run of their own. `OnlyOrdersLogged` follows from
`AccountedInv`, `WritesNonNegative` from `PurchaseInv`, `UnmeteredIsPanic` from
`ApiInv`, and `SafetySpec` is the safety half of `KeepsPromise`.

One theorem has a hypothesis. `FreshPurchaseExactHolds` is about Postgres: SQLite
takes a statement that writes the free item's row twice. The bounds on copies and
redelivery need finitely many replicas.

The inductive invariants, each also checked by a run:

- `RelayInv`. That a marked row is logged is not inductive by itself: the relay
  marks the row it stands at, and another relay's step or a new row must not
  change which one that is. Hence `MarkingIsLogged` (the current row of a relay
  in `"mark"` is in the log), which needs `IdsUnique` (one current row) and
  `TodoVisible` (a batch holds committed rows, whose ids no longer change).
  `AccountedInv` adds the count of copies. While a row is unmarked, every copy
  belongs to a replica about to mark it (`Marking`) or to a fault; once it is
  marked, only the replicas that hold it still (`Pending`) can add one. With this
  `DuplicateBound` follows from the number of replicas.
- `NotifierInv`. A commit covers everything polled, so between polls and commits
  whatever an owner has polled beyond the committed offset is shown or still in
  its batch (`PolledIsShownOrHeld`), the batch is empty at a commit
  (`BatchDoneBeforeCommit`), and offsets stay within the log. A member that has
  lost a partition is exempt: its commit is refused. `PolledIsMarkedOrHeld` says
  the same of marks and of the events in `failed`, for `StrandedHasFailed`.
- `Paid`, the part of `NotifierInv` that bounds redelivery. How often an event was
  shown says nothing about how often it still will be, so the invariant counts both:
  `Due(e)` has a member for every copy in some batch and for every copy the next
  poll may return, and shown plus due is at most the copies, once and once more
  for each fault. Showing a copy takes it out of `Due`; a poll moves copies from
  the log into a batch; a fault makes at most every copy due again; a new copy
  adds at least one to the right and one to what is due.
- `PipelineInv` is their conjunction with `ShownIsLogged`. The lemmas about single
  actions are shared by the system and the pipeline proofs; what is left is that
  each service leaves the other's invariant alone although both write the outbox
  and the relay extends the log under the notifiers. `NotificationBound` is the
  product of the two bounds.
- `PurchaseInv`. The rows a handler holds have distinct ids, its quantities are
  never negative, and what it has counted it holds a row for (`RowsInv`). Stock
  that changes meanwhile does not matter to this, which is why no negative quantity
  is written although updates are lost. `FreshPurchaseExact` then follows at
  `Commit`, where Postgres refuses a statement with a row twice. `LoopCounts` says
  what the loop has done when it stands at `next`: it has counted the places before
  it, and k units of a SKU only if k - 1 are left; `RefusalRule` follows at both of
  its ends. `LoopTotals` says that the total is the sum over the SKUs of the request
  of units times price, from which `QuoteIsCharge` and `NoDiscount` follow.
  `IdsDrawn` says that the sequence has passed every id in use, in the table and in
  the handlers' copies, except on Postgres those in `ahead`; so an id that is drawn
  is free or one of the latter, which is `ItemsKept`. A statement is followed row by
  row (`RunGood`, `RunKeepsRow`, `RunFresh`).
- `TransactionInv`. The locks of a transaction are exactly the rows its upsert has
  passed (`LocksAreHeld`), its outbox row is open exactly between insert and end
  (`OutboxFollows`), and it commits once (`CommitsOnce`). So at COMMIT it holds
  every row it wants and writes them all, which keeps `OrdersAreWhole`.
- `StartupInv`. A node's migrated tables are there from then on, because on a
  database where no node recreates the schema nobody drops one; and a node that
  drops the tables of a database of its own has emptied those behind it, so orders
  and events are both gone when it goes on.
- `ServerInv` ties the main goroutine's place to the flag of the shutdown, the
  state of the worker and the absence of running handlers.
- `ApiInv`. Response and result are decided link by link: what was sent is the
  request built, the handler's outcome one it can have, the status the outcome's,
  the result the status's; and a probe has passed or failed each check at a moment
  when the dependency was up or down.

Sums are folds of the module `Functions`, that is, recursion over sets. Induction
over them is done with least counterexamples: the subsets of a finite set are well
founded, so if a law failed for a subset it would fail for a least one (`LeastSet`
in `PurchaseProofs`). `SumStep`, `SumsAgree`, `SumOfZeros`, `SumRaised` and `SumAdds`
are obtained in this way, and the lemmas on statements with the least row at which one
fails (`LeastNumber`).

Many leaves name the backend that closes them (`Zenon`), which keeps a module's
proof to a few minutes.

Only model-checked: the liveness properties (`EventuallyPublished`,
`EventuallyShown`, `EventuallySettled`, `StopReturns`, `EveryRequestEnds`,
`EventuallyServing`, `InterruptEnds`, the liveness of `KeepsPromise`). They need
fairness, whose definition by ENABLED the prover does not have.

## Not modelled

- What the no-op client does after start-up: its `Publish` marks rows published
  without sending them and its `Poll` returns at once, so that a notifier without
  a broker spins; by design, events are then switched off.
- `:memory:` SQLite gives every connection of the pool a database of its own;
  `Startup` has one per node.
- Handlers that only read (`ListItems`, `ItemPrice`, `Orders`, `Notifications`)
  appear in `Api` by their outcomes.
- Metrics, log formats, parsing of flags, the version command; encodings of events
  and money beyond what is said above.
- Generated mocks and the integration stack, which are test infrastructure.
