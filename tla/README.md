# Formal models of the payment service

TLA+ modules for the core of this repository, the TLC configurations that check
them on small instances, and theorems about them proved with TLAPS.

- Check a run: `tlc -config MCPaymentLifecycle_serial.cfg MCPaymentLifecycle`
- Check the proofs: `tlapm PaymentLifecycleProofs.tla` (and the other `*Proofs`,
  and `BasicFacts`)
- `PROJECT.json` lists the runs, what each definition models (file and lines),
  the mutants every property is tried against, the findings, the hazards and the
  theorems.

## 1. The system

A merchant charges, captures, refunds and lists payments over HTTP. The API keeps
a row per payment and an outbox in Postgres, and a cache of responses in Redis.
Five more processes live from RabbitMQ: the relay that publishes the outbox, the
consumer that asks the PSP to authorize a payment, and the webhook, notification
and audit services. Docker runs one of each and restarts those that end
(`restart: unless-stopped`).

| Component | State | Operations | Interacts with |
|---|---|---|---|
| Payment entity | status, amount, refunded amount | New, MarkAuthorized, Complete, Capture, Fail, Refund | used by the use cases |
| Use cases | the row, the outbox row, a copy of the row while they run | create, process, capture, refund | Postgres (one transaction at the end), PSP gateway (before it) |
| Idempotency service | a lock and a cached response per key in Redis | Execute: Find, Lock, Find, fn, Save, Unlock | wraps the creation of a payment |
| Outbox relay, publisher | published_at; its channel to the broker | fetch a batch, publish, mark | outbox table, RabbitMQ |
| Event channel | what the queue has received | commit, arrive | all of the row above, seen from the services |
| Consumer, subscriber | prefetched deliveries, tries of the current one; Acks and Nacks on the wire | retry, Ack, Nack, shutdown | RabbitMQ; run a use case per message |
| Audit service | the append-only trail | record | messages of the subscriber |
| Notification service | one row per payment and type | notify, save | messages of the subscriber, the customer |
| Webhook service | the subscriptions and deliveries tables | register, dispatch an event, retry a failed delivery | merchant's endpoint; poller and dispatcher share the table |
| Payment queries | none | one page of the listing: COUNT, then SELECT | payments table while others write it |
| Seeding | the payments table | truncate, insert | payments table |
| In-memory repositories, configuration, migrations | none of their own | - | section 8 |

What makes it hard: every use case reads a row, calls another company's server
and writes the row back without comparing; every message may arrive more than
once; every process may stop between any two calls; two pollers and two
dispatchers may share a table; a listing is read in several queries while it
changes. Section 7 lists the ways this goes wrong.

What makes each part correct:

- entity and use cases: status and refunded amount agree; the table never claims
  what the PSP has not done; rows move along the state diagram; the events tell
  the same story as the table; PSP and table agree, and the PSP never gives back
  more than was charged, but for payments whose operations overlap or break off.
- idempotency: one creation at a time per key, none after an answer, answers
  that belong to the request.
- relay and channel: nothing marked and lost, order per payment, repetition only
  for faults, arrival in the end.
- subscriber: every message in one place, settled in the end, dead-lettered only
  for a reason; handled in order but for broken connections.
- audit and notification: what is acknowledged is done; a trail that only grows,
  in order; a customer told once and in order, but for faults.
- webhooks: outcomes that tell the truth, no event dropped, attempts bounded,
  and no retry by the poller that was not waited for.
- listing and seeding: a walk shows what stayed, once, but for what moved and for
  rows the order does not tell apart.

## 2. Modules

| Module | Models | Notes |
|---|---|---|
| `Payment` | `domain/payment` | operators on one row, no state |
| `PaymentStates` | what the service promises of a payment | abstract specification |
| `PaymentLifecycle` | the four use cases, PSP, table, outbox | implements `PaymentStates` when requests are serial |
| `Idempotency` | `application/idempotency`, Redis keys | one process per HTTP request |
| `EventChannel` | what the services may rely on | abstract specification |
| `OutboxRelay` | relay, publisher, outbox table, broker | implements `EventChannel` when there is one relay |
| `Subscriber` | consumer, subscriber, queue and DLQ | the handler succeeds or fails |
| `EventServices` | audit and notification services | composes `EventChannel`, `Subscriber` and the handlers |
| `Webhooks` | subscriptions, dispatcher, retry poller, deliveries table | |
| `Listing` | listing of payments, seeding | |
| `MC...` | instances for TLC | constants, symmetry, an initial condition |
| `...Proofs` | theorems | extend the module they are about |
| `BasicFacts` | - | lemmas about sets and powers of two |

Each module's header says how its actions follow the code. In short:

**PaymentLifecycle.** A worker is an HTTP handler or a consumer; `op[w]` is its
call in progress. `Start...` is the SELECT and the entity's check on the copy
(for capture and refund the entity changes the copy before the PSP is called; a
processed payment only after), `Authorize`, `CaptureAtPsp`, `RefundAtPsp` are the
gateway calls, `Save` is the transaction: UPDATE of the whole row and INSERT of
the event. `Abort` cuts an operation off anywhere. `psp` records what the
provider has done. `Approved` is the mock gateway's parity rule. `disturbed`
remembers, for the properties, the payments on which an operation began while
another could still save its copy, or of which a capture or refund was cut off
between the PSP and its transaction.

**Idempotency.** `pc[r]` is the call a request makes next. `Fail` is an error of
Redis or Postgres, `Crash` the end of the process, `ExpireLock` and `ExpireData`
the TTLs; `overrun` and `expired` remember the keys whose lock ran out under a
handler or whose response expired. `SlowHandlers`, `DataExpires` and `Faults`
say what the environment does. The run allows all three.

**EventChannel and OutboxRelay.** `Fetch`, `Publish`, `Mark` are one turn of
`dispatch`; the wire is what was written to the socket and not yet routed. Events
are numbered by `created_at`, which is taken before the commit: an event
committed behind a later one of its payment is `late`. The broker may go down
(`MaxOutages`), and with `PublisherDeclares = FALSE` the queue is one that only
its subscriber declares, as those of the webhook, notification and audit services.
`EventChannel` is what is left of this for a service: committed events
arrive, perhaps repeatedly, and those of a payment in order but for late ones.

**Subscriber.** `Take` ... `Nack` are the loop and `processWithRetry`;
`Deliver`, `Settle`, `Requeue` and `Disconnect` are the broker. `PaymentConsumer`
and `Subscriber` have the same loop; only the first has malformed messages.
`msg.Ack` and `msg.Nack` write a frame that nobody confirms and whose error is
dropped: `Answer` appends it to `frames[c]`, or to nothing when the connection is
gone, and the loop takes the next delivery of its `inbox`. The broker reads the
frames in order (`Settle`), unless the connection breaks before (`Break`): then
they are lost, and what the connection held goes back to the queue when the broker
notices (`Requeue`), perhaps behind later messages. A graceful `Return` closes the
channel, a call that the broker answers after it has read all frames.
The handler may return an error whenever it runs, so that a handler that refuses
what it has already handled, as `ProcessPayment` does, is covered.

**EventServices.** A step is one of `EventChannel`, one of `Subscriber`'s loop, or
one of the handler, and a handler's step that returns is `Succeed` or `Fail` of
`Subscriber` together with what it did to its table. The audit service's is one
INSERT; the notification service's is `Notify` and then `Notified` or
`SaveFails`, because the process may die in between. A save or INSERT that
returns an error may have been executed.

**Webhooks.** A worker holds tasks, copies of delivery rows. `Post` is the HTTP
call and `applyAttemptOutcome` together (the second only touches the copy),
`Save` the upsert. Events of one type are modelled: ids and subscriptions belong
to a type. Times are reduced to `due`: `FallDue` is the moment `next_attempt_at`
passes, and `nextDelay` says only how long that takes. `retries` and `waits` count,
for a property, what pollers sent and the delays that passed.

**Listing.** A client asks for one page or walks until a page is not full; `Count`
and `Select` are the two queries. `Offset` wraps at `IntBits` bits. Of a row only
the value of its sort column (`key`) and whether the search finds it matter. Rows
may share a key, and the query names no second column: `Select` returns them in
any of the `Sortings`, a new one for each page. A save changes whether the search
finds a row, any number of times (`status=n` finds pending, not completed, and
refunded), and the key when the sort column is the status. The history
variables `steady`, `unsure`, `joined` and `left` remember, for the properties,
which rows have matched since the walk began, which of them have shared their
key or changed it, and how many joined, left or moved. `Seed`, `Truncate` and
`SeedOne` are the seeder, which saves one payment at a time and may fail after any.

## 3. Runs

Passing runs:

| Run | Shows | Bounds |
|---|---|---|
| lifecycle_concurrent | consistent rows, table behind the PSP, outbox mirrors the table, events in order; over-refunds and disagreement with the PSP only for disturbed payments; with everything overlapping and cut off | two API workers, two consumers, two payments, six operations; amounts 3 (declined) and 4 (approved) |
| lifecycle_serial | the rows implement `PaymentStates` | two payments, serial requests, one consumer, six operations, cut off anywhere |
| idem_requests | mutual exclusion, no creation after an answer, genuine answers | four requests for one key, two bodies; locks and responses expire, handlers outlast their lock, faults |
| outbox_faults | nothing marked is lost before an outage, order per payment, repeats only for faults, every event arrives, `EventChannel` is implemented | one relay, three events of two payments, committed in any order, batches of two, two faults, an outage |
| subscriber_pair | one place per message, repeats only for cuts, refused and dead-lettered only for a reason, every message settles | two consumers, two messages, one of them malformed, prefetch of two, a retry, two cuts, a shutdown |
| services_order | acknowledged is done, customers told within policy; what is handled, recorded and told is in order but for broken connections; everything recorded or dead-lettered | each service in turn, one consumer with a prefetch of two, two events, two messages, a retry, a cut, a shutdown |
| webhooks_retries | honest rows, POSTs bounded, no retry of the poller without a delay or a lost outcome, failures end | two dispatchers and the poller, two events dispatched twice, three attempts, a cut |
| listing_walks | but for ties: a walk misses rows only for ones that left or moved, repeats them only for ones that joined or moved; totals are off by no more; a quiet listing is shown as it is | three payments, three keys, limits 1 and 2 and nonsense, both orders, sorted by a fixed column and by status, with a search and without, an int of 5 bits, one seeded payment |

`lifecycle_overrefund`, `idem_gap`, `outbox_stuck` and `webhooks_refunds` show a
violation each (section 5).

Most runs have between 180 000 and 600 000 states, listing_walks 3.3 million, and
none takes more than three minutes.

The bounds are small because each hazard needs few actors: two copies of a row
make a lost update, two requests a race for a key, a batch of two an overtaking
event, one retry and one more the boundary of the counters, three rows and pages
of one or two a row that moves across the end of a page. Two messages within a
prefetch of two make an Ack that is lost behind a later message. Refund requests
include "the whole balance", a negative amount or zero, and more than was charged,
so that every branch of `Refund` is taken. `IntBits` is small so that a value the
parameters allow does overflow. Counters that the code does not bound (operations,
faults, crashes, shutdowns, runs of an event, changes of the listing) are bounded
by a constant named in the module; those constants only end the exploration, which is why the runs do not check for deadlock: when all allowed
work is done, the system rests.

Symmetry is used in runs without temporal properties, for sets whose members
the specification does not tell apart. services_order fixes the payment of the
first event instead. The audit service is run with both events on one payment
and on two, committed at any time; the notification service, to which a payment
is only the row it writes, with two payments whose events are committed at first.

`NoEventDropped` is checked by webhooks_refunds, where it fails; where no two
events share a payment, it is a theorem (section 6).

## 4. Fairness

The modules not named here are checked for safety only.

- OutboxRelay: weak fairness of the relay's steps (the ticker ticks), of its
  restart (docker-compose), of routing and of the broker's return.
- Subscriber: weak fairness of the loop (handlers and delays end), of delivery,
  of the broker reading the frames it was sent and noticing, by its heartbeats,
  that a connection is gone, and of restarts. Shutdowns and lost connections are
  not fair.
- EventServices: that of Subscriber, and of the handler's steps: a handler
  returns, with success or an error. Nothing says that it ever succeeds.
- Webhooks: weak fairness of the poller, of posting and saving (the HTTP client
  has a timeout) and of time passing; none of dispatching.

## 5. Findings

Each is a run that violates a property; `PROJECT.json` quotes the line that says
otherwise.

| Run | What the code does |
|---|---|
| lifecycle_overrefund | overlapping refunds give back more than was charged |
| idem_gap | a second payment under one key, through the gap between Find and Lock |
| outbox_stuck | the publisher never reconnects after an outage |
| webhooks_refunds | two refunds share a delivery row, and the second event is lost |

The same models explain other behaviour that a reader of the documents would not
expect. It is listed with the hazards, and each can be seen by dropping an
assumption named here:

- a refund is repeated at the PSP when its transaction failed and the merchant
  tries again, and so is a capture: this is why `OverRefundsNeedDisturbance` and
  `LedgerReconciles` exempt payments of which an operation was cut off there;
- a refunded payment becomes partially refunded (`FollowsDiagram` without
  `SerialClient`);
- a redelivered payment.created is authorized at the PSP again, since the gateway
  is called before the status is looked at (`Authorize`);
- a second payment when the response could not be cached and the client retries
  (`OnePaymentPerKey` with `Faults = TRUE`);
- what is on the wire when the broker goes down, or is routed before its queue
  exists, is marked as published and lost (`NothingLost` without its condition, or
  with `PublisherDeclares = FALSE`);
- an event that commits behind a later one of its payment is published behind it
  (`PaymentOrderKept` without its exception for `late`);
- a shutdown dead-letters a message that had tries left (the last case of
  `DeadAfterRetries`); errors are dead-lettered, not requeued as the comment of
  `MessageHandler` has it (`Nack`);
- a lost Ack or Nack brings a message back after later ones were handled:
  `payment.completed` may be told after `payment.refunded`, and recorded behind it
  (`HandledInOrder`, `TellsInOrder` and `TrailGrowsInOrder` exempt what a broken
  connection held);
- a redelivered event notifies the customer again: the upsert of its row, which
  the README names as the protection, comes after the message was sent. This is
  why `TellsWithinPolicy` counts crashes and failed saves;
- the row of a notification may say `failed` although the customer was told, when
  a later delivery failed, and two refunds of a payment share it: this is why
  `AckedIsDone` says no more than that it exists. (The text of a refund shows the
  whole amount of the payment, also for a partial one.)
- a redelivered event starts an exhausted delivery over (`Upsert`): this is why
  `PostsWithinPolicy` counts the times an event was dispatched;
- a redelivered event is posted at once, whatever its row says, and its row, with
  a count and a delay of its own, is saved over the one the poller works on: this
  is why `RetriesWait` is about what the poller sends, and counts lost outcomes;
- rows with the same amount, currency, status or `created_at` have no order: even
  a walk through a table that does not change may repeat and miss them. This is
  why the properties of the listing exempt payments that shared their key;
- the answer's `total` and `total_pages` are counted before its rows are read
  (`TotalsNeedMoves` says by how much they may be off); the search for `refunded`
  also finds `partially_refunded`; a negative offset, from a product that left
  int, is an error of Postgres.

## 6. Proofs

Proved for every value of the constants that meets the modules' assumptions, and
the conditions named here:

**PaymentLifecycleProofs.** `IInv` is the conjunction of `TypeOK`,
`RowsConsistent`, `LedgerBehindPsp` and `InFlightCovered`. The first three are
not inductive: a `Save` puts a copy in the table, and nothing in them constrains
copies. `InFlightCovered` says of each copy that it is consistent and that the
PSP will have done all it claims once its gateway call returned. It survives the
other workers because the account of the PSP only grows. `Invariance` gives
`Typing`, `RowsStayConsistent`, `LedgerStaysBehindPsp` and `CopiesStayCovered`.
`EventInv` adds, again of rows and of copies, that what a copy will announce is in
order with what its payment's events have already said; `OutboxStaysMirror` and
`EventsStayInOrder` follow.

Assuming `SerialClient` and at most one consumer, `Spec => FollowsDiagram`: each
`Save` is one step of `PaymentStates` on the row the table holds, every other step
stutters. Operations may be cut off anywhere. The invariant behind it is
`InFlightFresh`: the copy in flight is one transition away from the row in the
table now. Without serial requests it is false, as lifecycle_overrefund shows.

`NoOverRefund` and `LedgerAgrees` assume nothing. They say of which payments alone
the PSP may give back too much, or disagree with the table: those on which an
operation overlapped one that could still save its copy, and those with a capture
or refund cut off behind its call to the PSP. The invariant is `MoneyInv`: a
payment that is not `disturbed` is `Calm`, that is, at most one operation on it
may still save, its copy fits the row (`CopyFits`), and the PSP's account matches
the row, or that copy once the PSP was called. What a redelivered payment.created
authorizes again is beside the account of captures and refunds, and so it need
not disturb.

**IdempotencyProofs.** `OneInSection`: the lock of a key is held while a request
is in its section, until it runs out under it. `GenuineAnswers` needs nothing:
every cached response is genuine, whatever expires. `AnswersPreventCreation`
needs the two facts that, while a response is cached, nobody who knew of an answer
is on its way to create. None of the three assumes anything of the environment.

**OutboxRelayProofs.** `RelayLosesNothing` is about the queue the publisher
declares, for any number of relays, and says that until the broker first goes down
every marked event has arrived or is on its way. The invariant adds that an event a
relay is about to mark is on its wire or has arrived, that the queue is bound as
soon as a relay has run, and that an outage is never taken back.

With one relay, `Spec => ImplementsChannel`, and `PaymentOrderKept`. Every
`Route` must be a step `Arrive` that follows no later event of its payment, so
the invariant `OrderInv` speaks of the wire (`WireOrdered`), of the batch
(`NothingSkipped`: no event older than one of the batch waits outside it
unpublished) and of what comes next (`NothingOvertaken`), each but for late
events. Crashes, failed UPDATEs and outages may happen anywhere.

`OneRelayRepeatsForFaults`: what has arrived of an event, what is on the wire of
it and one more while it is neither published nor written by the batch in
progress never exceed one and the faults. `RepeatsNeedFaults` alone is not
inductive, since a fault is paid for long before its copy arrives.

**SubscriberProofs.** For any number of consumers: `OnePlace`,
`DeadForAReason`, `AcknowledgedWasHandled` and `RepetitionNeedsACut`, whose
invariant bounds the successes of a message by the cuts, one less while its
handler may still succeed. For one
consumer: `OneConsumerKeepsOrder`. A message is `Fresh` while it waits in the queue
or the inbox and no broken connection has held it. All that is fresh comes behind
all that is not, and the inbox has what is fresh in order (`OrderOf`), so what is
handled for the first time comes behind whatever was handled before. A message
that a broken connection held is no longer fresh: it may be one that was handled
and whose Ack was lost.

**EventServicesProofs.** `RunsSubscriber` shows that the composition implements
`Subscriber`, so that its theorems hold here: `ServiceKeepsOrder` is
`OneConsumerKeepsOrder`, used again. `AcknowledgedIsOnRecord` and, for one
consumer, `TrailKeepsOrder` combine it with what the handler wrote and the order
`EventChannel` promises. `CustomerHearsInOrder`, also for one consumer, follows
from `ToldInOrder`: no message the customer was told of is fresh.
`TellingAgainNeedsAFault`, for any number
of consumers, is a count like the relay's (`TellBounded`): the times a message was
told, and the consumers that may still tell it, are paid for by the cuts and the
failed saves, and by one more once the message is acknowledged or held by a
consumer that has told it.

**WebhooksProofs.** `HonestRows`: what `RowsAreHonest` says of rows, `HonestInv`
says of tasks in memory too, whoever saves last. `NothingDropped` needs that no two
events of the type share a payment, the condition that webhooks_refunds violates.

`FailedDeliveriesWait`: whenever the poller may send a delivery again, because its
row is due or because it holds a copy it has not posted yet, one delay that has
passed or one lost outcome is not yet spent (`WaitInv`, `MayRetry`). A dispatcher
that saves over the row resets `due`, whatever the poller is doing; what the poller
has posted and loses, it may post again, and that is a lost outcome. With two
pollers the property fails.

`PolicyKept` is the hardest of them, because a dispatcher restarts the count of
attempts of a row and the poller saves a count of its own over it. `Room` is what
is left of the allowance of a row, `cuts + MaxAttempts * RunsOf(p) - posts`, once
what each dispatcher's task may still spend is set aside. `Paid` says that it is
never negative and covers the attempts left to the task of the poller and to the
failed row, with one more for the row while the poller is ahead of it. It
assumes `OnePoller`. The code justifies that: `docker-compose.yml` gives the
webhook service a fixed `container_name`, so it cannot be scaled, and `main`
starts one goroutine that polls. With two pollers TLC finds a violation: the
second fetches and posts what the first has posted and not yet saved.

**ListingProofs.** The argument is about places: the place of a payment is how
many listed payments come before it. Whatever order a query chooses among ties, a
row comes at its place at the earliest, and exactly there when it shares its key
with no other. A row that joins, leaves or moves changes each other place by one
at most. `BaseInv` ties page, offset and what was read together: a walk that has
not left the int continues where it stopped.

- `MissesAreLeavers`: of the payments that matched all along with a key of their
  own, those behind the client that it did not see (`Missed`) are at most as many
  as left or moved. Each of these pulls at most one over the end of the last page.
- `RepeatsAreArrivals`: a payment that was shown stands no further behind the
  index it was shown at than rows joined or moved.
- `TotalsAreClose` needs no places and no exception for ties: what was shown was
  listed, and what was counted too.
- `QuietListings`: while nothing moves, the places are the indexes; of the tied
  rows the number and the order of their keys is left.

The theorems hold for any set of payments and of keys, any page and limit that fit
an int (`ParametersAssumption`; `strconv.Atoi` yields no others, and anything else
stands for 0) and any width that holds the default limit.

**BasicFacts** holds what several of these need and the library does not have: a
set with one member more or less, and powers of two with what a product that
fits or leaves a width becomes.

Only model-checked: the liveness properties `EventuallyArrives`,
`EveryMessageSettles`, `EventuallyRecorded` and `FailuresEnd`, since the prover
reasons neither about fairness nor about ENABLED. Every other property of a
passing run is a theorem, and so is `NoEventDropped`, under its condition. The conditions of those that have one (a serial client,
one consumer, one relay, one poller, no shared payments) are named above.

## 7. Hazards

`PROJECT.json` lists each with its line and the properties that cover it:
overlapping operations on a copy of a row, PSP and database out of step,
redelivery, gaps between two calls to Redis, crashes between publish and mark or
between handler and Ack, Acks and Nacks lost with their connection, a shutdown
between two tries, an outage, commits against the order of their stamps, a
customer told twice or in the wrong order, a trail recorded twice, shared rows of
the webhook and notification tables, boundaries of the counters, a listing that
changes under its reader, and one whose order leaves ties open.

Those without a property say why. Most are behaviour that nothing in the code
prevents, so that there is no promise to check: a second authorization at the PSP,
a second payment for a client that got no answer, events lost on the wire or
routed before their queue exists, two relays at once. The others are truncating
the payments under running operations, which only a tool for development does,
and what the row of a notification says in the end, which nothing reads.

## 8. Not modelled

- Migrations: a run of SQL files by a library that has its own lock and dirty
  flag, before anything else starts. It keeps no state that the rest reads.
- Configuration and start-up: they read the environment and wire the parts; the
  values are the constants of the modules.
- The in-memory repositories: test doubles, which no process uses.
- Signatures, JSON, URLs, the wording of notifications and log lines: no property
  is about them. A message that cannot be decoded is one that the consumer
  dead-letters.
- The lengths of delays: a timer is an event that may happen. (`nextDelay` doubles
  in an int64; it leaves it only after a delay of 146 years.)
- `GetPayment`, the listing of webhooks and the health check: a SELECT each, and no
  state changes. `Delete` of the payment repository is called by nothing.
- A composition of all modules from the HTTP request to the PSP: its state is the
  product of theirs. The pieces meet at `EventChannel`, which `OutboxRelay` is
  proved to implement, and at the outbox of `PaymentLifecycle`, whose `Save` is
  the `Commit` of the channel.

## 9. Plan

Done: sections 2 to 6. What would add most next:

1. A map from keys to payments as an abstract specification that `Idempotency`
   implements for a client that sends one request at a time.
2. `PaymentLifecycle` with `EventChannel` in place of its free redelivery: a
   payment that was created is decided in the end, or its message is dead-lettered.
