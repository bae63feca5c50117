----------------------------- MODULE OutboxRelay -----------------------------
(***************************************************************************)
(* From the outbox table to a queue: the relay (application/outbox), its   *)
(* publisher (infrastructure/messaging/rabbitmq) and the outbox repository.*)
(*                                                                         *)
(* Events are numbered by created_at, the order FetchUnpublished reads     *)
(* them in.  An event is stamped before its transaction commits, so events *)
(* may commit out of that order, those of one payment when its operations  *)
(* overlap.                                                                *)
(*                                                                         *)
(* A message that Publish has written is on the wire until the broker      *)
(* routes it: the channel is not in confirm mode and the messages are not  *)
(* mandatory, so nobody hears of one that is lost on the way, or for which *)
(* no queue has been declared yet.  What a relay that died had written is  *)
(* routed before what its successor writes: a restart takes seconds.       *)
(***************************************************************************)
EXTENDS Integers, Sequences, FiniteSets

CONSTANTS
    Payments,           \* the aggregates events belong to
    MaxEvents,          \* bound on the events ever added
    Relays,             \* relay processes (docker-compose runs one)
    BatchSize,          \* OUTBOX_BATCH_SIZE
    PublisherDeclares,  \* TRUE: the queue is the one the publisher declares
    MaxFaults,          \* bound on crashes and failed UPDATEs
    MaxOutages          \* bound on the times the broker goes down

ASSUME BoundsAssumption ==
    /\ MaxEvents \in Nat /\ MaxFaults \in Nat /\ MaxOutages \in Nat
    /\ BatchSize \in Nat \ {0}
ASSUME DeclaresAssumption == PublisherDeclares \in BOOLEAN

VARIABLES
    owner,      \* the payment of each event
    committed,  \* events in the table
    late,       \* events committed behind a later event of their payment
    published,  \* events whose published_at is set
    pc,         \* what each relay does next
    batch,      \* the events each relay has fetched and not handled yet
    open,       \* open[r]: r's channel to the broker is open
    wire,       \* messages written by each relay and not yet routed
    bound,      \* the queue is declared and bound
    arrived,    \* messages the queue has received, in order
    up,         \* the broker is up
    faults,     \* crashes and failed UPDATEs so far
    outages     \* outages so far

table == <<owner, committed, late, published>>
process == <<pc, batch>>
broker == <<bound, arrived, up>>
vars == <<table, process, open, wire, broker, faults, outages>>

Events == 1 .. MaxEvents

TypeOK ==
    /\ owner \in [Events -> Payments]
    /\ committed \in SUBSET Events
    /\ late \in SUBSET Events
    /\ published \in SUBSET Events
    /\ pc \in [Relays -> {"down", "idle", "publish", "mark"}]
    /\ batch \in [Relays -> SUBSET Events]
    /\ open \in [Relays -> BOOLEAN]
    /\ wire \in [Relays -> Seq(Events)]
    /\ bound \in BOOLEAN
    /\ arrived \in Seq(Events)
    /\ up \in BOOLEAN
    /\ faults \in 0 .. MaxFaults
    /\ outages \in 0 .. MaxOutages

Init ==
    /\ owner \in [Events -> Payments]
    /\ committed = {}
    /\ late = {}
    /\ published = {}
    /\ pc = [r \in Relays |-> "down"]
    /\ batch = [r \in Relays |-> {}]
    /\ open = [r \in Relays |-> FALSE]
    /\ wire = [r \in Relays |-> << >>]
    /\ bound = FALSE
    /\ arrived = << >>
    /\ up = TRUE
    /\ faults = 0
    /\ outages = 0

-----------------------------------------------------------------------------

\* OutboxRepository.Add, in the transaction of the payment.
Add(e) ==
    /\ e \notin committed
    /\ committed' = committed \union {e}
    /\ late' = IF \E f \in committed : f > e /\ owner[f] = owner[e]
               THEN late \union {e} ELSE late
    /\ UNCHANGED <<owner, published, process, open, wire, broker, faults,
                   outages>>

\* The relay starts: NewPaymentPublisher dials the broker once, and declares
\* and binds the queue of payment.created.
Start(r) ==
    /\ pc[r] = "down"
    /\ up
    /\ pc' = [pc EXCEPT ![r] = "idle"]
    /\ open' = [open EXCEPT ![r] = TRUE]
    /\ bound' = (bound \/ PublisherDeclares)
    /\ UNCHANGED <<table, batch, wire, arrived, up, faults, outages>>

\* Mutant of Oldest: the order of the query is reversed.
Newest(events, n) ==
    {e \in events : Cardinality({f \in events : f > e}) < n}

\* The n oldest events of a set.
Oldest(events, n) ==
    {e \in events : Cardinality({f \in events : f < e}) < n}

\* Mutant of Fetch: the batch is marked before it is published.
FetchMarking(r) ==
    /\ pc[r] = "idle"
    /\ committed \ published # {}
    /\ batch' = [batch EXCEPT
                   ![r] = Oldest(committed \ published, BatchSize)]
    /\ published' = published \union Oldest(committed \ published, BatchSize)
    /\ pc' = [pc EXCEPT ![r] = "publish"]
    /\ UNCHANGED <<owner, committed, late, open, wire, broker, faults,
                   outages>>

\* A tick: FetchUnpublished.
Fetch(r) ==
    /\ pc[r] = "idle"
    /\ committed \ published # {}
    /\ batch' = [batch EXCEPT
                   ![r] = Oldest(committed \ published, BatchSize)]
    /\ pc' = [pc EXCEPT ![r] = "publish"]
    /\ UNCHANGED <<table, open, wire, broker, faults, outages>>

\* The event of the batch the relay is at.
Current(r) == CHOOSE e \in batch[r] : \A f \in batch[r] : e <= f

\* dispatch returns: the rest of the batch waits for the next tick.
Abandon(r) ==
    /\ pc' = [pc EXCEPT ![r] = "idle"]
    /\ batch' = [batch EXCEPT ![r] = {}]

\* PaymentPublisher.Publish on an open channel.
Publish(r) ==
    /\ pc[r] = "publish"
    /\ open[r]
    /\ wire' = [wire EXCEPT ![r] = Append(@, Current(r))]
    /\ pc' = [pc EXCEPT ![r] = "mark"]
    /\ UNCHANGED <<table, batch, open, broker, faults, outages>>

\* On a closed channel Publish returns an error, and nothing reopens it.
PublishFails(r) ==
    /\ pc[r] = "publish"
    /\ ~open[r]
    /\ Abandon(r)
    /\ UNCHANGED <<table, open, wire, broker, faults, outages>>

\* Mutant of Mark: the UPDATE finds no row.
MarkNothing(r) ==
    /\ pc[r] = "mark"
    /\ batch' = [batch EXCEPT ![r] = @ \ {Current(r)}]
    /\ pc' = [pc EXCEPT ![r] = IF batch[r] = {Current(r)} THEN "idle"
                                                       ELSE "publish"]
    /\ UNCHANGED <<table, open, wire, broker, faults, outages>>

\* Mutant of Mark: the next event is marked.
MarkNext(r) ==
    /\ pc[r] = "mark"
    /\ published' = published \union {Current(r) + 1}
    /\ batch' = [batch EXCEPT ![r] = @ \ {Current(r)}]
    /\ pc' = [pc EXCEPT ![r] = IF batch[r] = {Current(r)} THEN "idle"
                                                       ELSE "publish"]
    /\ UNCHANGED <<owner, committed, late, open, wire, broker, faults,
                   outages>>

\* MarkPublished, and on to the next event of the batch.
Mark(r) ==
    /\ pc[r] = "mark"
    /\ published' = published \union {Current(r)}
    /\ batch' = [batch EXCEPT ![r] = @ \ {Current(r)}]
    /\ pc' = [pc EXCEPT ![r] = IF batch[r] = {Current(r)} THEN "idle"
                                                       ELSE "publish"]
    /\ UNCHANGED <<owner, committed, late, open, wire, broker, faults,
                   outages>>

\* Mutant of MarkFails: dispatch goes on with the batch.
MarkFailsContinuing(r) ==
    /\ pc[r] = "mark"
    /\ faults < MaxFaults
    /\ faults' = faults + 1
    /\ batch' = [batch EXCEPT ![r] = @ \ {Current(r)}]
    /\ pc' = [pc EXCEPT ![r] = IF batch[r] = {Current(r)} THEN "idle"
                                                       ELSE "publish"]
    /\ UNCHANGED <<table, open, wire, broker, outages>>

MarkFails(r) ==
    /\ pc[r] = "mark"
    /\ faults < MaxFaults
    /\ faults' = faults + 1
    /\ Abandon(r)
    /\ UNCHANGED <<table, open, wire, broker, outages>>

\* The relay dies; what it has written stays on the wire.
Crash(r) ==
    /\ pc[r] # "down"
    /\ faults < MaxFaults
    /\ faults' = faults + 1
    /\ pc' = [pc EXCEPT ![r] = "down"]
    /\ batch' = [batch EXCEPT ![r] = {}]
    /\ open' = [open EXCEPT ![r] = FALSE]
    /\ UNCHANGED <<table, wire, broker, outages>>

-----------------------------------------------------------------------------

\* The subscriber of the queue starts, and declares and binds it.
Declare ==
    /\ up
    /\ ~bound
    /\ bound' = TRUE
    /\ UNCHANGED <<table, process, open, wire, arrived, up, faults, outages>>

\* The broker routes a message: to the queue, or nowhere.
Route(r) ==
    /\ up
    /\ wire[r] # << >>
    /\ wire' = [wire EXCEPT ![r] = Tail(@)]
    /\ arrived' = IF bound THEN Append(arrived, Head(wire[r])) ELSE arrived
    /\ UNCHANGED <<table, process, open, bound, up, faults, outages>>

\* The broker goes down with the connections and what was on them.  Queues
\* and routed messages are durable.
BrokerDown ==
    /\ up
    /\ outages < MaxOutages
    /\ outages' = outages + 1
    /\ up' = FALSE
    /\ open' = [r \in Relays |-> FALSE]
    /\ wire' = [r \in Relays |-> << >>]
    /\ UNCHANGED <<table, process, bound, arrived, faults>>

BrokerUp ==
    /\ ~up
    /\ up' = TRUE
    /\ UNCHANGED <<table, process, open, wire, bound, arrived, faults, outages>>

\* The steps of one turn of the relay's loop.
Dispatch(r) ==
    \/ Fetch(r)
    \/ Publish(r)
    \/ PublishFails(r)
    \/ Mark(r)

Next ==
    \/ \E e \in Events : Add(e)
    \/ \E r \in Relays : Start(r)
    \/ \E r \in Relays : Dispatch(r)
    \/ \E r \in Relays : MarkFails(r)
    \/ \E r \in Relays : Crash(r)
    \/ \E r \in Relays : Route(r)
    \/ Declare
    \/ BrokerDown
    \/ BrokerUp

Spec == Init /\ [][Next]_vars

\* The ticker keeps ticking, docker restarts a relay that died (restart:
\* unless-stopped), and the broker comes back and routes what it is given.
Fairness ==
    /\ \A r \in Relays : WF_vars(Start(r)) /\ WF_vars(Dispatch(r))
    /\ \A r \in Relays : WF_vars(Route(r))
    /\ WF_vars(BrokerUp)

FairSpec == Spec /\ Fairness

-----------------------------------------------------------------------------
(***************************************************************************)
(* Properties.                                                             *)
(***************************************************************************)

Occurs(e, s) == \E i \in 1 .. Len(s) : s[i] = e

\* The event has reached the queue or is on its way to it.
Safe(e) == Occurs(e, arrived) \/ \E r \in Relays : Occurs(e, wire[r])

\* Until the broker first goes down, an event marked as published has reached
\* the queue or is on its way to it, whatever crashes: publishing comes before
\* marking (Relay.dispatch).
NothingLost == outages = 0 => \A e \in published : Safe(e)

\* The events of one payment reach the queue in the order of their stamps,
\* repeated at most in place, though the relay is cut off anywhere (dispatch
\* stops at the first error).  Only an event that was committed behind a later
\* one, by an overlapping operation, may arrive behind it.
PaymentOrderKept ==
    \A i, j \in 1 .. Len(arrived) :
        i < j /\ owner[arrived[i]] = owner[arrived[j]]
            => arrived[i] <= arrived[j] \/ arrived[j] \in late

\* The broker gets an event twice only for a crash or a failed UPDATE between
\* Publish and MarkPublished: one relay never publishes again by itself.
RepeatsNeedFaults ==
    \A e \in Events :
        Cardinality({i \in 1 .. Len(arrived) : arrived[i] = e}) <= 1 + faults

\* An event that was committed with its payment reaches the queue, however
\* often the relay is cut off, unless the broker goes down.
EventuallyArrives ==
    \A e \in Events : e \in committed ~> Occurs(e, arrived) \/ outages > 0

Channel == INSTANCE EventChannel

\* The table, the relay and the broker together are the channel the services
\* are promised: whatever is cut off, repeated or lost in between.
ImplementsChannel == Channel!Spec

\* Relay.Run: an event that could not be published because the broker was down
\* is retried until it is published.
RetriedUntilPublished ==
    \A e \in Events : e \in committed ~> e \in published
=============================================================================
