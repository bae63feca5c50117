------------------------------ MODULE Webhooks ------------------------------
(***************************************************************************)
(* The webhook service: DispatchWebhook, run by the subscriber for every   *)
(* event, and RetryDeliveries, a poller of the deliveries table in the     *)
(* same process (application/webhook, domain/webhook).                     *)
(*                                                                         *)
(* Only events of one type are modelled: a subscription, and so the id of  *)
(* a delivery, belongs to a single type.  That id is a hash of the         *)
(* subscription, the type and the payment; the table has one row per       *)
(* subscription and id, here deliveries[s][p].                             *)
(*                                                                         *)
(* Both workers POST first and save the outcome afterwards, each on its    *)
(* own copy of the row.  The upsert compares nothing with the row that is  *)
(* there, and leaves its payload as it is.                                 *)
(***************************************************************************)
EXTENDS Integers, FiniteSets

CONSTANTS
    Subscriptions,  \* the subscriptions a merchant may register
    Payments,       \* aggregate ids
    Events,         \* messages of the webhook queue, of one type
    PaymentOf,      \* the payment of each event
    NoEvent,        \* the payload of a row that does not exist
    Dispatchers,    \* subscribers running DispatchWebhook
    Retriers,       \* pollers running RetryDeliveries
    BatchSize,      \* WEBHOOK_RETRY_BATCH_SIZE
    MaxAttempts,    \* WEBHOOK_RETRY_MAX_ATTEMPTS
    MaxRuns,        \* bound on the times one event is dispatched
    MaxCuts         \* bound on failed saves and crashes

ASSUME EventsAssumption ==
    PaymentOf \in [Events -> Payments] /\ NoEvent \notin Events
ASSUME WorkersAssumption == Dispatchers \intersect Retriers = {}
ASSUME BoundsAssumption ==
    /\ BatchSize \in Nat \ {0} /\ MaxAttempts \in Nat \ {0}
    /\ MaxRuns \in Nat /\ MaxCuts \in Nat

VARIABLES
    active,      \* subscriptions registered so far
    deliveries,  \* the webhook_deliveries table
    job,         \* the tasks each worker has still to handle
    runs,        \* how often each event has been dispatched
    posts,       \* POSTs sent under each id
    accepted,    \* events whose POST the endpoint answered with 2xx
    recorded,    \* events a dispatcher has saved an outcome for
    cuts,        \* failed saves and crashes so far
    retries,     \* POSTs of each id that a poller sent
    waits        \* delays of each row that have passed

vars == <<active, deliveries, job, runs, posts, accepted, recorded, cuts,
          retries, waits>>

Workers == Dispatchers \union Retriers

Statuses == {"absent", "pending", "delivered", "failed", "exhausted"}

\* due: next_attempt_at has passed.
Row == [status : Statuses, attempts : Nat, due : BOOLEAN,
        payload : Events \union {NoEvent}]

NoRow == [status |-> "absent", attempts |-> 0, due |-> FALSE,
          payload |-> NoEvent]

\* A delivery a worker has in memory; posted: its POST has been answered and
\* row holds the outcome, to be saved.
Task == [sub : Subscriptions, row : Row, posted : BOOLEAN]

TypeOK ==
    /\ active \in SUBSET Subscriptions
    /\ deliveries \in [Subscriptions -> [Payments -> Row]]
    /\ job \in [Workers -> SUBSET Task]
    /\ runs \in [Events -> 0 .. MaxRuns]
    /\ posts \in [Subscriptions -> [Payments -> Nat]]
    /\ accepted \in [Subscriptions -> SUBSET Events]
    /\ recorded \in [Subscriptions -> SUBSET Events]
    /\ cuts \in 0 .. MaxCuts
    /\ retries \in [Subscriptions -> [Payments -> Nat]]
    /\ waits \in [Subscriptions -> [Payments -> Nat]]

Init ==
    /\ active = {}
    /\ deliveries = [s \in Subscriptions |-> [p \in Payments |-> NoRow]]
    /\ job = [w \in Workers |-> {}]
    /\ runs = [e \in Events |-> 0]
    /\ posts = [s \in Subscriptions |-> [p \in Payments |-> 0]]
    /\ accepted = [s \in Subscriptions |-> {}]
    /\ recorded = [s \in Subscriptions |-> {}]
    /\ cuts = 0
    /\ retries = [s \in Subscriptions |-> [p \in Payments |-> 0]]
    /\ waits = [s \in Subscriptions |-> [p \in Payments |-> 0]]

PaymentOfTask(t) == PaymentOf[t.row.payload]

-----------------------------------------------------------------------------

\* POST /api/v1/webhooks; nothing ever removes or deactivates a subscription.
Subscribe(s) ==
    /\ s \notin active
    /\ active' = active \union {s}
    /\ UNCHANGED <<deliveries, job, runs, posts, accepted, recorded, cuts,
                   retries, waits>>

\* NewDelivery.
NewDelivery(s, e) ==
    [sub |-> s, posted |-> FALSE,
     row |-> [status |-> "pending", attempts |-> 0, due |-> FALSE,
              payload |-> e]]

\* DispatchWebhook.Execute starts: one new delivery per active subscription,
\* also when the event has been dispatched before.
Dispatch(d, e) ==
    /\ job[d] = {}
    /\ runs[e] < MaxRuns
    /\ runs' = [runs EXCEPT ![e] = @ + 1]
    /\ job' = [job EXCEPT ![d] = {NewDelivery(s, e) : s \in active}]
    /\ UNCHANGED <<active, deliveries, posts, accepted, recorded, cuts,
                   retries, waits>>

\* Mutant of Retriable: the query does not look at next_attempt_at.
RetriableAtOnce ==
    {[sub |-> x[1], row |-> deliveries[x[1]][x[2]], posted |-> FALSE] :
        x \in {y \in active \X Payments :
                deliveries[y[1]][y[2]].status = "failed"}}

\* Mutant of Retriable: the last attempt is never made.
RetriableShort ==
    {[sub |-> x[1], row |-> deliveries[x[1]][x[2]], posted |-> FALSE] :
        x \in {y \in active \X Payments :
                /\ deliveries[y[1]][y[2]].status = "failed"
                /\ deliveries[y[1]][y[2]].due
                /\ deliveries[y[1]][y[2]].attempts < MaxAttempts - 1}}

\* What FetchRetriable selects from: failed deliveries whose backoff has passed.
Retriable ==
    {[sub |-> x[1], row |-> deliveries[x[1]][x[2]], posted |-> FALSE] :
        x \in {y \in active \X Payments :
                /\ deliveries[y[1]][y[2]].status = "failed"
                /\ deliveries[y[1]][y[2]].due}}

\* A tick of RetryDeliveries.  Which deliveries have waited longest is left
\* open.
FetchRetriable(r) ==
    /\ job[r] = {}
    /\ Retriable # {}
    /\ \E batch \in SUBSET Retriable :
         /\ \/ Cardinality(batch) = BatchSize
            \/ batch = Retriable /\ Cardinality(batch) < BatchSize
         /\ job' = [job EXCEPT ![r] = batch]
    /\ UNCHANGED <<active, deliveries, runs, posts, accepted, recorded, cuts,
                   retries, waits>>

\* Mutant of Outcome: a status the table does not have.
OutcomeMisspelt(row, success) ==
    [row EXCEPT
        !.attempts = @ + 1,
        !.due = FALSE,
        !.status = IF success THEN "sent"
                   ELSE IF row.attempts + 1 >= MaxAttempts THEN "exhausted"
                   ELSE "failed"]

\* Mutant of Outcome: one attempt too many.
OutcomeLate(row, success) ==
    [row EXCEPT
        !.attempts = @ + 1,
        !.due = FALSE,
        !.status = IF success THEN "delivered"
                   ELSE IF row.attempts >= MaxAttempts THEN "exhausted"
                   ELSE "failed"]

\* Mutant of Outcome: any answer counts as a delivery.
OutcomeAnyAnswer(row, success) ==
    [row EXCEPT !.attempts = @ + 1, !.due = FALSE, !.status = "delivered"]

\* Mutant of Outcome: attempts are not counted.
OutcomeUncounted(row, success) ==
    [row EXCEPT
        !.due = FALSE,
        !.status = IF success THEN "delivered"
                   ELSE IF row.attempts + 1 >= MaxAttempts THEN "exhausted"
                   ELSE "failed"]

\* applyAttemptOutcome: MarkDelivered, MarkExhausted or MarkForRetry, whose
\* delay is positive (nextDelay doubles it, and asks for more than a Duration
\* holds only after a delay of 146 years).
Outcome(row, success) ==
    [row EXCEPT
        !.attempts = @ + 1,
        !.due = FALSE,
        !.status = IF success THEN "delivered"
                   ELSE IF row.attempts + 1 >= MaxAttempts THEN "exhausted"
                   ELSE "failed"]

\* Deliveries are handled one after the other.
Busy(w) == \E t \in job[w] : t.posted

\* Sender.Send, answered with 2xx or not, and applyAttemptOutcome.
Post(w) ==
    /\ ~Busy(w)
    /\ \E t \in job[w], success \in BOOLEAN :
         /\ posts' = [posts EXCEPT ![t.sub][PaymentOfTask(t)] = @ + 1]
         /\ retries' = IF w \in Retriers
                       THEN [retries EXCEPT ![t.sub][PaymentOfTask(t)] = @ + 1]
                       ELSE retries
         /\ accepted' = [accepted EXCEPT
              ![t.sub] = IF success THEN @ \union {t.row.payload} ELSE @]
         /\ job' = [job EXCEPT ![w] = (@ \ {t}) \union
              {[t EXCEPT !.posted = TRUE, !.row = Outcome(@, success)]}]
    /\ UNCHANGED <<active, deliveries, runs, recorded, cuts, waits>>

\* INSERT ... ON CONFLICT DO UPDATE of everything but the payload.
Upsert(old, new) ==
    IF old.status = "absent" THEN new ELSE [new EXCEPT !.payload = old.payload]

\* DeliveryRepository.Save.
Save(w) ==
    /\ \E t \in job[w] :
         /\ t.posted
         /\ deliveries' = [deliveries EXCEPT
              ![t.sub][PaymentOfTask(t)] = Upsert(@, t.row)]
         /\ recorded' = [recorded EXCEPT ![t.sub] = @ \union {t.row.payload}]
         /\ job' = [job EXCEPT ![w] = @ \ {t}]
    /\ UNCHANGED <<active, runs, posts, accepted, cuts, retries, waits>>

\* A query fails or the process dies: the rest of the work is dropped.
Cut(w) ==
    /\ job[w] # {}
    /\ cuts < MaxCuts
    /\ cuts' = cuts + 1
    /\ job' = [job EXCEPT ![w] = {}]
    /\ UNCHANGED <<active, deliveries, runs, posts, accepted, recorded,
                   retries, waits>>

\* The delay of a failed delivery passes.
FallDue(s, p) ==
    /\ deliveries[s][p].status = "failed"
    /\ ~deliveries[s][p].due
    /\ deliveries' = [deliveries EXCEPT ![s][p].due = TRUE]
    /\ waits' = [waits EXCEPT ![s][p] = @ + 1]
    /\ UNCHANGED <<active, job, runs, posts, accepted, recorded, cuts, retries>>

Next ==
    \/ \E s \in Subscriptions : Subscribe(s)
    \/ \E d \in Dispatchers, e \in Events : Dispatch(d, e)
    \/ \E r \in Retriers : FetchRetriable(r)
    \/ \E w \in Workers : Post(w)
    \/ \E w \in Workers : Save(w)
    \/ \E w \in Workers : Cut(w)
    \/ \E s \in Subscriptions, p \in Payments : FallDue(s, p)

Spec == Init /\ [][Next]_vars

\* Clients of the sender time out, the ticker ticks, delays pass.
Fairness ==
    /\ \A r \in Retriers : WF_vars(FetchRetriable(r))
    /\ \A w \in Workers : WF_vars(Post(w)) /\ WF_vars(Save(w))
    /\ \A s \in Subscriptions, p \in Payments : WF_vars(FallDue(s, p))

FairSpec == Spec /\ Fairness

-----------------------------------------------------------------------------
(***************************************************************************)
(* Properties.                                                             *)
(***************************************************************************)

\* A row never says more than happened, whichever of the workers saved it
\* last: delivered means that the endpoint accepted an event of this payment,
\* a failed one has attempts left, an exhausted one has none.
RowsAreHonest ==
    \A s \in Subscriptions, p \in Payments :
        LET row == deliveries[s][p] IN
        /\ row.status = "delivered" =>
              \E e \in accepted[s] : PaymentOf[e] = p
        /\ row.status = "failed" => row.attempts \in 1 .. MaxAttempts - 1
        /\ row.status = "exhausted" => row.attempts = MaxAttempts
        /\ row.status # "absent" => row.attempts <= posts[s][p]

\* The row of e still holds its payload, to be sent again or given up.
StillTrying(s, e) ==
    LET row == deliveries[s][PaymentOf[e]] IN
    row.payload = e /\ row.status \in {"failed", "exhausted"}

\* An event that was dispatched and recorded is accepted by the endpoint, or
\* is kept to be sent again until the attempts are used up: redeliveries,
\* races with the poller and crashes never drop it (README, Retry de entregas:
\* the row keeps the payload, so the retry needs no message).
NoEventDropped ==
    \A s \in Subscriptions : \A e \in recorded[s] :
        e \in accepted[s] \/ StillTrying(s, e)

\* How often events of p have been dispatched: the runs of each, numbered.
RunsOf(p) ==
    Cardinality({run \in Events \X (1 .. MaxRuns) :
                   PaymentOf[run[1]] = p /\ run[2] <= runs[run[1]]})

\* A merchant gets at most MaxAttempts POSTs for each time an event of the
\* payment is dispatched, and one more for each outcome that was not saved,
\* although dispatcher and poller may save over each other's count.
PostsWithinPolicy ==
    \A s \in Subscriptions, p \in Payments :
        posts[s][p] <= cuts + MaxAttempts * RunsOf(p)

\* A delivery that has failed waits before the poller sends it again: it does so
\* once for each delay that has passed, and once more for each outcome that was
\* not saved, although it may work on a copy of the row while dispatchers save
\* over it.  These do not wait: an event that is delivered again is sent at
\* once, whatever its row says.
RetriesWait ==
    \A s \in Subscriptions, p \in Payments :
        retries[s][p] <= waits[s][p] + cuts

\* No delivery stays failed for ever: it is retried until it is delivered or
\* exhausted.
FailuresEnd ==
    \A s \in Subscriptions, p \in Payments :
        deliveries[s][p].status = "failed" ~>
            deliveries[s][p].status \in {"delivered", "exhausted"}
=============================================================================
