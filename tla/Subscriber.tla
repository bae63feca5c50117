----------------------------- MODULE Subscriber -----------------------------
(***************************************************************************)
(* From a queue to its handler or its dead letter queue: PaymentConsumer   *)
(* and Subscriber (infrastructure/messaging/rabbitmq), which run the same  *)
(* loop, and the broker's side of manual acknowledgement.                  *)
(*                                                                         *)
(* Messages are numbered in the order the queue receives them.  A consumer *)
(* handles one delivery at a time, the ones prefetched behind it wait in   *)
(* its process.  Its Ack or Nack is a frame that nobody confirms: the loop *)
(* goes on with the next delivery, and the broker settles the message when *)
(* it reads the frame, or never, when the connection breaks before.  What  *)
(* a broken connection held goes back to its place in the queue once the   *)
(* broker has noticed.                                                     *)
(***************************************************************************)
EXTENDS Integers, FiniteSets, SequencesExt

CONSTANTS
    MaxMessages,   \* bound on the messages the queue receives
    Malformed,     \* those whose body PaymentConsumer cannot decode
    Consumers,     \* processes that consume the queue
    MaxRetries,    \* RABBITMQ_MAX_RETRIES
    Prefetch,      \* prefetchCount
    MaxCuts,       \* bound on crashes and lost connections
    MaxStops       \* bound on SIGTERMs

ASSUME BoundsAssumption ==
    /\ MaxMessages \in Nat /\ MaxRetries \in Nat
    /\ MaxCuts \in Nat /\ MaxStops \in Nat
    /\ Prefetch \in Nat \ {0}
ASSUME HandlerAssumption ==
    Malformed \subseteq 1 .. MaxMessages

Messages == 1 .. MaxMessages

VARIABLES
    sent,      \* messages 1 .. sent have reached the queue
    ready,     \* messages the queue may deliver
    held,      \* held[c]: delivered to c and not settled, as the broker has it
    lost,      \* what broken connections held, the broker not yet aware of it
    acked,     \* messages acknowledged
    dead,      \* messages in the dead letter queue
    open,      \* open[c]: c's connection works
    inbox,     \* inbox[c]: deliveries c has received and not taken yet
    frames,    \* frames[c]: Acks and Nacks of c the broker has not read yet
    pc,        \* what each consumer does next
    current,   \* current[c]: the message c is handling, 0 for none
    tries,     \* tries[c]: runs of the handler on it so far
    stopping,  \* stopping[c]: c's context is cancelled
    handled,   \* handled[m]: how often the handler of m has succeeded
    cutOff,    \* messages that were held by a connection when it broke
    cuts,      \* crashes and lost connections so far
    stops      \* SIGTERMs so far

queue == <<sent, ready, held, lost, acked, dead>>
channel == <<open, inbox, frames>>
loop == <<pc, current, tries>>
history == <<handled, cutOff>>
bounds == <<cuts, stops>>
vars == <<queue, channel, loop, stopping, history, bounds>>

Frames == {"ack", "nack"} \X (1 .. sent)

TypeOK ==
    /\ sent \in 0 .. MaxMessages
    /\ ready \in SUBSET (1 .. sent)
    /\ acked \in SUBSET (1 .. sent)
    /\ dead \in SUBSET (1 .. sent)
    /\ held \in [Consumers -> SUBSET (1 .. sent)]
    /\ lost \in SUBSET SUBSET (1 .. sent)
    /\ open \in [Consumers -> BOOLEAN]
    /\ inbox \in [Consumers -> Seq(1 .. sent)]
    /\ frames \in [Consumers -> Seq(Frames)]
    /\ pc \in [Consumers -> {"down", "select", "try", "wait", "ack", "nack"}]
    /\ current \in [Consumers -> 0 .. sent]
    /\ tries \in [Consumers -> 0 .. MaxRetries + 1]
    /\ stopping \in [Consumers -> BOOLEAN]
    /\ handled \in [Messages -> Nat]
    /\ cutOff \in SUBSET (1 .. sent)
    /\ cuts \in 0 .. MaxCuts
    /\ stops \in 0 .. MaxStops

Init ==
    /\ sent = 0
    /\ ready = {}
    /\ held = [c \in Consumers |-> {}]
    /\ lost = {}
    /\ acked = {}
    /\ dead = {}
    /\ open = [c \in Consumers |-> FALSE]
    /\ inbox = [c \in Consumers |-> << >>]
    /\ frames = [c \in Consumers |-> << >>]
    /\ pc = [c \in Consumers |-> "down"]
    /\ current = [c \in Consumers |-> 0]
    /\ tries = [c \in Consumers |-> 0]
    /\ stopping = [c \in Consumers |-> FALSE]
    /\ handled = [m \in Messages |-> 0]
    /\ cutOff = {}
    /\ cuts = 0
    /\ stops = 0

Goto(c, step) == pc' = [pc EXCEPT ![c] = step]

First(messages) == CHOOSE m \in messages : \A n \in messages : m <= n

-----------------------------------------------------------------------------
(***************************************************************************)
(* The broker.                                                             *)
(***************************************************************************)

\* The exchange routes a message to the queue.
Receive ==
    /\ sent < MaxMessages
    /\ sent' = sent + 1
    /\ ready' = ready \union {sent + 1}
    /\ UNCHANGED <<held, lost, acked, dead, channel, loop, stopping, history,
                   bounds>>

\* The first ready message goes to a consumer with room in its prefetch.
Deliver(c) ==
    /\ open[c]
    /\ ready # {}
    /\ Cardinality(held[c]) < Prefetch
    /\ ready' = ready \ {First(ready)}
    /\ held' = [held EXCEPT ![c] = @ \union {First(ready)}]
    /\ inbox' = [inbox EXCEPT ![c] = Append(@, First(ready))]
    /\ UNCHANGED <<sent, lost, acked, dead, open, frames, loop, stopping,
                   history, bounds>>

\* Mutant of Settle: messages are rejected with requeue.
SettleRequeueing(c) ==
    /\ frames[c] # << >>
    /\ frames' = [frames EXCEPT ![c] = Tail(@)]
    /\ LET verdict == Head(frames[c])[1]
           m == Head(frames[c])[2]
       IN  /\ held' = [held EXCEPT ![c] = @ \ {m}]
           /\ IF verdict = "ack"
              THEN acked' = acked \union {m} /\ UNCHANGED ready
              ELSE ready' = ready \union {m} /\ UNCHANGED acked
    /\ UNCHANGED <<sent, lost, dead, open, inbox, loop, stopping, history,
                   bounds>>

\* The broker reads the next frame of c: the message is acknowledged, or it is
\* dead-lettered, since Nack never asks to requeue it.
Settle(c) ==
    /\ frames[c] # << >>
    /\ frames' = [frames EXCEPT ![c] = Tail(@)]
    /\ LET verdict == Head(frames[c])[1]
           m == Head(frames[c])[2]
       IN  /\ held' = [held EXCEPT ![c] = @ \ {m}]
           /\ IF verdict = "ack"
              THEN acked' = acked \union {m} /\ UNCHANGED dead
              ELSE dead' = dead \union {m} /\ UNCHANGED acked
    /\ UNCHANGED <<sent, ready, lost, open, inbox, loop, stopping, history,
                   bounds>>

\* The broker notices that a connection is gone.
Requeue(messages) ==
    /\ ready' = ready \union messages
    /\ lost' = lost \ {messages}
    /\ UNCHANGED <<sent, held, acked, dead, channel, loop, stopping, history,
                   bounds>>

\* Mutant of Break: messages are acknowledged on delivery (autoAck).
BreakLosing(c) ==
    /\ cuts < MaxCuts
    /\ cuts' = cuts + 1
    /\ open' = [open EXCEPT ![c] = FALSE]
    /\ frames' = [frames EXCEPT ![c] = << >>]
    /\ held' = [held EXCEPT ![c] = {}]
    /\ cutOff' = cutOff \union held[c]
    /\ UNCHANGED <<sent, ready, lost, acked, dead, stops>>

\* c's connection breaks, and the frames on their way with it.
Break(c) ==
    /\ cuts < MaxCuts
    /\ cuts' = cuts + 1
    /\ open' = [open EXCEPT ![c] = FALSE]
    /\ frames' = [frames EXCEPT ![c] = << >>]
    /\ held' = [held EXCEPT ![c] = {}]
    /\ lost' = lost \union ({held[c]} \ {{}})
    /\ cutOff' = cutOff \union held[c]
    /\ UNCHANGED <<sent, ready, acked, dead, stops>>

-----------------------------------------------------------------------------
(***************************************************************************)
(* The consumer.                                                           *)
(***************************************************************************)

\* The process starts: NewPaymentConsumer or NewSubscriber, and Consume.
Start(c) ==
    /\ pc[c] = "down"
    /\ Goto(c, "select")
    /\ open' = [open EXCEPT ![c] = TRUE]
    /\ stopping' = [stopping EXCEPT ![c] = FALSE]
    /\ UNCHANGED <<queue, inbox, frames, current, tries, history, bounds>>

\* The select of Start receives a delivery, also when the context has been
\* cancelled: Go picks any of the cases that are ready.  Deliveries received
\* before the connection broke may still be taken.
Take(c) ==
    /\ pc[c] = "select"
    /\ inbox[c] # << >>
    /\ inbox' = [inbox EXCEPT ![c] = Tail(@)]
    /\ current' = [current EXCEPT ![c] = Head(inbox[c])]
    /\ tries' = [tries EXCEPT ![c] = 0]
    /\ Goto(c, IF Head(inbox[c]) \in Malformed THEN "nack" ELSE "try")
    /\ UNCHANGED <<queue, open, frames, stopping, history, bounds>>

\* Mutant of Return: main exits without Close, the last frames unsent.
ReturnUnflushed(c) ==
    /\ pc[c] = "select"
    /\ stopping[c] \/ ~open[c]
    /\ Goto(c, "down")
    /\ open' = [open EXCEPT ![c] = FALSE]
    /\ inbox' = [inbox EXCEPT ![c] = << >>]
    /\ frames' = [frames EXCEPT ![c] = << >>]
    /\ ready' = ready \union held[c]
    /\ held' = [held EXCEPT ![c] = {}]
    /\ UNCHANGED <<sent, lost, acked, dead, current, tries, stopping, history,
                   bounds>>

\* Start returns, its context cancelled or its channel closed, and main ends.
\* Close is a call the broker answers, so it has read every frame before it.
Return(c) ==
    /\ pc[c] = "select"
    /\ stopping[c] \/ ~open[c]
    /\ frames[c] = << >>
    /\ Goto(c, "down")
    /\ open' = [open EXCEPT ![c] = FALSE]
    /\ inbox' = [inbox EXCEPT ![c] = << >>]
    /\ ready' = ready \union held[c]
    /\ held' = [held EXCEPT ![c] = {}]
    /\ UNCHANGED <<sent, lost, acked, dead, frames, current, tries, stopping,
                   history, bounds>>

\* processWithRetry: the handler returns nil.
Succeed(c) ==
    /\ pc[c] = "try"
    /\ tries' = [tries EXCEPT ![c] = @ + 1]
    /\ handled' = [handled EXCEPT ![current[c]] = @ + 1]
    /\ Goto(c, "ack")
    /\ UNCHANGED <<queue, channel, current, stopping, cutOff, bounds>>

\* Mutant of Fail: one try too many.
FailLate(c) ==
    /\ pc[c] = "try"
    /\ tries' = [tries EXCEPT ![c] = @ + 1]
    /\ Goto(c, IF tries[c] > MaxRetries THEN "nack" ELSE "wait")
    /\ UNCHANGED <<queue, channel, current, stopping, history, bounds>>

\* Mutant of Fail: one try too few.
FailEarly(c) ==
    /\ pc[c] = "try"
    /\ tries' = [tries EXCEPT ![c] = @ + 1]
    /\ Goto(c, IF tries[c] + 1 = MaxRetries THEN "nack" ELSE "wait")
    /\ UNCHANGED <<queue, channel, current, stopping, history, bounds>>

\* processWithRetry: the handler returns an error, as it may whenever it runs:
\* ProcessPayment always does for a payment that it has already processed.
Fail(c) ==
    /\ pc[c] = "try"
    /\ tries' = [tries EXCEPT ![c] = @ + 1]
    /\ Goto(c, IF tries[c] = MaxRetries THEN "nack" ELSE "wait")
    /\ UNCHANGED <<queue, channel, current, stopping, history, bounds>>

\* processWithRetry: the delay passes.
Wake(c) ==
    /\ pc[c] = "wait"
    /\ Goto(c, "try")
    /\ UNCHANGED <<queue, channel, current, tries, stopping, history, bounds>>

\* processWithRetry: the context is cancelled, and the error is returned.
GiveUp(c) ==
    /\ pc[c] = "wait"
    /\ stopping[c]
    /\ Goto(c, "nack")
    /\ UNCHANGED <<queue, channel, current, tries, stopping, history, bounds>>

\* Mutant of Answer: it counts on a connection that is gone.
AnswerAnyway(c, verdict) ==
    /\ frames' = [frames EXCEPT ![c] = Append(@, <<verdict, current[c]>>)]
    /\ current' = [current EXCEPT ![c] = 0]
    /\ Goto(c, "select")
    /\ UNCHANGED <<queue, open, inbox, tries, stopping, history, bounds>>

\* The frame is written, or cannot be; the error is ignored either way, and c
\* returns to its select.
Answer(c, verdict) ==
    /\ frames' = IF open[c]
                 THEN [frames EXCEPT ![c] = Append(@, <<verdict, current[c]>>)]
                 ELSE frames
    /\ current' = [current EXCEPT ![c] = 0]
    /\ Goto(c, "select")
    /\ UNCHANGED <<queue, open, inbox, tries, stopping, history, bounds>>

Ack(c) == pc[c] = "ack" /\ Answer(c, "ack")

Nack(c) == pc[c] = "nack" /\ Answer(c, "nack")

-----------------------------------------------------------------------------

\* SIGTERM.
Stop(c) ==
    /\ pc[c] # "down"
    /\ ~stopping[c]
    /\ stops < MaxStops
    /\ stops' = stops + 1
    /\ stopping' = [stopping EXCEPT ![c] = TRUE]
    /\ UNCHANGED <<queue, channel, loop, history, cuts>>

\* The connection is lost; a handler that is running goes on.
Disconnect(c) ==
    /\ open[c]
    /\ Break(c)
    /\ UNCHANGED <<inbox, loop, stopping, handled>>

\* The process dies.
Crash(c) ==
    /\ pc[c] # "down"
    /\ Break(c)
    /\ Goto(c, "down")
    /\ inbox' = [inbox EXCEPT ![c] = << >>]
    /\ current' = [current EXCEPT ![c] = 0]
    /\ UNCHANGED <<tries, stopping, handled>>

\* The steps the loop takes by itself.
Step(c) ==
    \/ Take(c)
    \/ Return(c)
    \/ Succeed(c)
    \/ Fail(c)
    \/ Wake(c)
    \/ GiveUp(c)
    \/ Ack(c)
    \/ Nack(c)

Next ==
    \/ Receive
    \/ \E messages \in lost : Requeue(messages)
    \/ \E c \in Consumers : Deliver(c)
    \/ \E c \in Consumers : Settle(c)
    \/ \E c \in Consumers : Start(c)
    \/ \E c \in Consumers : Step(c)
    \/ \E c \in Consumers : Stop(c)
    \/ \E c \in Consumers : Disconnect(c)
    \/ \E c \in Consumers : Crash(c)

Spec == Init /\ [][Next]_vars

\* Handlers return; the broker delivers, reads what it is sent and notices, by
\* its heartbeats, which connections are gone; and docker restarts a process
\* that ended (restart: unless-stopped).
Fairness ==
    /\ WF_vars(\E messages \in lost : Requeue(messages))
    /\ \A c \in Consumers :
         /\ WF_vars(Start(c)) /\ WF_vars(Step(c))
         /\ WF_vars(Deliver(c)) /\ WF_vars(Settle(c))

FairSpec == Spec /\ Fairness

-----------------------------------------------------------------------------
(***************************************************************************)
(* Properties.                                                             *)
(***************************************************************************)

Settled == acked \union dead

\* Whatever is cut off and restarted, each message is in one place: waiting,
\* held by one connection, broken or not, acknowledged or dead-lettered.  An
\* Ack on a closed channel must not count (autoAck = false).
InOnePlace ==
    /\ \A m \in 1 .. sent :
         m \in ready \union Settled \union UNION lost
           \/ \E c \in Consumers : m \in held[c]
    /\ ready \intersect Settled = {} /\ acked \intersect dead = {}
    /\ \A h \in lost :
         /\ h \intersect (ready \union Settled) = {}
         /\ \A g \in lost \ {h} : g \intersect h = {}
    /\ \A c \in Consumers :
         /\ held[c] \intersect (ready \union Settled \union UNION lost) = {}
         /\ \A d \in Consumers \ {c} : held[c] \intersect held[d] = {}

\* A message is handled again only for a crash or a lost connection between
\* its handler and the broker's reading of its Ack: a graceful stop never
\* repeats one.
RepeatsNeedCuts == \A m \in Messages : handled[m] <= 1 + cuts

\* With one consumer, the handler succeeds on a message behind a later one only
\* if a connection broke that held it: retries, dead-lettering and restarts
\* keep the order.  A broken connection need not: an Ack or Nack is lost after
\* later messages were handled, and the broker notices late.
HandledInOrder ==
    [][\A m, n \in Messages :
         m < n /\ handled[n] > 0 /\ m \notin cutOff =>
             handled'[m] = handled[m]]_vars

Refused(c) == {f[2] : f \in {g \in ToSet(frames[c]) : g[1] = "nack"}}

\* A message is refused for one of three reasons: it is malformed, the handler
\* has been run MaxRetries + 1 times on this delivery, or its consumer was
\* told to stop while it had tries left (README, Dead Letter Queue, and
\* processWithRetry).  What is dead-lettered was refused; one that was handled
\* is so only for a crash or a lost connection before its Ack was read, after
\* which the handler may refuse it.
DeadAfterRetries ==
    [][/\ \A c \in Consumers : \A m \in Refused(c)' \ Refused(c) :
            /\ current[c] = m
            /\ m \in Malformed \/ tries[c] = MaxRetries + 1 \/ stopping[c]
       /\ \A m \in dead' \ dead :
            /\ \E c \in Consumers : m \in Refused(c)
            /\ cuts = 0 => handled[m] = 0]_vars

\* Every message is acknowledged or dead-lettered in the end: none is retried
\* for ever and none is forgotten by a restart.
EveryMessageSettles ==
    \A m \in Messages : m <= sent ~> m \in Settled
=============================================================================
