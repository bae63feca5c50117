----------------------------- MODULE EventChannel -----------------------------
(***************************************************************************)
(* What the services behind a queue may rely on: only events committed     *)
(* with their payment arrive, any of them several times, and the events of *)
(* one payment in the order of their stamps, but for one that was          *)
(* committed behind an event with a later stamp.  Nothing is promised      *)
(* about the events of different payments.  OutboxRelay implements it with *)
(* one relay, and EventServices is built on it.                            *)
(***************************************************************************)
EXTENDS Integers, Sequences

CONSTANTS
    Payments,    \* the aggregates events belong to
    Events       \* events, numbered by created_at

VARIABLES
    owner,       \* the payment of each event
    committed,   \* events in the table
    late,        \* events committed behind a later event of their payment
    arrived      \* messages the queue has received, in order

vars == <<owner, committed, late, arrived>>

Init ==
    /\ owner \in [Events -> Payments]
    /\ committed = {}
    /\ late = {}
    /\ arrived = << >>

\* The transaction of a payment commits the event.
Commit(e) ==
    /\ e \notin committed
    /\ committed' = committed \union {e}
    /\ late' = IF \E f \in committed : f > e /\ owner[f] = owner[e]
               THEN late \union {e} ELSE late
    /\ UNCHANGED <<owner, arrived>>

\* e follows no later event of its payment, unless it is late.
InOrder(e) ==
    e \in late \/ \A i \in 1 .. Len(arrived) :
                      owner[arrived[i]] = owner[e] => arrived[i] <= e

\* The queue receives the event, for the first time or again.
Arrive(e) ==
    /\ e \in committed
    /\ InOrder(e)
    /\ arrived' = Append(arrived, e)
    /\ UNCHANGED <<owner, committed, late>>

Next == \E e \in Events : Commit(e) \/ Arrive(e)

Spec == Init /\ [][Next]_vars
=============================================================================
