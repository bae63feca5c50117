-------------------------- MODULE OutboxRelayProofs --------------------------
(***************************************************************************)
(* Proofs about the relay, for any number of payments and events, any      *)
(* batch size, and with crashes and failed UPDATEs anywhere:               *)
(*   - it loses nothing until the broker goes down, with any number of     *)
(*     relays, at the queue that the publisher declares (what is routed    *)
(*     before another queue is bound is dropped);                          *)
(*   - with one relay it keeps the order of each payment's events, and     *)
(*     implements EventChannel, whichever process declares the queue and   *)
(*     through outages;                                                    *)
(*   - with one relay an event arrives twice only for a fault.             *)
(***************************************************************************)
EXTENDS OutboxRelay, TLAPS, FiniteSetTheorems, WellFoundedInduction

-----------------------------------------------------------------------------
(***************************************************************************)
(* The batch.                                                              *)
(***************************************************************************)

\* A set of numbers that is not empty has a least element.
LEMMA Least ==
    ASSUME NEW S \in SUBSET Nat, S # {}
    PROVE  \E e \in S : \A f \in S : e <= f
<1>1. \E e \in S : \A f \in S : ~ (<<f, e>> \in OpToRel(<, Nat))
  BY NatLessThanWellFounded, WFMin
<1>2. PICK e \in S : \A f \in S : ~ (<<f, e>> \in OpToRel(<, Nat))
  BY <1>1
<1>3. \A f \in S : e <= f
  <2> TAKE f \in S
  <2>1. <<f, e>> \in Nat \X Nat /\ ~ (f < e)
    BY <1>2 DEF OpToRel
  <2> QED
    BY <2>1
<1> QED
  BY <1>3

\* FetchUnpublished reads events, and at least one when there is one.
LEMMA OldestFound ==
    ASSUME NEW events \in SUBSET Events, events # {}
    PROVE  /\ Oldest(events, BatchSize) \in SUBSET Events
           /\ Oldest(events, BatchSize) # {}
<1>1. events \in SUBSET Nat
  BY BoundsAssumption DEF Events
<1>2. PICK e \in events : \A f \in events : e <= f
  BY <1>1, Least
<1>3. {f \in events : f < e} = {}
  <2>1. \A f \in events : ~ (f < e)
    BY <1>1, <1>2
  <2> QED
    BY <2>1
<1>4. Cardinality({f \in events : f < e}) < BatchSize
  BY <1>3, FS_EmptySet, BoundsAssumption
<1> QED
  BY <1>4 DEF Oldest

\* The event a relay is at is one of its batch.
LEMMA CurrentInBatch ==
    ASSUME NEW r \in Relays, batch[r] \in SUBSET Events, batch[r] # {}
    PROVE  Current(r) \in batch[r]
<1>1. batch[r] \in SUBSET Nat
  BY BoundsAssumption DEF Events
<1>2. \E e \in batch[r] : \A f \in batch[r] : e <= f
  BY <1>1, Least
<1> QED
  BY <1>2 DEF Current

-----------------------------------------------------------------------------
(***************************************************************************)
(* Nothing is lost: the invariant.                                         *)
(***************************************************************************)

\* A relay between Fetch and the end of its batch has an event to handle.
BatchReady ==
    \A r \in Relays : pc[r] \in {"publish", "mark"} => batch[r] # {}

TypeInv == TypeOK /\ BatchReady

\* Whoever has written to the wire has declared the queue first.
QueueReady ==
    /\ up
    /\ \A r \in Relays : pc[r] # "down" \/ wire[r] # << >> => bound

\* An event is on its way before it is marked.
WrittenBeforeMarked == \A r \in Relays : pc[r] = "mark" => Safe(Current(r))

MarkedAreSafe == \A e \in published : Safe(e)

\* What holds until the broker goes down.
Kept == QueueReady /\ WrittenBeforeMarked /\ MarkedAreSafe

RelayInv == TypeInv /\ (outages = 0 => Kept)

LEMMA TypeInvNext == TypeInv /\ [Next]_vars => TypeInv'
<1> SUFFICES ASSUME TypeInv, [Next]_vars
             PROVE  TypeInv'
  OBVIOUS
<1> USE BoundsAssumption
    DEF TypeInv, TypeOK, BatchReady, table, process, broker, Abandon
<1>1. ASSUME NEW e \in Events, Add(e)
      PROVE  TypeInv'
  BY <1>1 DEF Add
<1>2. ASSUME NEW r \in Relays, Start(r)
      PROVE  TypeInv'
  BY <1>2, DeclaresAssumption DEF Start
<1>3. ASSUME NEW r \in Relays, Fetch(r)
      PROVE  TypeInv'
  <2>1. committed \ published \in SUBSET Events /\ committed \ published # {}
    BY <1>3 DEF Fetch
  <2>2. /\ Oldest(committed \ published, BatchSize) \in SUBSET Events
        /\ Oldest(committed \ published, BatchSize) # {}
    BY <2>1, OldestFound
  <2> QED
    BY <1>3, <2>2 DEF Fetch
<1>4. ASSUME NEW r \in Relays, Publish(r)
      PROVE  TypeInv'
  <2>1. Current(r) \in Events
    BY <1>4, CurrentInBatch DEF Publish
  <2>2. wire' \in [Relays -> Seq(Events)]
    BY <1>4, <2>1 DEF Publish
  <2> QED
    BY <1>4, <2>2 DEF Publish
<1>5. ASSUME NEW r \in Relays, PublishFails(r) \/ MarkFails(r)
      PROVE  TypeInv'
  <2>1. CASE PublishFails(r)
    BY <2>1 DEF PublishFails
  <2>2. CASE MarkFails(r)
    BY <2>2 DEF MarkFails
  <2> QED
    BY <1>5, <2>1, <2>2
<1>6. ASSUME NEW r \in Relays, Mark(r)
      PROVE  TypeInv'
  <2>1. Current(r) \in batch[r] /\ Current(r) \in Events
    BY <1>6, CurrentInBatch DEF Mark
  <2>2. published' \in SUBSET Events /\ batch' \in [Relays -> SUBSET Events]
    BY <1>6, <2>1 DEF Mark
  <2>3. BatchReady'
    BY <1>6, <2>1 DEF Mark
  <2> QED
    BY <1>6, <2>2, <2>3 DEF Mark
<1>7. ASSUME NEW r \in Relays, Crash(r)
      PROVE  TypeInv'
  BY <1>7 DEF Crash
<1>8. ASSUME NEW r \in Relays, Route(r)
      PROVE  TypeInv'
  <2>1. /\ wire[r] \in Seq(Events) /\ wire[r] # << >>
        /\ wire' = [wire EXCEPT ![r] = Tail(wire[r])]
        /\ arrived' = IF bound THEN Append(arrived, Head(wire[r]))
                               ELSE arrived
    BY <1>8 DEF Route
  <2>2. Head(wire[r]) \in Events /\ Tail(wire[r]) \in Seq(Events)
    BY <2>1
  <2>3. wire' \in [Relays -> Seq(Events)] /\ arrived' \in Seq(Events)
    BY <2>1, <2>2
  <2> QED
    BY <1>8, <2>3 DEF Route
<1>9. CASE Declare \/ BrokerDown \/ BrokerUp
  <2>1. CASE Declare
    BY <2>1 DEF Declare
  <2>2. CASE BrokerDown
    <3>1. /\ open' \in [Relays -> BOOLEAN]
          /\ wire' \in [Relays -> Seq(Events)]
      BY <2>2 DEF BrokerDown
    <3>2. outages' \in 0 .. MaxOutages
      BY <2>2 DEF BrokerDown
    <3> QED
      BY <2>2, <3>1, <3>2 DEF BrokerDown
  <2>3. CASE BrokerUp
    BY <2>3 DEF BrokerUp
  <2> QED
    BY <1>9, <2>1, <2>2, <2>3
<1>10. CASE UNCHANGED vars
  BY <1>10 DEF vars
<1> QED
  BY <1>1, <1>2, <1>3, <1>4, <1>5, <1>6, <1>7, <1>8, <1>9, <1>10
  DEF Next, Dispatch

\* A step that only adds to wires and to the queue loses nothing.
LEMMA SafeKept ==
    ASSUME NEW e,
           Safe(e),
           Occurs(e, arrived) => Occurs(e, arrived'),
           \A r \in Relays : Occurs(e, wire[r]) =>
               Occurs(e, wire'[r]) \/ Occurs(e, arrived')
    PROVE  Safe(e)'
BY DEF Safe

\* Appending keeps what was there and adds the element.
LEMMA OccursAppend ==
    ASSUME NEW S, NEW s \in Seq(S), NEW x \in S
    PROVE  /\ Occurs(x, Append(s, x))
           /\ \A e : Occurs(e, s) => Occurs(e, Append(s, x))
<1>1. Append(s, x)[Len(s) + 1] = x /\ Len(Append(s, x)) = Len(s) + 1
  OBVIOUS
<1>2. \A i \in 1 .. Len(s) : Append(s, x)[i] = s[i]
  OBVIOUS
<1> QED
  BY <1>1, <1>2 DEF Occurs

\* What occurs in a sequence is its head or occurs in its tail.
LEMMA OccursTail ==
    ASSUME NEW S, NEW s \in Seq(S), s # << >>, NEW e, Occurs(e, s)
    PROVE  e = Head(s) \/ Occurs(e, Tail(s))
<1>1. PICK i \in 1 .. Len(s) : s[i] = e
  BY DEF Occurs
<1>2. CASE i = 1
  BY <1>1, <1>2
<1>3. CASE i # 1
  <2>1. i - 1 \in 1 .. Len(Tail(s)) /\ Tail(s)[i - 1] = s[i]
    BY <1>3
  <2> QED
    BY <1>1, <2>1 DEF Occurs
<1> QED
  BY <1>2, <1>3

\* A step that adds nothing to the table's marks and loses nothing keeps
\* MarkedAreSafe.
LEMMA MarkedAreSafeKept ==
    ASSUME MarkedAreSafe, \A e \in published : Safe(e) => Safe(e)',
           \A e \in published' : e \in published \/ Safe(e)'
    PROVE  MarkedAreSafe'
BY DEF MarkedAreSafe, Safe

\* A step after which the broker has not gone down yet keeps what holds so far.
LEMMA KeptNext ==
    ASSUME PublisherDeclares, TypeInv, Kept, [Next]_vars, outages' = 0
    PROVE  Kept'
<1>1. TypeInv'
  BY TypeInvNext
<1> USE DEF Kept, QueueReady, WrittenBeforeMarked, table, process, broker
<1>2. ASSUME UNCHANGED <<wire, arrived>>
      PROVE  \A e : Safe(e)' = Safe(e)
  BY <1>2 DEF Safe
<1>3. ASSUME NEW e \in Events, Add(e)
      PROVE  Kept'
  <2>1. UNCHANGED <<wire, arrived, published, pc, batch, up, bound>>
    BY <1>3 DEF Add
  <2> QED
    BY <1>1, <2>1 DEF MarkedAreSafe, Safe, Current
<1>4. ASSUME NEW r \in Relays, Start(r)
      PROVE  Kept'
  <2>1. /\ UNCHANGED <<wire, arrived, published, batch, up>> /\ bound'
        /\ \A q \in Relays : pc'[q] = "mark" => pc[q] = "mark"
    BY <1>4 DEF Start, TypeInv, TypeOK
  <2> QED
    BY <1>1, <2>1 DEF MarkedAreSafe, Safe, Current
<1>5. ASSUME NEW r \in Relays, Fetch(r)
      PROVE  Kept'
  <2>1. /\ UNCHANGED <<wire, arrived, published, up, bound>>
        /\ pc[r] = "idle" /\ pc'[r] = "publish"
        /\ \A q \in Relays \ {r} : pc'[q] = pc[q] /\ batch'[q] = batch[q]
    BY <1>5 DEF Fetch, TypeInv, TypeOK
  <2>2. QueueReady'
    BY <2>1
  <2>3. WrittenBeforeMarked'
    BY <2>1 DEF Safe, Current
  <2> QED
    BY <1>1, <2>1, <2>2, <2>3 DEF MarkedAreSafe, Safe
<1>6. ASSUME NEW r \in Relays, Publish(r)
      PROVE  Kept'
  <2>1. /\ UNCHANGED <<arrived, published, batch, up, bound>>
        /\ wire' = [wire EXCEPT ![r] = Append(wire[r], Current(r))]
        /\ pc[r] = "publish" /\ pc' = [pc EXCEPT ![r] = "mark"]
    BY <1>6 DEF Publish
  <2>2. wire[r] \in Seq(Events) /\ Current(r) \in Events
    BY <2>1, CurrentInBatch DEF TypeInv, TypeOK, BatchReady
  <2>3. /\ Occurs(Current(r), wire'[r])
        /\ \A e : Occurs(e, wire[r]) => Occurs(e, wire'[r])
    BY <2>1, <2>2, OccursAppend DEF TypeInv, TypeOK
  <2>4. \A q \in Relays \ {r} : wire'[q] = wire[q] /\ pc'[q] = pc[q]
    BY <2>1 DEF TypeInv, TypeOK
  <2>5. \A e : Safe(e) => Safe(e)'
    <3> SUFFICES ASSUME NEW e, Safe(e)
                 PROVE  Safe(e)'
      OBVIOUS
    <3> QED
      BY <2>1, <2>3, <2>4 DEF Safe
  <2>6. Safe(Current(r))'
    BY <2>1, <2>3 DEF Safe, Current
  <2>7. QueueReady'
    BY <2>1, <2>4
  <2>8. WrittenBeforeMarked'
    BY <2>1, <2>4, <2>5, <2>6 DEF Current
  <2> QED
    BY <1>1, <2>1, <2>5, <2>7, <2>8, MarkedAreSafeKept
<1>7. ASSUME NEW r \in Relays, PublishFails(r) \/ MarkFails(r) \/ Crash(r)
      PROVE  Kept'
  <2>1. /\ UNCHANGED <<wire, arrived, published, up, bound>>
        /\ pc[r] # "down" /\ pc'[r] # "mark"
        /\ \A q \in Relays \ {r} : pc'[q] = pc[q] /\ batch'[q] = batch[q]
    BY <1>7 DEF PublishFails, MarkFails, Crash, Abandon, TypeInv, TypeOK
  <2>2. QueueReady'
    BY <2>1
  <2>3. WrittenBeforeMarked'
    BY <2>1 DEF Safe, Current
  <2> QED
    BY <1>1, <2>1, <2>2, <2>3 DEF MarkedAreSafe, Safe
<1>8. ASSUME NEW r \in Relays, Mark(r)
      PROVE  Kept'
  <2>1. /\ UNCHANGED <<wire, arrived, up, bound>>
        /\ published' = published \union {Current(r)}
        /\ pc[r] = "mark" /\ pc'[r] \in {"idle", "publish"}
        /\ \A q \in Relays \ {r} : pc'[q] = pc[q] /\ batch'[q] = batch[q]
    BY <1>8 DEF Mark, TypeInv, TypeOK
  <2>2. Safe(Current(r))
    BY <2>1
  <2>3. QueueReady'
    BY <2>1
  <2>4. WrittenBeforeMarked'
    BY <2>1 DEF Safe, Current
  <2>5. MarkedAreSafe'
    BY <2>1, <2>2 DEF MarkedAreSafe, Safe
  <2> QED
    BY <1>1, <2>3, <2>4, <2>5
<1>9. ASSUME NEW r \in Relays, Route(r)
      PROVE  Kept'
  <2>1. /\ UNCHANGED <<published, pc, batch, up, bound>> /\ bound
        /\ wire[r] \in Seq(Events) /\ wire[r] # << >>
        /\ wire'[r] = Tail(wire[r])
        /\ \A q \in Relays \ {r} : wire'[q] = wire[q]
        /\ arrived \in Seq(Events) /\ Head(wire[r]) \in Events
        /\ arrived' = Append(arrived, Head(wire[r]))
    BY <1>9 DEF Route, TypeInv, TypeOK
  <2>2. \A e : Safe(e) => Safe(e)'
    <3> SUFFICES ASSUME NEW e, Safe(e)
                 PROVE  Safe(e)'
      OBVIOUS
    <3>1. Occurs(e, arrived) \/ e = Head(wire[r]) => Occurs(e, arrived')
      BY <2>1, OccursAppend
    <3>2. Occurs(e, wire[r]) => e = Head(wire[r]) \/ Occurs(e, wire'[r])
      BY <2>1, OccursTail
    <3> QED
      BY <2>1, <3>1, <3>2 DEF Safe
  <2>3. QueueReady'
    BY <2>1
  <2>4. WrittenBeforeMarked'
    BY <2>1, <2>2 DEF Current
  <2> QED
    BY <1>1, <2>1, <2>2, <2>3, <2>4, MarkedAreSafeKept
<1>10. CASE Declare
  <2>1. UNCHANGED <<wire, arrived, published, pc, batch, up>> /\ bound'
    BY <1>10 DEF Declare
  <2> QED
    BY <1>1, <2>1 DEF MarkedAreSafe, Safe, Current
<1>11. ~ BrokerDown /\ ~ BrokerUp
  <2>1. outages \in Nat
    BY BoundsAssumption DEF TypeInv, TypeOK
  <2> QED
    BY <2>1 DEF BrokerDown, BrokerUp
<1>12. CASE UNCHANGED vars
  <2>1. UNCHANGED <<wire, arrived, published, pc, batch, up, bound>>
    BY <1>12 DEF vars
  <2> QED
    BY <1>1, <2>1 DEF MarkedAreSafe, Safe, Current
<1> QED
  BY <1>3, <1>4, <1>5, <1>6, <1>7, <1>8, <1>9, <1>10, <1>11, <1>12
  DEF Next, Dispatch

\* Nothing takes an outage back.
LEMMA OutagesGrow ==
    ASSUME TypeInv, [Next]_vars, outages' = 0
    PROVE  outages = 0
<1>1. outages \in Nat
  BY BoundsAssumption DEF TypeInv, TypeOK
<1>2. outages' = outages \/ outages' = outages + 1
  BY DEF Next, Dispatch, Add, Start, Fetch, Publish, PublishFails, Mark,
         MarkFails, Crash, Route, Declare, BrokerDown, BrokerUp, vars
<1> QED
  BY <1>1, <1>2

LEMMA RelayInvNext ==
    ASSUME PublisherDeclares
    PROVE  RelayInv /\ [Next]_vars => RelayInv'
<1> SUFFICES ASSUME RelayInv, [Next]_vars
             PROVE  RelayInv'
  OBVIOUS
<1>1. TypeInv'
  BY TypeInvNext DEF RelayInv
<1>2. outages' = 0 => Kept'
  BY KeptNext, OutagesGrow DEF RelayInv
<1> QED
  BY <1>1, <1>2 DEF RelayInv

-----------------------------------------------------------------------------

LEMMA TypeInvInit == Init => TypeInv
<1> SUFFICES ASSUME Init
             PROVE  TypeInv
  OBVIOUS
<1>1. faults \in 0 .. MaxFaults /\ outages \in 0 .. MaxOutages
  BY BoundsAssumption DEF Init
<1>2. /\ wire \in [Relays -> Seq(Events)] /\ arrived \in Seq(Events)
      /\ batch \in [Relays -> SUBSET Events]
      /\ pc \in [Relays -> {"down", "idle", "publish", "mark"}]
      /\ open \in [Relays -> BOOLEAN]
  BY DEF Init
<1> QED
  BY <1>1, <1>2 DEF Init, TypeInv, TypeOK, BatchReady

LEMMA RelayInvInit == Init => RelayInv
<1> SUFFICES ASSUME Init
             PROVE  RelayInv
  OBVIOUS
<1>1. Kept
  BY DEF Init, Kept, QueueReady, WrittenBeforeMarked, MarkedAreSafe
<1> QED
  BY <1>1, TypeInvInit DEF RelayInv

\* Every reachable state is well typed, whatever the queue.
THEOREM Typing == Spec => []TypeOK
<1>1. Init => TypeInv
  BY TypeInvInit
<1>2. TypeInv => TypeOK
  BY DEF TypeInv
<1> QED
  BY <1>1, <1>2, TypeInvNext, PTL DEF Spec

\* Until the broker goes down, an event marked as published has reached the
\* queue of the publisher or is on its way to it: with any number of relays,
\* crashing anywhere (Relay.dispatch, PaymentPublisher.Publish).
THEOREM RelayLosesNothing ==
    ASSUME PublisherDeclares
    PROVE  Spec => []NothingLost
<1>1. RelayInv /\ [Next]_vars => RelayInv'
  BY RelayInvNext
<1>2. RelayInv => NothingLost
  BY DEF RelayInv, Kept, MarkedAreSafe, NothingLost
<1> QED
  BY <1>1, <1>2, RelayInvInit, PTL DEF Spec

-----------------------------------------------------------------------------
(***************************************************************************)
(* The batch of one relay.                                                 *)
(***************************************************************************)

\* What FetchUnpublished reads has no gap below it.
LEMMA OldestClosed ==
    ASSUME NEW events \in SUBSET Events,
           NEW f \in Oldest(events, BatchSize), NEW e \in events, e < f
    PROVE  e \in Oldest(events, BatchSize)
<1>1. events \in SUBSET Int /\ f \in events
  BY BoundsAssumption DEF Events, Oldest
<1>2. IsFiniteSet({g \in events : g < f})
  <2>1. IsFiniteSet(Events)
    BY FS_Interval, BoundsAssumption DEF Events
  <2>2. {g \in events : g < f} \subseteq Events
    OBVIOUS
  <2> QED
    BY <2>1, <2>2, FS_Subset
<1>3. {g \in events : g < e} \subseteq {g \in events : g < f}
  <2>1. e \in Int /\ f \in Int /\ \A g \in events : g \in Int
    BY <1>1
  <2>2. \A g \in events : g < e => g < f
    BY <2>1
  <2> QED
    BY <2>2
<1>4. /\ IsFiniteSet({g \in events : g < e})
      /\ Cardinality({g \in events : g < e})
           <= Cardinality({g \in events : g < f})
  BY <1>2, <1>3, FS_Subset
<1>5. /\ Cardinality({g \in events : g < e}) \in Nat
      /\ Cardinality({g \in events : g < f}) \in Nat
      /\ Cardinality({g \in events : g < f}) < BatchSize
  BY <1>2, <1>4, FS_CardinalityType DEF Oldest
<1> QED
  BY <1>4, <1>5, BoundsAssumption DEF Oldest

\* The event a relay is at is the oldest of its batch.
LEMMA CurrentIsFirst ==
    ASSUME NEW r \in Relays, batch[r] \in SUBSET Events, batch[r] # {}
    PROVE  Current(r) \in batch[r] /\ \A f \in batch[r] : Current(r) <= f
<1>1. batch[r] \in SUBSET Nat
  BY BoundsAssumption DEF Events
<1>2. \E e \in batch[r] : \A f \in batch[r] : e <= f
  BY <1>1, Least
<1> QED
  BY <1>2 DEF Current

-----------------------------------------------------------------------------
(***************************************************************************)
(* Order is kept: the invariant.                                           *)
(***************************************************************************)

\* Only what was committed is fetched, written and received.
OnlyCommitted ==
    /\ \A r \in Relays : batch[r] \subseteq committed \ published
    /\ \A r \in Relays : \A i \in 1 .. Len(wire[r]) : wire[r][i] \in committed
    /\ \A i \in 1 .. Len(arrived) : arrived[i] \in committed

\* An event the relay has still to publish, and that is not late.
Waiting == (committed \ published) \ late

\* A relay at f has nothing older of the payment left behind.
NothingSkipped ==
    \A r \in Relays : \A f \in batch[r], e \in Waiting :
        owner[e] = owner[f] /\ e < f => e \in batch[r]

\* Nothing has overtaken an event that waits.
NothingOvertaken ==
    \A e \in Waiting :
        /\ \A r \in Relays : \A i \in 1 .. Len(wire[r]) :
             owner[wire[r][i]] = owner[e] => wire[r][i] <= e
        /\ \A i \in 1 .. Len(arrived) :
             owner[arrived[i]] = owner[e] => arrived[i] <= e

\* g may follow f.
MayFollow(f, g) == owner[f] = owner[g] => f <= g \/ g \in late

\* What was written is in order, and behind what arrived.
WireOrdered ==
    \A r \in Relays : \A j \in 1 .. Len(wire[r]) :
        /\ \A i \in 1 .. j - 1 : MayFollow(wire[r][i], wire[r][j])
        /\ \A i \in 1 .. Len(arrived) : MayFollow(arrived[i], wire[r][j])

OrderInv ==
    /\ TypeInv
    /\ OnlyCommitted
    /\ NothingSkipped
    /\ NothingOvertaken
    /\ WireOrdered
    /\ PaymentOrderKept

LEMMA OrderInvInit == Init => OrderInv
<1> SUFFICES ASSUME Init
             PROVE  OrderInv
  OBVIOUS
<1>1. /\ arrived = << >> /\ committed = {}
      /\ \A r \in Relays : wire[r] = << >> /\ batch[r] = {}
  BY DEF Init
<1>2. OnlyCommitted /\ NothingSkipped /\ NothingOvertaken /\ WireOrdered
  BY <1>1 DEF OnlyCommitted, NothingSkipped, NothingOvertaken, WireOrdered,
              Waiting
<1>3. PaymentOrderKept
  BY <1>1 DEF PaymentOrderKept
<1> QED
  BY <1>2, <1>3, TypeInvInit DEF OrderInv

\* A step that publishes, routes and commits nothing, and fetches nothing.
LEMMA NothingMoves ==
    ASSUME OrderInv, TypeInv', UNCHANGED <<owner, committed, late, arrived>>,
           published \subseteq published',
           \A r \in Relays : wire'[r] = wire[r] \/ wire'[r] = << >>,
           \A r \in Relays : batch'[r] = {}
                               \/ batch'[r] =
                                    batch[r] \ (published' \ published)
    PROVE  OrderInv'
<1> USE DEF OrderInv
<1>1. OnlyCommitted'
  BY DEF OnlyCommitted
<1>2. NothingSkipped'
  BY DEF NothingSkipped, Waiting
<1>3. NothingOvertaken'
  BY DEF NothingOvertaken, Waiting
<1>4. WireOrdered'
  BY DEF WireOrdered, MayFollow
<1>5. PaymentOrderKept'
  BY DEF PaymentOrderKept
<1> QED
  BY <1>1, <1>2, <1>3, <1>4, <1>5

LEMMA AddKeepsOrder ==
    ASSUME OrderInv, TypeInv', NEW e \in Events, Add(e)
    PROVE  OrderInv'
<1>1. /\ UNCHANGED <<owner, published, batch, wire, arrived>>
      /\ committed' = committed \union {e}
      /\ late \subseteq late'
      /\ \A f \in committed : f > e /\ owner[f] = owner[e] => e \in late'
  BY DEF Add, process, broker
<1>2. Waiting' \subseteq Waiting \union {e}
  BY <1>1 DEF Waiting
<1>3. \A r \in Relays :
        /\ batch[r] \subseteq committed /\ batch[r] \subseteq Int
        /\ \A i \in 1 .. Len(wire[r]) : wire[r][i] \in committed
  BY BoundsAssumption
  DEF OrderInv, OnlyCommitted, TypeInv, TypeOK, Events
<1>4. \A i \in 1 .. Len(arrived) : arrived[i] \in committed
  BY DEF OrderInv, OnlyCommitted
<1>5. committed \subseteq Int /\ e \in Int
  BY BoundsAssumption DEF OrderInv, TypeInv, TypeOK, Events
<1>6. e \in Waiting' => \A f \in committed : owner[f] = owner[e] => f <= e
  BY <1>1, <1>5 DEF Waiting
<1>7. OnlyCommitted'
  <2>1. e \notin committed
    BY DEF Add
  <2> QED
    BY <1>1 DEF OrderInv, OnlyCommitted
<1>8. NothingSkipped'
  BY <1>1, <1>2, <1>3, <1>5, <1>6 DEF OrderInv, NothingSkipped
<1>9. NothingOvertaken'
  BY <1>1, <1>2, <1>3, <1>4, <1>6 DEF OrderInv, NothingOvertaken
<1>10. WireOrdered' /\ PaymentOrderKept'
  BY <1>1 DEF OrderInv, WireOrdered, PaymentOrderKept, MayFollow
<1> QED
  BY <1>7, <1>8, <1>9, <1>10 DEF OrderInv

LEMMA FetchKeepsOrder ==
    ASSUME OrderInv, TypeInv', NEW r \in Relays, Fetch(r)
    PROVE  OrderInv'
<1> DEFINE oldest == Oldest(committed \ published, BatchSize)
<1>1. /\ UNCHANGED <<owner, committed, late, published, wire, arrived>>
      /\ batch' = [batch EXCEPT ![r] = oldest]
  BY DEF Fetch, table, broker
<1>2. committed \ published \in SUBSET Events
  BY DEF OrderInv, TypeInv, TypeOK
<1>3. oldest \subseteq committed \ published
  BY DEF Oldest
<1>4. \A f \in oldest, e \in committed \ published : e < f => e \in oldest
  BY <1>2, OldestClosed
<1> HIDE DEF oldest
<1>5. \A q \in Relays : batch'[q] = IF q = r THEN oldest ELSE batch[q]
  BY <1>1 DEF OrderInv, TypeInv, TypeOK
<1>6. OnlyCommitted'
  BY <1>1, <1>3, <1>5 DEF OrderInv, OnlyCommitted
<1>7. NothingSkipped'
  BY <1>1, <1>4, <1>5 DEF OrderInv, NothingSkipped, Waiting
<1>8. NothingOvertaken' /\ WireOrdered' /\ PaymentOrderKept'
  BY <1>1 DEF OrderInv, NothingOvertaken, WireOrdered, PaymentOrderKept,
              Waiting, MayFollow
<1> QED
  BY <1>6, <1>7, <1>8 DEF OrderInv

\* Publishing the oldest event of the batch overtakes nothing.
LEMMA PublishKeepsOrder ==
    ASSUME OrderInv, TypeInv', NEW r \in Relays, Relays = {r}, Publish(r)
    PROVE  OrderInv'
<1> DEFINE e == Current(r)
<1>1. /\ UNCHANGED <<owner, committed, late, published, batch, arrived>>
      /\ wire'[r] = Append(wire[r], e)
      /\ wire[r] \in Seq(Events) /\ batch[r] \subseteq Int
  BY BoundsAssumption
  DEF Publish, table, broker, OrderInv, TypeInv, TypeOK, Events
<1>2. e \in batch[r] /\ \A f \in batch[r] : e <= f
  BY CurrentIsFirst DEF Publish, OrderInv, TypeInv, TypeOK, BatchReady
<1>3. e \in committed /\ e \notin published
  BY <1>2 DEF OrderInv, OnlyCommitted
<1> HIDE DEF e
<1>4. /\ Len(wire'[r]) = Len(wire[r]) + 1
      /\ \A i \in 1 .. Len(wire[r]) : wire'[r][i] = wire[r][i]
      /\ wire'[r][Len(wire[r]) + 1] = e
      /\ Len(wire[r]) \in Nat
  BY <1>1, <1>3 DEF OrderInv, TypeInv, TypeOK
<1>5. OnlyCommitted'
  <2>1. UNCHANGED <<committed, published, batch, arrived>>
    BY <1>1
  <2>2. \A i \in 1 .. Len(wire'[r]) :
          i = Len(wire[r]) + 1 \/ i \in 1 .. Len(wire[r])
    BY <1>4
  <2>3. \A i \in 1 .. Len(wire'[r]) : wire'[r][i] \in committed
    BY <1>3, <1>4, <2>2 DEF OrderInv, OnlyCommitted
  <2> QED
    BY <2>1, <2>3 DEF OrderInv, OnlyCommitted
<1>6. NothingSkipped'
  BY <1>1 DEF OrderInv, NothingSkipped, Waiting
<1>7. \A f \in Waiting : owner[f] = owner[e] => e <= f
  <2> SUFFICES ASSUME NEW f \in Waiting, owner[f] = owner[e], ~(e <= f)
               PROVE  FALSE
    OBVIOUS
  <2>1. f \in Int /\ e \in Int
    BY <1>3, BoundsAssumption DEF Waiting, OrderInv, TypeInv, TypeOK, Events
  <2>2. f \in batch[r]
    BY <1>2, <2>1 DEF OrderInv, NothingSkipped
  <2> QED
    BY <1>2, <2>2
<1>8. NothingOvertaken'
  <2>1. Waiting' = Waiting
    BY <1>1 DEF Waiting
  <2> QED
    BY <1>1, <1>4, <1>7, <2>1 DEF OrderInv, NothingOvertaken
<1>9. WireOrdered'
  <2>1. e \in late \/ e \in Waiting
    BY <1>3 DEF Waiting
  <2>2. \A i \in 1 .. Len(wire[r]) : MayFollow(wire[r][i], e)
    BY <2>1 DEF OrderInv, NothingOvertaken, MayFollow
  <2>3. \A i \in 1 .. Len(arrived) : MayFollow(arrived[i], e)
    BY <2>1 DEF OrderInv, NothingOvertaken, MayFollow
  <2>4. \A f, g : MayFollow(f, g)' = MayFollow(f, g)
    BY <1>1 DEF MayFollow
  <2>5. ASSUME NEW j \in 1 .. Len(wire'[r])
        PROVE  /\ \A i \in 1 .. j - 1 : MayFollow(wire'[r][i], wire'[r][j])
               /\ \A i \in 1 .. Len(arrived) :
                    MayFollow(arrived[i], wire'[r][j])
    <3>1. CASE j = Len(wire[r]) + 1
      BY <1>4, <2>2, <2>3, <3>1
    <3>2. CASE j # Len(wire[r]) + 1
      <4>1. /\ j \in 1 .. Len(wire[r])
            /\ \A i \in 1 .. j - 1 : i \in 1 .. Len(wire[r])
        BY <1>4, <3>2
      <4> QED
        BY <1>4, <4>1 DEF OrderInv, WireOrdered
    <3> QED
      BY <3>1, <3>2
  <2> QED
    BY <1>1, <2>4, <2>5 DEF WireOrdered
<1>10. PaymentOrderKept'
  BY <1>1 DEF OrderInv, PaymentOrderKept
<1> QED
  BY <1>5, <1>6, <1>8, <1>9, <1>10 DEF OrderInv

\* The head of the wire goes to the end of the queue, or nowhere.
LEMMA RouteKeepsOrder ==
    ASSUME OrderInv, TypeInv', NEW r \in Relays, Relays = {r}, Route(r)
    PROVE  OrderInv'
<1> DEFINE w == wire[r]
           h == Head(wire[r])
<1>1. /\ UNCHANGED <<owner, committed, late, published, batch>>
      /\ w \in Seq(Events) /\ w # << >> /\ wire'[r] = Tail(w)
      /\ arrived \in Seq(Events)
      /\ arrived' = arrived \/ arrived' = Append(arrived, h)
  BY DEF Route, table, process, OrderInv, TypeInv, TypeOK
<1>2. /\ h = w[1] /\ 1 \in 1 .. Len(w) /\ h \in Events
      /\ Len(Tail(w)) = Len(w) - 1 /\ Len(w) \in Nat
      /\ \A i \in 1 .. Len(w) - 1 :
           i + 1 \in 1 .. Len(w) /\ Tail(w)[i] = w[i + 1]
  BY <1>1
<1>3. \A i \in 1 .. Len(arrived') :
        \/ /\ i = Len(arrived) + 1 /\ arrived'[i] = h
           /\ Len(arrived') = Len(arrived) + 1
        \/ i \in 1 .. Len(arrived) /\ arrived'[i] = arrived[i]
  BY <1>1, <1>2
<1>4. Waiting' = Waiting /\ \A f, g : MayFollow(f, g)' = MayFollow(f, g)
  BY <1>1 DEF Waiting, MayFollow
<1> HIDE DEF w, h
<1>5. /\ \A i \in 1 .. Len(w) : w[i] \in committed
      /\ \A i \in 1 .. Len(arrived) : arrived[i] \in committed
      /\ \A e \in Waiting : \A i \in 1 .. Len(w) :
           owner[w[i]] = owner[e] => w[i] <= e
      /\ \A j \in 1 .. Len(w) : \A i \in 1 .. j - 1 : MayFollow(w[i], w[j])
      /\ \A j \in 1 .. Len(w) : \A i \in 1 .. Len(arrived) :
           MayFollow(arrived[i], w[j])
  BY DEF w, OrderInv, OnlyCommitted, NothingOvertaken, WireOrdered
<1>6. OnlyCommitted'
  <2>1. UNCHANGED <<committed, published, batch>>
    BY <1>1
  <2>2. \A i \in 1 .. Len(wire'[r]) : wire'[r][i] \in committed
    BY <1>1, <1>2, <1>5
  <2>3. \A i \in 1 .. Len(arrived') : arrived'[i] \in committed
    BY <1>2, <1>3, <1>5
  <2> QED
    BY <2>1, <2>2, <2>3 DEF OrderInv, OnlyCommitted
<1>7. NothingSkipped'
  <2>1. UNCHANGED <<owner, batch>>
    BY <1>1
  <2> QED
    BY <1>4, <2>1 DEF OrderInv, NothingSkipped
<1>8. NothingOvertaken'
  <2>1. owner' = owner
    BY <1>1
  <2>2. \A e \in Waiting : \A i \in 1 .. Len(wire'[r]) :
          owner[wire'[r][i]] = owner[e] => wire'[r][i] <= e
    BY <1>1, <1>2, <1>5
  <2>3. \A e \in Waiting : \A i \in 1 .. Len(arrived) :
          owner[arrived[i]] = owner[e] => arrived[i] <= e
    BY DEF OrderInv, NothingOvertaken
  <2>4. \A e \in Waiting : \A i \in 1 .. Len(arrived') :
          owner[arrived'[i]] = owner[e] => arrived'[i] <= e
    BY <1>2, <1>3, <1>5, <2>3
  <2> QED
    BY <1>4, <2>1, <2>2, <2>4 DEF NothingOvertaken
<1>9. WireOrdered'
  <2>1. ASSUME NEW j \in 1 .. Len(w) - 1
        PROVE  /\ \A i \in 1 .. j - 1 : MayFollow(Tail(w)[i], Tail(w)[j])
               /\ \A i \in 1 .. Len(arrived') :
                    MayFollow(arrived'[i], Tail(w)[j])
    <3>1. Tail(w)[j] = w[j + 1] /\ j + 1 \in 1 .. Len(w) /\ j \in Nat
      BY <1>2
    <3>2. \A i \in 1 .. j - 1 :
            i + 1 \in 1 .. (j + 1) - 1 /\ Tail(w)[i] = w[i + 1]
      <4>1. j <= Len(w) - 1 /\ Len(w) \in Nat
        BY <1>2
      <4>2. \A i \in 1 .. j - 1 : i \in 1 .. Len(w) - 1
        BY <3>1, <4>1
      <4>3. \A i \in 1 .. j - 1 : i + 1 \in 1 .. (j + 1) - 1
        BY <3>1
      <4> QED
        BY <1>2, <4>2, <4>3
    <3>3. MayFollow(h, w[j + 1])
      <4>1. 1 \in 1 .. (j + 1) - 1
        BY <3>1
      <4> QED
        BY <1>2, <1>5, <3>1, <4>1
    <3> QED
      BY <1>3, <1>5, <3>1, <3>2, <3>3
  <2> QED
    BY <1>1, <1>2, <1>4, <2>1 DEF WireOrdered
<1>10. PaymentOrderKept'
  <2>1. \A i \in 1 .. Len(arrived) : MayFollow(arrived[i], h)
    BY <1>2, <1>5
  <2>2. \A i, j \in 1 .. Len(arrived) :
          i < j => MayFollow(arrived[i], arrived[j])
    BY DEF OrderInv, PaymentOrderKept, MayFollow
  <2>3. Len(arrived) \in Nat
    BY <1>1
  <2>4. \A i, j \in 1 .. Len(arrived') :
          i < j => MayFollow(arrived'[i], arrived'[j])
    BY <1>3, <2>1, <2>2, <2>3
  <2> QED
    BY <1>1, <2>4 DEF PaymentOrderKept, MayFollow
<1> QED
  BY <1>6, <1>7, <1>8, <1>9, <1>10 DEF OrderInv

LEMMA OrderInvNext ==
    ASSUME NEW r \in Relays, Relays = {r}
    PROVE  OrderInv /\ [Next]_vars => OrderInv'
<1> SUFFICES ASSUME OrderInv, [Next]_vars
             PROVE  OrderInv'
  OBVIOUS
<1>1. TypeInv'
  BY TypeInvNext DEF OrderInv
<1>2. ASSUME NEW e \in Events, Add(e)
      PROVE  OrderInv'
  BY <1>1, <1>2, AddKeepsOrder
<1>3. CASE Fetch(r)
  BY <1>1, <1>3, FetchKeepsOrder
<1>4. CASE Publish(r)
  BY <1>1, <1>4, PublishKeepsOrder
<1>5. CASE Route(r)
  BY <1>1, <1>5, RouteKeepsOrder
<1>6. CASE Mark(r)
  <2>1. Current(r) \in batch[r]
    BY <1>6, CurrentInBatch DEF Mark, OrderInv, TypeInv, TypeOK, BatchReady
  <2>2. Current(r) \notin published
    BY <2>1 DEF OrderInv, OnlyCommitted
  <2>3. /\ UNCHANGED <<owner, committed, late, arrived, wire>>
        /\ published' = published \union {Current(r)}
        /\ batch'[r] = batch[r] \ (published' \ published)
    BY <1>6, <2>2 DEF Mark, broker, OrderInv, TypeInv, TypeOK
  <2> QED
    BY <1>1, <2>3, NothingMoves
<1>7. CASE Start(r) \/ PublishFails(r) \/ MarkFails(r) \/ Crash(r)
  <2>1. /\ UNCHANGED <<owner, committed, late, arrived, published, wire>>
        /\ batch'[r] = batch[r] \/ batch'[r] = {}
    BY <1>7 DEF Start, PublishFails, MarkFails, Crash, Abandon, table, broker,
                OrderInv, TypeInv, TypeOK
  <2> QED
    BY <1>1, <2>1, NothingMoves
<1>8. CASE Declare \/ BrokerDown \/ BrokerUp \/ UNCHANGED vars
  <2>1. /\ UNCHANGED <<owner, committed, late, arrived, published, batch>>
        /\ wire' = wire \/ wire' = [q \in Relays |-> << >>]
    BY <1>8 DEF Declare, BrokerDown, BrokerUp, vars, table, process, broker
  <2> QED
    BY <1>1, <2>1, NothingMoves
<1> QED
  BY <1>2, <1>3, <1>4, <1>5, <1>6, <1>7, <1>8 DEF Next, Dispatch

-----------------------------------------------------------------------------

\* With one relay the events of a payment reach a queue in the order of their
\* stamps, repeated at most in place, but for an event that was committed
\* behind a later one (Relay.dispatch, OutboxRepository.FetchUnpublished).
THEOREM OneRelayKeepsOrder ==
    ASSUME NEW r \in Relays, Relays = {r}
    PROVE  Spec => []PaymentOrderKept
<1>1. OrderInv /\ [Next]_vars => OrderInv'
  BY OrderInvNext
<1>2. OrderInv => PaymentOrderKept
  BY DEF OrderInv
<1> QED
  BY <1>1, <1>2, OrderInvInit, PTL DEF Spec

\* A step of the relay, the broker or the table is a step of the channel.
LEMMA ChannelStep ==
    ASSUME NEW r \in Relays, Relays = {r}, OrderInv, [Next]_vars
    PROVE  [Channel!Next]_(Channel!vars)
<1> USE DEF Channel!vars
<1>1. ASSUME NEW e \in Events, Add(e)
      PROVE  Channel!Commit(e)
  BY <1>1 DEF Add, Channel!Commit, broker
<1>2. CASE Route(r)
  <2>1. /\ UNCHANGED <<owner, committed, late>>
        /\ arrived' = arrived \/ arrived' = Append(arrived, Head(wire[r]))
        /\ wire[r] \in Seq(Events) /\ wire[r] # << >>
    BY <1>2 DEF Route, table, OrderInv, TypeInv, TypeOK
  <2>2. Head(wire[r]) = wire[r][1] /\ 1 \in 1 .. Len(wire[r])
        /\ Head(wire[r]) \in Events
    BY <2>1
  <2>3. Head(wire[r]) \in committed
    BY <2>2 DEF OrderInv, OnlyCommitted
  <2>4. Channel!InOrder(Head(wire[r]))
    BY <2>2 DEF OrderInv, WireOrdered, MayFollow, Channel!InOrder
  <2>5. arrived' = arrived \/ Channel!Arrive(Head(wire[r]))
    BY <2>1, <2>3, <2>4 DEF Channel!Arrive
  <2> QED
    BY <2>1, <2>2, <2>5 DEF Channel!Next
<1>3. CASE ~(\E e \in Events : Add(e)) /\ ~Route(r)
  <2>1. UNCHANGED <<owner, committed, late, arrived>>
    BY <1>3 DEF Next, Dispatch, Start, Fetch, Publish, PublishFails, Mark,
       MarkFails, Crash, Declare, BrokerDown, BrokerUp, vars, table, broker
  <2> QED
    BY <2>1
<1> QED
  BY <1>1, <1>2, <1>3 DEF Channel!Next

\* One relay, its table and its broker implement the channel the services
\* behind a queue rely on.
THEOREM OneRelayIsAChannel ==
    ASSUME NEW r \in Relays, Relays = {r}
    PROVE  Spec => ImplementsChannel
<1>1. Init => Channel!Init
  BY DEF Init, Channel!Init
<1>2. OrderInv /\ [Next]_vars => OrderInv'
  BY OrderInvNext
<1>3. OrderInv /\ [Next]_vars => [Channel!Next]_(Channel!vars)
  BY ChannelStep
<1> QED
  BY <1>1, <1>2, <1>3, OrderInvInit, PTL
  DEF Spec, ImplementsChannel, Channel!Spec

-----------------------------------------------------------------------------
(***************************************************************************)
(* Counting what arrives.                                                  *)
(***************************************************************************)

\* Where e is in s, and how often.
Places(e, s) == {i \in 1 .. Len(s) : s[i] = e}
Count(e, s) == Cardinality(Places(e, s))

LEMMA CountType ==
    ASSUME NEW S, NEW s \in Seq(S), NEW e
    PROVE  IsFiniteSet(Places(e, s)) /\ Count(e, s) \in Nat
<1>1. IsFiniteSet(1 .. Len(s)) /\ Places(e, s) \subseteq 1 .. Len(s)
  BY FS_Interval DEF Places
<1> QED
  BY <1>1, FS_Subset, FS_CardinalityType DEF Count

LEMMA CountEmpty == \A e : Count(e, << >>) = 0
<1>1. \A e : Places(e, << >>) = {}
  BY DEF Places
<1> QED
  BY <1>1, FS_EmptySet DEF Count

LEMMA CountAppend ==
    ASSUME NEW S, NEW s \in Seq(S), NEW x \in S, NEW e
    PROVE  Count(e, Append(s, x)) = Count(e, s) + IF e = x THEN 1 ELSE 0
<1> DEFINE n == Len(s) + 1
<1>1. /\ Len(s) \in Nat /\ Len(Append(s, x)) = n /\ Append(s, x)[n] = x
      /\ \A i \in 1 .. Len(s) : Append(s, x)[i] = s[i]
  OBVIOUS
<1>2. n \notin Places(e, s)
  BY <1>1 DEF Places
<1>3. 1 .. n = (1 .. Len(s)) \union {n} /\ n \notin 1 .. Len(s)
  BY <1>1
<1> HIDE DEF n
<1>4. CASE e = x
  <2>1. Places(e, Append(s, x)) = Places(e, s) \union {n}
    BY <1>1, <1>3, <1>4 DEF Places
  <2> QED
    BY <1>2, <1>4, <2>1, CountType, FS_AddElement DEF Count
<1>5. CASE e # x
  <2>1. Places(e, Append(s, x)) = Places(e, s)
    BY <1>1, <1>3, <1>5 DEF Places
  <2> QED
    BY <1>5, <2>1, CountType DEF Count
<1> QED
  BY <1>4, <1>5

\* What is taken from the head is counted no more.
LEMMA CountTail ==
    ASSUME NEW S, NEW s \in Seq(S), s # << >>, NEW e
    PROVE  Count(e, Tail(s)) + (IF e = Head(s) THEN 1 ELSE 0) <= Count(e, s)
<1>1. /\ Len(s) \in Nat /\ 1 \in 1 .. Len(s) /\ Head(s) = s[1]
      /\ Tail(s) \in Seq(S) /\ Len(Tail(s)) = Len(s) - 1
      /\ \A i \in 1 .. Len(s) - 1 :
           i + 1 \in 2 .. Len(s) /\ Tail(s)[i] = s[i + 1]
  OBVIOUS
<1> DEFINE later == Places(e, s) \ {1}
<1>2. IsFiniteSet(Places(e, s)) /\ Count(e, s) \in Nat
  BY CountType
<1>3. /\ IsFiniteSet(later)
      /\ Cardinality(later) =
           IF e = Head(s) THEN Count(e, s) - 1 ELSE Count(e, s)
  BY <1>1, <1>2, FS_RemoveElement DEF Count, Places
<1>4. [i \in Places(e, Tail(s)) |-> i + 1]
        \in Injection(Places(e, Tail(s)), later)
  <2>1. \A i \in Places(e, Tail(s)) : i \in Nat /\ i + 1 \in later
    BY <1>1 DEF Places
  <2> QED
    BY <2>1 DEF Injection, IsInjective
<1>5. Count(e, Tail(s)) <= Cardinality(later)
  BY <1>3, <1>4, FS_Injection DEF Count
<1>6. Count(e, Tail(s)) \in Nat
  BY <1>1, CountType
<1> QED
  BY <1>2, <1>3, <1>5, <1>6

-----------------------------------------------------------------------------
(***************************************************************************)
(* An event arrives twice only for a fault.                                *)
(***************************************************************************)

\* The relay r may still write e: it is not marked, and not just written.
Unwritten(r, e) == e \notin published /\ ~(pc[r] = "mark" /\ Current(r) = e)

\* What has been written of e, and may still be, is paid for by the faults.
Paid(r, e) ==
    Count(e, arrived) + Count(e, wire[r])
      + (IF Unwritten(r, e) THEN 1 ELSE 0) <= 1 + faults

RepeatInv(r) == OrderInv /\ \A e \in Events : Paid(r, e)

\* The numbers Paid compares.
LEMMA PaidTypes ==
    ASSUME TypeInv, NEW r \in Relays
    PROVE  /\ faults \in Nat
           /\ wire[r] \in Seq(Events) /\ arrived \in Seq(Events)
           /\ \A e : Count(e, arrived) \in Nat /\ Count(e, wire[r]) \in Nat
<1>1. /\ faults \in Nat /\ wire[r] \in Seq(Events) /\ arrived \in Seq(Events)
  BY BoundsAssumption DEF TypeInv, TypeOK
<1> QED
  BY <1>1, CountType

LEMMA RepeatInvInit ==
    ASSUME NEW r \in Relays
    PROVE  Init => RepeatInv(r)
<1> SUFFICES ASSUME Init
             PROVE  RepeatInv(r)
  OBVIOUS
<1>1. arrived = << >> /\ wire[r] = << >> /\ faults = 0
  BY DEF Init
<1>2. \A e \in Events : Paid(r, e)
  BY <1>1, CountEmpty DEF Paid
<1> QED
  BY <1>2, OrderInvInit DEF RepeatInv

\* A step that writes and routes nothing, and after which what may be written
\* could be written before or is paid for by a fault.
LEMMA NothingWritten ==
    ASSUME NEW r \in Relays, RepeatInv(r), TypeInv', OrderInv',
           arrived' = arrived, wire'[r] = wire[r] \/ wire'[r] = << >>,
           \/ faults' = faults + 1
           \/ faults' = faults /\ \A e \in Events :
                                    Unwritten(r, e)' => Unwritten(r, e)
    PROVE  RepeatInv(r)'
<1> SUFFICES ASSUME NEW e \in Events
             PROVE  Paid(r, e)'
  BY DEF RepeatInv
<1>1. /\ faults \in Nat /\ Count(e, arrived) \in Nat
      /\ Count(e, wire[r]) \in Nat /\ Paid(r, e)
  BY PaidTypes DEF RepeatInv, OrderInv
<1>2. Count(e, wire'[r]) \in Nat /\ Count(e, wire'[r]) <= Count(e, wire[r])
  BY <1>1, CountEmpty
<1> QED
  BY <1>1, <1>2 DEF Paid

LEMMA PublishPays ==
    ASSUME NEW r \in Relays, RepeatInv(r), OrderInv', Publish(r)
    PROVE  RepeatInv(r)'
<1> SUFFICES ASSUME NEW e \in Events
             PROVE  Paid(r, e)'
  BY DEF RepeatInv
<1>1. /\ UNCHANGED <<arrived, published, batch, faults>>
      /\ wire'[r] = Append(wire[r], Current(r))
      /\ pc[r] = "publish" /\ pc'[r] = "mark"
  BY DEF Publish, table, broker, RepeatInv, OrderInv, TypeInv, TypeOK
<1>2. Current(r) \in batch[r] /\ Current(r) \in Events
  BY <1>1, CurrentInBatch DEF RepeatInv, OrderInv, TypeInv, TypeOK, BatchReady
<1>3. Current(r) \notin published /\ Current(r)' = Current(r)
  BY <1>1, <1>2 DEF RepeatInv, OrderInv, OnlyCommitted, Current
<1>4. /\ faults \in Nat /\ Count(e, arrived) \in Nat
      /\ Count(e, wire[r]) \in Nat /\ Paid(r, e) /\ wire[r] \in Seq(Events)
  BY PaidTypes DEF RepeatInv, OrderInv
<1>5. Count(e, wire'[r]) =
        Count(e, wire[r]) + IF e = Current(r) THEN 1 ELSE 0
  BY <1>1, <1>2, <1>4, CountAppend
<1>6. Unwritten(r, e)' => Unwritten(r, e) /\ e # Current(r)
  BY <1>1, <1>3 DEF Unwritten
<1>7. e = Current(r) => Unwritten(r, e)
  BY <1>1, <1>3 DEF Unwritten
<1> QED
  BY <1>1, <1>4, <1>5, <1>6, <1>7 DEF Paid

LEMMA RoutePays ==
    ASSUME NEW r \in Relays, RepeatInv(r), OrderInv', Route(r)
    PROVE  RepeatInv(r)'
<1> SUFFICES ASSUME NEW e \in Events
             PROVE  Paid(r, e)'
  BY DEF RepeatInv
<1>1. /\ UNCHANGED <<published, pc, batch, faults>>
      /\ wire[r] # << >> /\ wire'[r] = Tail(wire[r])
      /\ arrived' = arrived \/ arrived' = Append(arrived, Head(wire[r]))
  BY DEF Route, table, process, RepeatInv, OrderInv, TypeInv, TypeOK
<1>2. /\ faults \in Nat /\ Count(e, arrived) \in Nat
      /\ Count(e, wire[r]) \in Nat /\ Paid(r, e)
      /\ wire[r] \in Seq(Events) /\ arrived \in Seq(Events)
  BY PaidTypes DEF RepeatInv, OrderInv
<1>3. /\ Head(wire[r]) \in Events
      /\ wire'[r] \in Seq(Events)
  BY <1>1, <1>2
<1>4. /\ Count(e, wire'[r]) \in Nat
      /\ Count(e, wire'[r]) + (IF e = Head(wire[r]) THEN 1 ELSE 0)
           <= Count(e, wire[r])
  BY <1>1, <1>2, <1>3, CountTail, CountType
<1>5. \/ Count(e, arrived') = Count(e, arrived)
      \/ Count(e, arrived') =
           Count(e, arrived) + IF e = Head(wire[r]) THEN 1 ELSE 0
  <2>1. Count(e, Append(arrived, Head(wire[r]))) =
          Count(e, arrived) + IF e = Head(wire[r]) THEN 1 ELSE 0
    BY <1>2, <1>3, CountAppend
  <2> QED
    BY <1>1, <2>1
<1>6. Unwritten(r, e)' = Unwritten(r, e)
  BY <1>1 DEF Unwritten, Current
<1> QED
  BY <1>1, <1>2, <1>4, <1>5, <1>6 DEF Paid

LEMMA RepeatInvNext ==
    ASSUME NEW r \in Relays, Relays = {r}
    PROVE  RepeatInv(r) /\ [Next]_vars => RepeatInv(r)'
<1> SUFFICES ASSUME RepeatInv(r), [Next]_vars
             PROVE  RepeatInv(r)'
  OBVIOUS
<1>1. OrderInv' /\ TypeInv'
  BY OrderInvNext DEF RepeatInv, OrderInv
<1>2. TypeInv
  BY DEF RepeatInv, OrderInv
<1>3. CASE Publish(r)
  BY <1>1, <1>3, PublishPays
<1>4. CASE Route(r)
  BY <1>1, <1>4, RoutePays
<1>5. CASE Mark(r)
  <2>1. /\ UNCHANGED <<arrived, wire, faults>> /\ pc[r] = "mark"
        /\ published' = published \union {Current(r)}
    BY <1>5 DEF Mark, broker
  <2>2. \A e \in Events : Unwritten(r, e)' => Unwritten(r, e)
    BY <2>1 DEF Unwritten
  <2> QED
    BY <1>1, <2>1, <2>2, NothingWritten
<1>6. CASE MarkFails(r) \/ Crash(r)
  <2>1. UNCHANGED <<arrived, wire>> /\ faults' = faults + 1
    BY <1>6 DEF MarkFails, Crash, broker
  <2> QED
    BY <1>1, <2>1, NothingWritten
<1>7. CASE Fetch(r) \/ Start(r) \/ PublishFails(r)
  <2>1. UNCHANGED <<arrived, wire, published, faults>> /\ pc[r] # "mark"
    BY <1>7 DEF Fetch, Start, PublishFails, table, broker
  <2>2. \A e \in Events : Unwritten(r, e)' => Unwritten(r, e)
    BY <2>1 DEF Unwritten
  <2> QED
    BY <1>1, <2>1, <2>2, NothingWritten
<1>8. CASE \/ \E e \in Events : Add(e)
           \/ Declare \/ BrokerDown \/ BrokerUp \/ UNCHANGED vars
  <2>1. /\ UNCHANGED <<arrived, published, pc, batch, faults>>
        /\ wire' = wire \/ wire' = [q \in Relays |-> << >>]
    BY <1>8 DEF Add, Declare, BrokerDown, BrokerUp, vars, table, process,
                broker
  <2>2. \A e \in Events : Unwritten(r, e)' => Unwritten(r, e)
    BY <2>1 DEF Unwritten, Current
  <2> QED
    BY <1>1, <2>1, <2>2, NothingWritten
<1> QED
  BY <1>3, <1>4, <1>5, <1>6, <1>7, <1>8 DEF Next, Dispatch

\* With one relay the queue gets an event once, and once more at most for each
\* crash and each failed UPDATE: a broker that goes down, a batch that is
\* fetched again and a closed channel repeat nothing (Relay.dispatch).
THEOREM OneRelayRepeatsForFaults ==
    ASSUME NEW r \in Relays, Relays = {r}
    PROVE  Spec => []RepeatsNeedFaults
<1>1. Init => RepeatInv(r)
  BY RepeatInvInit
<1>2. RepeatInv(r) /\ [Next]_vars => RepeatInv(r)'
  BY RepeatInvNext
<1>3. RepeatInv(r) => RepeatsNeedFaults
  <2> SUFFICES ASSUME RepeatInv(r), NEW e \in Events
               PROVE  Count(e, arrived) <= 1 + faults
    BY DEF RepeatsNeedFaults, Count, Places
  <2>1. /\ faults \in Nat /\ Count(e, arrived) \in Nat
        /\ Count(e, wire[r]) \in Nat
    BY PaidTypes DEF RepeatInv, OrderInv
  <2>2. Paid(r, e)
    BY DEF RepeatInv
  <2> QED
    BY <2>1, <2>2 DEF Paid
<1> QED
  BY <1>1, <1>2, <1>3, PTL DEF Spec
=============================================================================
