---------------------------- MODULE EventServices ----------------------------
(***************************************************************************)
(* The Audit Service and the Notification Service (cmd/audit,              *)
(* cmd/notification): what Subscriber's handler does for each of them,     *)
(* between a queue that EventChannel feeds and a table of their own.       *)
(*                                                                         *)
(* The two processes share nothing, so a behaviour is about one of them.   *)
(* A message carries the id of its event (MessageId), its type (routing    *)
(* key) and its payment (payload).                                         *)
(***************************************************************************)
EXTENDS Subscriber

CONSTANTS
    Payments,   \* the aggregates events belong to
    Events,     \* events, numbered by created_at
    KindOf      \* the type of each event

ASSUME KindAssumption ==
    /\ Events \subseteq Nat \ {0}
    /\ KindOf \in [Events -> {"created", "authorized", "completed",
                              "failed", "refunded"}]

VARIABLES
    owner, committed, late, arrived,   \* the variables of EventChannel
    service,   \* the service that consumes the queue
    draft,     \* draft[c]: the status of the notification c has not saved yet
    trail,     \* trail[e]: the message audit_logs has e from, 0 for none
    rows,      \* rows[p, k]: status in notifications, "absent" for no row
    told,      \* told[m]: notifications the customer got for message m
    unsaved    \* notifications sent whose Save returned an error

source == <<owner, committed, late, arrived>>
tables == <<trail, rows>>
servicesVars == <<vars, source, service, draft, tables, told, unsaved>>

Channel == INSTANCE EventChannel

\* The routing keys the queue is bound to.
Bound(e) ==
    service = "audit" \/ KindOf[e] \in {"completed", "failed", "refunded"}

\* The key of a notification: the channel is a parameter of the process.
RowOf(m) == <<owner[arrived[m]], KindOf[arrived[m]]>>

RowKeys == Payments \X {KindOf[e] : e \in Events}

ServicesTypeOK ==
    /\ TypeOK
    /\ owner \in [Events -> Payments]
    /\ committed \in SUBSET Events
    /\ late \in SUBSET committed
    /\ arrived \in Seq(Events) /\ Len(arrived) = sent
    /\ service \in {"audit", "notification"}
    /\ draft \in [Consumers -> {"none", "sent", "failed"}]
    /\ \A c \in Consumers :
         draft[c] # "none" => service = "notification" /\ pc[c] = "try"
    /\ trail \in [Events -> 0 .. sent]
    /\ rows \in [RowKeys -> {"absent", "sent", "failed"}]
    /\ told \in [Messages -> Nat]
    /\ unsaved \in Nat

ServicesInit ==
    /\ Init
    /\ Channel!Init
    /\ service \in {"audit", "notification"}
    /\ draft = [c \in Consumers |-> "none"]
    /\ trail = [e \in Events |-> 0]
    /\ rows = [k \in RowKeys |-> "absent"]
    /\ told = [m \in Messages |-> 0]
    /\ unsaved = 0

-----------------------------------------------------------------------------
(***************************************************************************)
(* The channel.                                                            *)
(***************************************************************************)

Commit(e) ==
    /\ Channel!Commit(e)
    /\ UNCHANGED <<vars, service, draft, tables, told, unsaved>>

Arrive(e) ==
    /\ Bound(e)
    /\ Channel!Arrive(e)
    /\ Receive
    /\ UNCHANGED <<service, draft, tables, told, unsaved>>

-----------------------------------------------------------------------------
(***************************************************************************)
(* The Audit Service: RecordAudit.Execute.                                 *)
(***************************************************************************)

\* Append: ON CONFLICT (id) DO NOTHING, the id that of the event.
Insert(m) ==
    trail' = [trail EXCEPT ![arrived[m]] = IF @ = 0 THEN m ELSE @]

\* Mutant of Record: an error of Append is logged and forgotten.
RecordSwallowing(c) ==
    /\ service = "audit"
    /\ Succeed(c)
    /\ Insert(current[c]) \/ UNCHANGED trail
    /\ UNCHANGED <<source, service, draft, rows, told, unsaved>>

Record(c) ==
    /\ service = "audit"
    /\ Succeed(c)
    /\ Insert(current[c])
    /\ UNCHANGED <<source, service, draft, rows, told, unsaved>>

\* Append returns an error; its INSERT may have been executed.
RecordFails(c) ==
    /\ service = "audit"
    /\ Fail(c)
    /\ Insert(current[c]) \/ UNCHANGED trail
    /\ UNCHANGED <<source, service, draft, rows, told, unsaved>>

-----------------------------------------------------------------------------
(***************************************************************************)
(* The Notification Service: NotifyPayment.Execute.                        *)
(***************************************************************************)

\* Send, and MarkSent or MarkFailed.  LogNotifier never fails; a provider
\* behind the same port may.
Notify(c) ==
    /\ service = "notification"
    /\ pc[c] = "try" /\ draft[c] = "none"
    /\ \/ /\ draft' = [draft EXCEPT ![c] = "sent"]
          /\ told' = [told EXCEPT ![current[c]] = @ + 1]
       \/ /\ draft' = [draft EXCEPT ![c] = "failed"]
          /\ UNCHANGED told
    /\ UNCHANGED <<vars, source, service, tables, unsaved>>

\* NotificationRepository.Save: an upsert of the status.
Save(c) == rows' = [rows EXCEPT ![RowOf(current[c])] = draft[c]]

\* Mutant of Notified: Execute returns an error although it sent and saved.
NotifiedRetrying(c) ==
    /\ service = "notification"
    /\ draft[c] # "none"
    /\ Save(c)
    /\ Fail(c)
    /\ draft' = [draft EXCEPT ![c] = "none"]
    /\ UNCHANGED <<source, service, trail, told, unsaved>>

\* Mutant of Notified: the notification outlives its Execute.
NotifiedKeeping(c) ==
    /\ service = "notification"
    /\ draft[c] # "none"
    /\ Save(c)
    /\ IF draft[c] = "sent" THEN Succeed(c) ELSE Fail(c)
    /\ UNCHANGED <<source, service, draft, trail, told, unsaved>>

\* Save succeeds, and Execute returns the error of Send.
Notified(c) ==
    /\ service = "notification"
    /\ draft[c] # "none"
    /\ Save(c)
    /\ IF draft[c] = "sent" THEN Succeed(c) ELSE Fail(c)
    /\ draft' = [draft EXCEPT ![c] = "none"]
    /\ UNCHANGED <<source, service, trail, told, unsaved>>

\* Save returns an error; its INSERT may have been executed.
SaveFails(c) ==
    /\ service = "notification"
    /\ draft[c] # "none"
    /\ Save(c) \/ UNCHANGED rows
    /\ Fail(c)
    /\ unsaved' = unsaved + (IF draft[c] = "sent" THEN 1 ELSE 0)
    /\ draft' = [draft EXCEPT ![c] = "none"]
    /\ UNCHANGED <<source, service, trail, told>>

-----------------------------------------------------------------------------

\* The steps of Subscriber outside the handler.
Loop(c) ==
    /\ Deliver(c) \/ Settle(c) \/ Start(c) \/ Take(c) \/ Return(c) \/ Wake(c)
         \/ GiveUp(c) \/ Ack(c) \/ Nack(c) \/ Stop(c) \/ Disconnect(c)
    /\ UNCHANGED <<source, service, draft, tables, told, unsaved>>

Notice ==
    /\ \E messages \in lost : Requeue(messages)
    /\ UNCHANGED <<source, service, draft, tables, told, unsaved>>

Die(c) ==
    /\ Crash(c)
    /\ draft' = [draft EXCEPT ![c] = "none"]
    /\ UNCHANGED <<source, service, tables, told, unsaved>>

Handle(c) ==
    \/ Record(c)
    \/ RecordFails(c)
    \/ Notify(c)
    \/ Notified(c)
    \/ SaveFails(c)

ServicesNext ==
    \/ \E e \in Events : Commit(e) \/ Arrive(e)
    \/ Notice
    \/ \E c \in Consumers : Loop(c) \/ Die(c) \/ Handle(c)

ServicesSpec == ServicesInit /\ [][ServicesNext]_servicesVars

\* The fairness of Subscriber: its loop and the broker go on, and handlers
\* return.
ServicesFairness ==
    /\ WF_servicesVars(Notice)
    /\ \A c \in Consumers :
         /\ WF_servicesVars(Handle(c))
         /\ WF_servicesVars(Loop(c) /\ (Start(c) \/ Step(c)))
         /\ WF_servicesVars(Loop(c) /\ Deliver(c))
         /\ WF_servicesVars(Loop(c) /\ Settle(c))

ServicesFairSpec == ServicesSpec /\ ServicesFairness

-----------------------------------------------------------------------------
(***************************************************************************)
(* Properties.                                                             *)
(***************************************************************************)

\* What is in the trail stays as it was recorded (domain/audit/entry.go:
\* "append-only"), and it grows in the order the events of a payment happened:
\* no event joins it behind a later one, but for an event that was committed
\* behind it and for a message that a broken connection held.  Holds with one
\* consumer, through retries, dead-lettering and shutdowns.
TrailGrowsInOrder ==
    [][\A e \in Events :
         /\ trail[e] # 0 => trail'[e] = trail[e]
         /\ trail[e] = 0 /\ trail'[e] \notin {0} \union cutOff
              /\ e \notin late =>
              \A f \in Events :
                  f > e /\ owner[f] = owner[e] => trail[f] = 0]_servicesVars

\* An event whose message was acknowledged is in the trail; the customer was
\* told of a payment whose message was acknowledged, and its row exists.
AckedIsDone ==
    \A m \in acked :
        IF service = "audit"
        THEN trail[arrived[m]] # 0
        ELSE told[m] > 0 /\ rows[RowOf(m)] # "absent"

\* The customer hears of one message again only for a crash or a lost
\* connection, or because the row of a notification could not be saved
\* (README, Dedup, has it that the upsert prevents it, which it does not).
TellsWithinPolicy ==
    \A m \in Messages : told[m] <= 1 + cuts + unsaved

\* The customer hears of a message after a later one only if a connection broke
\* that held it, so a payment is not announced as completed after its refund
\* for a retry, a dead letter or a shutdown.  One consumer.
TellsInOrder ==
    [][\A m, n \in Messages :
         m < n /\ told[n] > 0 /\ m \notin cutOff =>
             told'[m] = told[m]]_servicesVars

\* Every event that reaches the Audit Service ends up in the trail, unless its
\* message was dead-lettered.
EventuallyRecorded ==
    \A m \in Messages :
        service = "audit" /\ m <= sent
            ~> m \in dead \/ (m <= sent /\ trail[arrived[m]] # 0)
=============================================================================
