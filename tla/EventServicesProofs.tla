------------------------- MODULE EventServicesProofs -------------------------
(***************************************************************************)
(* Proofs about the Audit Service and the Notification Service, for any    *)
(* number of payments, events and messages, any prefetch and retry limit,  *)
(* and crashes, lost connections and shutdowns anywhere.                   *)
(*                                                                         *)
(* Each service is a Subscriber fed by an EventChannel, so what is proved  *)
(* of those carries over.                                                  *)
(***************************************************************************)
EXTENDS EventServices, SubscriberProofs

USE DEF queue, channel, loop, history, bounds, Goto

-----------------------------------------------------------------------------
(***************************************************************************)
(* The parts.                                                              *)
(***************************************************************************)

LEMMA StepsOfParts ==
    [ServicesNext]_servicesVars =>
        [Next]_vars /\ [Channel!Next]_(Channel!vars)
<1> SUFFICES ASSUME [ServicesNext]_servicesVars
             PROVE  [Next]_vars /\ [Channel!Next]_(Channel!vars)
  OBVIOUS
<1>1. ASSUME NEW e \in Events, Commit(e)
      PROVE  UNCHANGED vars /\ Channel!Next
  BY <1>1 DEF Commit, Channel!Next
<1>2. ASSUME NEW e \in Events, Arrive(e)
      PROVE  Next /\ Channel!Next
  BY <1>2 DEF Arrive, Next, Channel!Next
<1>3. ASSUME NEW c \in Consumers, Loop(c)
      PROVE  Next /\ UNCHANGED source
  BY <1>3 DEF Loop, Next, Step
<1>7. ASSUME Notice
      PROVE  Next /\ UNCHANGED source
  <2>1. \E messages \in lost : Requeue(messages)
    BY <1>7 DEF Notice
  <2>2. UNCHANGED source
    BY <1>7 DEF Notice
  <2> QED
    BY <2>1, <2>2 DEF Next
<1>4. ASSUME NEW c \in Consumers, Die(c)
      PROVE  Next /\ UNCHANGED source
  BY <1>4 DEF Die, Next
<1>5. ASSUME NEW c \in Consumers, Handle(c)
      PROVE  [Next]_vars /\ UNCHANGED source
  <2>1. CASE Notify(c)
    BY <2>1 DEF Notify
  <2>2. CASE Succeed(c) \/ Fail(c)
    BY <1>5, <2>2 DEF Next, Step, Handle, Record, RecordFails, Notify,
                      Notified, SaveFails
  <2> QED
    BY <1>5, <2>1, <2>2 DEF Handle, Record, RecordFails, Notified, SaveFails
<1>6. CASE UNCHANGED servicesVars
  BY <1>6 DEF servicesVars, source, Channel!vars
<1> QED
  BY <1>1, <1>2, <1>3, <1>4, <1>5, <1>6, <1>7
     DEF ServicesNext, source, Channel!vars

\* A service runs the loop of Subscriber, whatever its handler does, and its
\* queue is fed by an EventChannel (cmd/audit, cmd/notification: NewSubscriber
\* and Start).
THEOREM RunsSubscriber == ServicesSpec => Spec /\ Channel!Spec
<1>1. ServicesInit => Init /\ Channel!Init
  BY DEF ServicesInit
<1> QED
  BY <1>1, StepsOfParts, PTL DEF ServicesSpec, Spec, Channel!Spec

\* A service with one process handles its messages in the order of its queue,
\* but for those that a broken connection held.
THEOREM ServiceKeepsOrder ==
    ASSUME NEW c \in Consumers, Consumers = {c}
    PROVE  ServicesSpec => HandledInOrder
<1>1. Spec => HandledInOrder
  BY OneConsumerKeepsOrder
<1> QED
  BY <1>1, RunsSubscriber, PTL

-----------------------------------------------------------------------------
(***************************************************************************)
(* Type correctness.                                                       *)
(***************************************************************************)

ServicesTypeInv == ServicesTypeOK /\ TypeInv

LEMMA ServicesTypeInvInit == ServicesInit => ServicesTypeInv
<1> SUFFICES ASSUME ServicesInit
             PROVE  ServicesTypeInv
  OBVIOUS
<1>1. TypeInv /\ sent = 0 /\ pc = [c \in Consumers |-> "down"]
  BY TypeInvInit DEF ServicesInit, Init
<1> QED
  BY <1>1 DEF ServicesInit, ServicesTypeInv, ServicesTypeOK, TypeInv,
              Channel!Init, RowKeys

\* The event and the row of a message that has arrived.
LEMMA OfMessage ==
    ASSUME ServicesTypeInv, NEW m \in 1 .. sent
    PROVE  arrived[m] \in Events /\ RowOf(m) \in RowKeys
<1>1. arrived[m] \in Events
  BY DEF ServicesTypeInv, ServicesTypeOK
<1> QED
  BY <1>1 DEF RowOf, RowKeys, ServicesTypeInv, ServicesTypeOK

\* Who runs the handler runs it on a message that has arrived.
LEMMA TriedMessage ==
    ASSUME ServicesTypeInv, NEW c \in Consumers, pc[c] = "try"
    PROVE  current[c] \in 1 .. sent /\ current[c] \in Messages
BY CurrentArrived DEF ServicesTypeInv, TypeInv, LoopInv

LEMMA ServicesTypeInvNext ==
    ServicesTypeInv /\ [ServicesNext]_servicesVars => ServicesTypeInv'
<1> SUFFICES ASSUME ServicesTypeInv, [ServicesNext]_servicesVars
             PROVE  ServicesTypeInv'
  OBVIOUS
<1>1. TypeInv' /\ TypeOK' /\ sent \in Nat
  <2>1. TypeInv'
    BY StepsOfParts, TypeInvNext DEF ServicesTypeInv
  <2>2. sent \in Nat
    BY BoundsAssumption DEF ServicesTypeInv, TypeInv, TypeOK
  <2> QED
    BY <2>1, <2>2 DEF TypeInv
<1> SUFFICES ServicesTypeOK'
  BY <1>1 DEF ServicesTypeInv
<1>2. ASSUME NEW e \in Events, Commit(e)
      PROVE  ServicesTypeOK'
  BY <1>1, <1>2 DEF Commit, Channel!Commit, ServicesTypeInv, ServicesTypeOK,
                    vars, queue, loop, tables
<1>3. ASSUME NEW e \in Events, Arrive(e)
      PROVE  ServicesTypeOK'
  <2>1. /\ arrived' \in Seq(Events) /\ Len(arrived') = sent + 1
        /\ sent' = sent + 1
        /\ UNCHANGED <<owner, committed, late, service, draft, trail, rows,
                       told, unsaved, pc>>
    BY <1>3 DEF Arrive, Channel!Arrive, Receive, ServicesTypeInv,
                ServicesTypeOK, tables, loop
  <2>2. trail \in [Events -> 0 .. sent + 1]
    BY <1>1 DEF ServicesTypeInv, ServicesTypeOK
  <2> QED
    BY <1>1, <2>1, <2>2 DEF ServicesTypeInv, ServicesTypeOK
<1>4. ASSUME NEW c \in Consumers, Loop(c)
      PROVE  ServicesTypeOK'
  <2>1. UNCHANGED <<source, service, draft, tables, told, unsaved>>
    BY <1>4 DEF Loop
  <2>2. sent' = sent
    BY <1>4 DEF Loop, Deliver, Settle, Start, Take, Return, Wake, GiveUp, Ack,
                Nack, Answer, Stop, Disconnect, Break
  <2>3. \A d \in Consumers : pc[d] = "try" => pc'[d] = "try"
    BY <1>4 DEF Loop, Deliver, Settle, Start, Take, Return, Wake, GiveUp, Ack,
                Nack, Answer, Stop, Disconnect,
                ServicesTypeInv, TypeInv, TypeOK
  <2> QED
    BY <1>1, <2>1, <2>2, <2>3
       DEF ServicesTypeInv, ServicesTypeOK, source, tables
<1>5. ASSUME NEW c \in Consumers, Die(c)
      PROVE  ServicesTypeOK'
  <2>1. /\ UNCHANGED <<source, service, tables, told, unsaved, sent>>
        /\ draft' = [draft EXCEPT ![c] = "none"]
        /\ \A d \in Consumers \ {c} : pc'[d] = pc[d]
    BY <1>5 DEF Die, Crash, Break, ServicesTypeInv, TypeInv, TypeOK
  <2> QED
    BY <1>1, <2>1 DEF ServicesTypeInv, ServicesTypeOK, source, tables
<1>6. ASSUME NEW c \in Consumers, Handle(c)
      PROVE  ServicesTypeOK'
  <2>1. pc[c] = "try" /\ UNCHANGED <<source, service, sent>>
    BY <1>6 DEF Handle, Record, RecordFails, Notify, Notified, SaveFails,
                Succeed, Fail, vars, queue
  <2>2. /\ current[c] \in 1 .. sent /\ current[c] \in Messages
        /\ arrived[current[c]] \in Events /\ RowOf(current[c]) \in RowKeys
    BY <2>1, TriedMessage, OfMessage
  <2>3. CASE Record(c) \/ RecordFails(c)
    <3>1. trail' \in [Events -> 0 .. sent]
      BY <1>1, <2>2, <2>3
         DEF Record, RecordFails, Insert, ServicesTypeInv, ServicesTypeOK
    <3>2. draft[c] = "none" /\ \A d \in Consumers \ {c} : pc'[d] = pc[d]
      BY <2>3 DEF Record, RecordFails, Succeed, Fail, Goto, ServicesTypeInv,
                  ServicesTypeOK, TypeInv, TypeOK
    <3> QED
      BY <1>1, <2>1, <2>3, <3>1, <3>2
         DEF Record, RecordFails, ServicesTypeInv, ServicesTypeOK, source
  <2>4. CASE Notify(c)
    <3>1. told' \in [Messages -> Nat]
      <4>1. told \in [Messages -> Nat]
        BY DEF ServicesTypeInv, ServicesTypeOK
      <4>2. \/ UNCHANGED told
            \/ told' = [told EXCEPT ![current[c]] = told[current[c]] + 1]
        BY <2>4 DEF Notify
      <4>3. told[current[c]] + 1 \in Nat
        BY <2>2, <4>1
      <4> QED
        BY <4>1, <4>2, <4>3
    <3>2. /\ draft' \in [Consumers -> {"none", "sent", "failed"}]
          /\ \A d \in Consumers : draft'[d] # "none" =>
               service' = "notification" /\ pc'[d] = "try"
      BY <2>1, <2>4
         DEF Notify, ServicesTypeInv, ServicesTypeOK, vars, loop
    <3> QED
      BY <1>1, <2>1, <2>4, <3>1, <3>2
         DEF Notify, ServicesTypeInv, ServicesTypeOK, source, tables
  <2>5. CASE Notified(c) \/ SaveFails(c)
    <3>1. rows' \in [RowKeys -> {"absent", "sent", "failed"}]
      BY <2>2, <2>5
         DEF Notified, SaveFails, Save, ServicesTypeInv, ServicesTypeOK
    <3>2. /\ draft' = [draft EXCEPT ![c] = "none"]
          /\ \A d \in Consumers \ {c} : pc'[d] = pc[d]
      BY <2>5 DEF Notified, SaveFails, Succeed, Fail, Goto, ServicesTypeInv,
                  TypeInv, TypeOK
    <3>3. unsaved' \in Nat
      BY <2>5 DEF Notified, SaveFails, ServicesTypeInv, ServicesTypeOK
    <3> QED
      BY <1>1, <2>1, <2>5, <3>1, <3>2, <3>3
         DEF Notified, SaveFails, ServicesTypeInv, ServicesTypeOK, source
  <2> QED
    BY <1>6, <2>3, <2>4, <2>5 DEF Handle
<1>7. CASE UNCHANGED servicesVars
  BY <1>1, <1>7 DEF ServicesTypeInv, ServicesTypeOK, servicesVars, vars,
                    source, tables
<1>8. CASE Notice
  BY <1>1, <1>8 DEF Notice, Requeue, ServicesTypeInv, ServicesTypeOK, source,
                    tables
<1> QED
  BY <1>2, <1>3, <1>4, <1>5, <1>6, <1>7, <1>8 DEF ServicesNext

\* Type correctness, and that a notification lives no longer than the run of
\* the handler that built it.
THEOREM ServicesTyping == ServicesSpec => []ServicesTypeOK
<1>1. ServicesTypeInv => ServicesTypeOK
  BY DEF ServicesTypeInv
<1> QED
  BY <1>1, ServicesTypeInvInit, ServicesTypeInvNext, PTL DEF ServicesSpec

-----------------------------------------------------------------------------
(***************************************************************************)
(* An acknowledged message has been dealt with.                            *)
(***************************************************************************)

\* What AckedIsDone asks of a message.
Done(m) ==
    IF service = "audit"
    THEN trail[arrived[m]] # 0
    ELSE told[m] > 0 /\ rows[RowOf(m)] # "absent"

\* Whoever is about to Ack, or has written its Ack, has dealt with its message,
\* and a notification that is still to be saved as sent was sent.
DoneInv ==
    /\ AckedIsDone
    /\ \A c \in Consumers :
         /\ pc[c] = "ack" => Done(current[c])
         /\ \A f \in ToSet(frames[c]) : f[1] = "ack" => Done(f[2])
         /\ draft[c] = "sent" => told[current[c]] > 0

\* Who is told was told.
LEMMA TellsAdd ==
    ASSUME ServicesTypeInv, [ServicesNext]_servicesVars, NEW m \in Messages
    PROVE  /\ told'[m] \in Nat /\ told[m] \in Nat
           /\ told'[m] >= told[m]
<1>1. told \in [Messages -> Nat]
  BY DEF ServicesTypeInv, ServicesTypeOK
<1>2. \/ UNCHANGED told
      \/ \E c \in Consumers : told' = [told EXCEPT ![current[c]] = @ + 1]
  BY DEF ServicesNext, Commit, Arrive, Notice, Loop, Die, Handle, Record,
         RecordFails, Notify, Notified, SaveFails, servicesVars
<1> QED
  BY <1>1, <1>2

\* A consumer leaves the message it handles when it is settled, or it dies.
LEMMA SameCurrent ==
    ASSUME ServicesTypeInv, [Next]_vars, NEW c \in Consumers, pc[c] = "try"
    PROVE  current'[c] = current[c] \/ Crash(c)
<1>1. pc \in [Consumers -> {"down", "select", "try", "wait", "ack", "nack"}]
      /\ current \in [Consumers -> 0 .. sent]
  BY DEF ServicesTypeInv, TypeInv, TypeOK
<1>2. ASSUME NEW d \in Consumers,
             Take(d) \/ Ack(d) \/ Nack(d) \/ Crash(d), ~Crash(c)
      PROVE  current'[c] = current[c]
  BY <1>1, <1>2 DEF Take, Ack, Nack, Answer, Crash
<1>3. CASE UNCHANGED current
  BY <1>3
<1> QED
  BY <1>2, <1>3 DEF Next, Step, Receive, Requeue, Deliver, Settle, Start,
     Return, Succeed, Fail, Wake, GiveUp, Stop, Disconnect, vars

\* Nothing takes back what was done.
LEMMA DoneIsKept ==
    ASSUME ServicesTypeInv, [ServicesNext]_servicesVars, NEW m \in 1 .. sent,
           Done(m)
    PROVE  Done(m)'
<1>1. /\ arrived[m] \in Events /\ RowOf(m) \in RowKeys /\ m \in Messages
      /\ sent \in Nat
  BY OfMessage, BoundsAssumption
     DEF ServicesTypeInv, TypeInv, TypeOK, Messages
<1>2. CASE UNCHANGED <<owner, arrived, service, tables, told>>
  BY <1>2 DEF Done, RowOf, tables
<1>3. ASSUME NEW e \in Events, Arrive(e)
      PROVE  Done(m)'
  <2>1. arrived'[m] = arrived[m]
    BY <1>3 DEF Arrive, Channel!Arrive, ServicesTypeInv, ServicesTypeOK
  <2> QED
    BY <1>3, <2>1 DEF Arrive, Channel!Arrive, Done, RowOf, tables
<1>4. ASSUME NEW c \in Consumers, Handle(c)
      PROVE  Done(m)'
  <2>1. /\ pc[c] = "try" /\ UNCHANGED <<owner, arrived, service>>
        /\ RowOf(m)' = RowOf(m)
    BY <1>4 DEF Handle, Record, RecordFails, Notify, Notified, SaveFails,
                Succeed, Fail, source, RowOf
  <2>2. /\ current[c] \in 1 .. sent /\ current[c] \in Messages
        /\ RowOf(current[c]) \in RowKeys /\ arrived[current[c]] \in Events
    BY <2>1, TriedMessage, OfMessage
  <2>3. CASE Record(c) \/ RecordFails(c)
    <3>1. trail[arrived[m]] # 0 => trail'[arrived[m]] # 0
      BY <1>1, <2>2, <2>3
         DEF Record, RecordFails, Insert, ServicesTypeInv, ServicesTypeOK
    <3> QED
      BY <2>1, <2>3, <3>1 DEF Record, RecordFails, Done
  <2>4. CASE Notify(c)
    <3>1. told[m] > 0 => told'[m] > 0
      BY <1>1, TellsAdd
    <3> QED
      BY <2>1, <2>4, <3>1 DEF Notify, Done, tables
  <2>5. CASE Notified(c) \/ SaveFails(c)
    <3>1. draft[c] # "absent"
      BY DEF ServicesTypeInv, ServicesTypeOK
    <3>2. rows[RowOf(m)] # "absent" => rows'[RowOf(m)] # "absent"
      BY <1>1, <2>2, <2>5, <3>1
         DEF Notified, SaveFails, Save, ServicesTypeInv, ServicesTypeOK
    <3> QED
      BY <2>1, <2>5, <3>2 DEF Notified, SaveFails, Done
  <2> QED
    BY <1>4, <2>3, <2>4, <2>5 DEF Handle
<1> QED
  BY <1>2, <1>3, <1>4
     DEF ServicesNext, Commit, Channel!Commit, Notice, Loop, Die, servicesVars,
         source

\* The handler that succeeds has done its work.
LEMMA SuccessIsDone ==
    ASSUME ServicesTypeInv, DoneInv, [ServicesNext]_servicesVars,
           NEW c \in Consumers, Succeed(c)
    PROVE  Done(current[c])' /\ current'[c] = current[c]
<1>1. /\ pc[c] = "try" /\ pc'[c] = "ack" /\ current'[c] = current[c]
      /\ \A d \in Consumers \ {c} : pc'[d] = pc[d]
  BY DEF Succeed, Goto, ServicesTypeInv, TypeInv, TypeOK
<1>2. /\ current[c] \in 1 .. sent /\ current[c] \in Messages
      /\ arrived[current[c]] \in Events /\ RowOf(current[c]) \in RowKeys
  BY <1>1, TriedMessage, OfMessage
<1>3. Record(c) \/ Notified(c)
  <2>2. ASSUME \/ Notice
               \/ \E e \in Events : Commit(e) \/ Arrive(e)
        PROVE  FALSE
    BY <1>1, <2>2 DEF Notice, Requeue, Commit, Arrive, Receive, vars
  <2>3. ASSUME NEW d \in Consumers, Loop(d) \/ Die(d)
        PROVE  FALSE
    BY <1>1, <2>3 DEF Loop, Die, Deliver, Settle, Start, Take, Return, Wake,
       GiveUp, Ack, Nack, Answer, Stop, Disconnect, Crash,
       ServicesTypeInv, TypeInv, TypeOK
  <2>4. ASSUME NEW d \in Consumers, Handle(d)
        PROVE  Record(c) \/ Notified(c)
    <3>1. d = c
      BY <1>1, <2>4 DEF Handle, Record, RecordFails, Notify, Notified,
         SaveFails, Succeed, Fail, vars, loop, Goto, ServicesTypeInv, TypeInv,
         TypeOK
    <3> QED
      BY <1>1, <2>4, <3>1 DEF Handle, RecordFails, Notify, SaveFails, Fail,
         vars, loop, Goto, ServicesTypeInv, TypeInv, TypeOK
  <2>5. pc' # pc
    BY <1>1
  <2> QED
    BY <2>2, <2>3, <2>4, <2>5 DEF ServicesNext, servicesVars, vars, loop
<1>4. CASE Record(c)
  <2>1. trail'[arrived[current[c]]] # 0
    BY <1>2, <1>4, BoundsAssumption
       DEF Record, Insert, ServicesTypeInv, ServicesTypeOK
  <2> QED
    BY <1>1, <1>4, <2>1 DEF Record, Done, source
<1>5. CASE Notified(c)
  <2>1. draft[c] = "sent" /\ told[current[c]] > 0
    BY <1>1, <1>5 DEF Notified, Fail, Goto, DoneInv, ServicesTypeInv,
       TypeInv, TypeOK
  <2>2. /\ rows'[RowOf(current[c])] = "sent"
        /\ RowOf(current[c])' = RowOf(current[c])
    BY <1>1, <1>2, <1>5, <2>1
       DEF Notified, Save, source, RowOf, ServicesTypeInv, ServicesTypeOK
  <2> QED
    BY <1>1, <1>5, <2>1, <2>2 DEF Notified, Done
<1> QED
  BY <1>1, <1>3, <1>4, <1>5

LEMMA DoneInvNext ==
    ServicesTypeInv /\ DoneInv /\ [ServicesNext]_servicesVars => DoneInv'
<1> SUFFICES ASSUME ServicesTypeInv, DoneInv, [ServicesNext]_servicesVars
             PROVE  DoneInv'
  OBVIOUS
<1>1. TypeInv /\ [Next]_vars /\ acked \subseteq 1 .. sent
  BY StepsOfParts DEF ServicesTypeInv, TypeInv, TypeOK
<1>2. ASSUME NEW c \in Consumers, pc[c] = "ack"
      PROVE  Done(current[c]) /\ current[c] \in 1 .. sent
  BY <1>1, <1>2, CurrentArrived DEF TypeInv, LoopInv, DoneInv
<1>3. ASSUME NEW c \in Consumers, pc'[c] = "ack"
      PROVE  Done(current[c])' /\ current'[c] = current[c]
  <2>1. CASE Succeed(c)
    BY <2>1, SuccessIsDone
  <2>2. CASE pc[c] = "ack" /\ current'[c] = current[c]
    BY <1>2, <2>2, DoneIsKept
  <2> QED
    BY <1>1, <1>3, <2>1, <2>2, VerdictSteps
<1>7. ASSUME NEW c \in Consumers, NEW f \in ToSet(frames[c]), f[1] = "ack"
      PROVE  Done(f[2])'
  <2>1. f[2] \in 1 .. sent
    BY <1>1, OnlyMessages DEF Frames
  <2> QED
    BY <1>7, <2>1, DoneIsKept DEF DoneInv
<1>8. ASSUME NEW c \in Consumers, NEW f \in ToSet(frames'[c]), f[1] = "ack"
      PROVE  Done(f[2])'
  <2>1. CASE f \in ToSet(frames[c])
    BY <1>7, <1>8, <2>1
  <2>2. CASE f \notin ToSet(frames[c])
    <3>1. pc[c] = "ack" /\ f[2] = current[c]
      BY <1>1, <1>8, <2>2, FrameWritten
    <3> QED
      BY <1>2, <3>1, DoneIsKept
  <2> QED
    BY <2>1, <2>2
<1>4. ASSUME NEW m \in acked'
      PROVE  Done(m)'
  <2>1. CASE m \in acked
    <3>1. m \in 1 .. sent /\ Done(m)
      BY <1>1, <2>1 DEF DoneInv, AckedIsDone, Done
    <3> QED
      BY <3>1, DoneIsKept
  <2>2. CASE m \notin acked
    <3>1. PICK c \in Consumers : Settle(c) /\ Head(frames[c]) = <<"ack", m>>
      BY <1>1, <2>2, SettledSteps
    <3>2. <<"ack", m>> \in ToSet(frames[c])
      BY <1>1, <3>1, FrameRead DEF Settle
    <3>3. <<"ack", m>>[1] = "ack" /\ <<"ack", m>>[2] = m
      OBVIOUS
    <3> QED
      BY <1>7, <3>2, <3>3
  <2> QED
    BY <2>1, <2>2
<1>5. AckedIsDone'
  BY <1>4 DEF AckedIsDone, Done
<1>6. ASSUME NEW c \in Consumers, draft'[c] = "sent"
      PROVE  told'[current'[c]] > 0
  <2>1. CASE Notify(c)
    <3>1. pc[c] = "try" /\ current' = current
      BY <2>1 DEF Notify, vars
    <3>2. current[c] \in Messages
      BY <3>1, TriedMessage
    <3>3. told' = [told EXCEPT ![current[c]] = @ + 1]
      BY <1>6, <2>1 DEF Notify, ServicesTypeInv, ServicesTypeOK
    <3> QED
      BY <3>1, <3>2, <3>3 DEF ServicesTypeInv, ServicesTypeOK
  <2>2. CASE ~Notify(c)
    <3>1. draft[c] = "sent"
      BY <1>6, <2>2 DEF ServicesNext, Commit, Arrive, Notice, Loop, Die, Handle, Record,
         RecordFails, Notify, Notified, SaveFails, servicesVars,
         ServicesTypeInv, ServicesTypeOK
    <3>2. pc[c] = "try" /\ told[current[c]] > 0
      BY <3>1 DEF DoneInv, ServicesTypeInv, ServicesTypeOK
    <3>3. current[c] \in Messages
      BY <3>2, TriedMessage
    <3>4. CASE Crash(c)
      <4>1. pc'[c] = "down" /\ ServicesTypeOK'
        BY <3>4, ServicesTypeInvNext
           DEF Crash, Goto, ServicesTypeInv, TypeInv, TypeOK
      <4> QED
        BY <1>6, <4>1 DEF ServicesTypeOK
    <3>5. told'[current[c]] > 0
      BY <3>2, <3>3, TellsAdd
    <3> QED
      BY <1>1, <3>2, <3>4, <3>5, SameCurrent
  <2> QED
    BY <2>1, <2>2
<1> QED
  BY <1>3, <1>5, <1>6, <1>8 DEF DoneInv, Done, RowOf

\* What is acknowledged is on record: in the trail of the Audit Service, or sent
\* and saved by the Notification Service.  No crash, lost connection or retry
\* acknowledges a message whose handler did not get that far.
THEOREM AcknowledgedIsOnRecord == ServicesSpec => []AckedIsDone
<1>1. ServicesInit => DoneInv
  BY NothingIn DEF ServicesInit, Init, DoneInv, AckedIsDone
<1>2. DoneInv => AckedIsDone
  BY DEF DoneInv
<1> QED
  BY <1>1, <1>2, DoneInvNext, ServicesTypeInvInit, ServicesTypeInvNext, PTL
     DEF ServicesSpec

-----------------------------------------------------------------------------
(***************************************************************************)
(* The order of the trail, with one consumer.                              *)
(***************************************************************************)

\* The queue has the events of a payment in order, but for late ones.
ArrivedInOrder ==
    /\ \A m \in 1 .. sent : arrived[m] \in committed
    /\ \A m \in 1 .. sent : \A n \in 1 .. m - 1 :
         owner[arrived[n]] = owner[arrived[m]] =>
             arrived[n] <= arrived[m] \/ arrived[m] \in late

\* What was recorded was taken, so it comes before all that is fresh.
RecordedInOrder(c) ==
    \A e \in Events : trail[e] # 0 =>
        arrived[trail[e]] = e /\ trail[e] \in Touched(c)

LEMMA ArrivedInOrderNext ==
    ASSUME ServicesTypeInv, ServicesTypeInv', ArrivedInOrder,
           [ServicesNext]_servicesVars
    PROVE  ArrivedInOrder'
<1>1. /\ arrived \in Seq(Events) /\ Len(arrived) = sent /\ sent \in Nat
      /\ Events \subseteq Nat
  BY BoundsAssumption, KindAssumption
     DEF ServicesTypeInv, ServicesTypeOK, TypeInv, TypeOK
<1>2. ASSUME NEW e \in Events, Commit(e)
      PROVE  ArrivedInOrder'
  <2>1. /\ UNCHANGED <<owner, arrived, sent>> /\ e \notin committed
        /\ committed \subseteq committed' /\ late \subseteq late'
    BY <1>2 DEF Commit, Channel!Commit, vars, queue
  <2> QED
    BY <2>1 DEF ArrivedInOrder
<1>3. ASSUME NEW e \in Events, Arrive(e)
      PROVE  ArrivedInOrder'
  <2>1. /\ UNCHANGED <<owner, committed, late>> /\ e \in committed
        /\ sent' = sent + 1 /\ arrived' = Append(arrived, e)
        /\ e \in late \/ \A n \in 1 .. sent :
                             owner[arrived[n]] = owner[e] => arrived[n] <= e
    BY <1>1, <1>3 DEF Arrive, Channel!Arrive, Channel!InOrder, Receive
  <2>2. /\ arrived'[sent + 1] = e
        /\ \A n \in 1 .. sent : arrived'[n] = arrived[n]
    BY <1>1, <2>1
  <2>3. ASSUME NEW m \in 1 .. sent'
        PROVE  /\ arrived'[m] \in committed
               /\ \A n \in 1 .. m - 1 :
                    owner[arrived'[n]] = owner[arrived'[m]] =>
                        arrived'[n] <= arrived'[m] \/ arrived'[m] \in late
    <3>1. CASE m = sent + 1
      BY <1>1, <2>1, <2>2, <3>1
    <3>2. CASE m \in 1 .. sent
      <4>1. \A n \in 1 .. m - 1 : n \in 1 .. sent
        BY <1>1, <3>2
      <4> QED
        BY <2>2, <3>2, <4>1 DEF ArrivedInOrder
    <3> QED
      BY <1>1, <2>1, <3>1, <3>2
  <2> QED
    BY <2>1, <2>3 DEF ArrivedInOrder
<1>4. CASE UNCHANGED <<source, sent>>
  BY <1>4 DEF ArrivedInOrder, source
<1>5. ASSUME NEW c \in Consumers, Loop(c) \/ Die(c) \/ Handle(c)
      PROVE  UNCHANGED <<source, sent>>
  BY <1>5 DEF Loop, Die, Handle, Record, RecordFails, Notify, Notified,
     SaveFails, Succeed, Fail, Deliver, Settle, Start, Take, Return, Wake,
     GiveUp, Ack, Nack, Answer, Stop, Disconnect, Crash, Break, vars
<1>6. CASE Notice
  BY <1>4, <1>6 DEF Notice, Requeue
<1> QED
  BY <1>2, <1>3, <1>4, <1>5, <1>6 DEF ServicesNext, servicesVars, vars

\* A step that changes the trail runs the handler of RecordAudit.
LEMMA TrailSteps ==
    ASSUME ServicesTypeInv, [ServicesNext]_servicesVars
    PROVE  \/ UNCHANGED trail
           \/ \E c \in Consumers :
                /\ pc[c] = "try" /\ current[c] \in 1 .. sent
                /\ arrived[current[c]] \in Events
                /\ Insert(current[c])
                /\ UNCHANGED source
<1>1. ASSUME NEW c \in Consumers, Record(c) \/ RecordFails(c)
      PROVE  /\ pc[c] = "try" /\ current[c] \in 1 .. sent
             /\ arrived[current[c]] \in Events
             /\ Insert(current[c]) \/ UNCHANGED trail
             /\ UNCHANGED source
  <2>1. Insert(current[c]) \/ UNCHANGED trail
    BY <1>1 DEF Record, RecordFails, Succeed, Fail
  <2>2. pc[c] = "try" /\ UNCHANGED source
    BY <1>1 DEF Record, RecordFails, Succeed, Fail
  <2> QED
    BY <2>1, <2>2, TriedMessage, OfMessage
<1>2. CASE \E c \in Consumers : Record(c) \/ RecordFails(c)
  BY <1>1, <1>2
<1>3. CASE ~ \E c \in Consumers : Record(c) \/ RecordFails(c)
  BY <1>3 DEF ServicesNext, Commit, Arrive, Notice, Loop, Die, Handle, Notify,
     Notified, SaveFails, servicesVars, tables
<1> QED
  BY <1>2, <1>3

LEMMA RecordedInOrderNext ==
    ASSUME NEW c \in Consumers, Consumers = {c}, OrderInv(c), ServicesTypeInv,
           RecordedInOrder(c), [ServicesNext]_servicesVars
    PROVE  RecordedInOrder(c)'
<1>1. Touched(c) \subseteq Touched(c)'
  BY StepsOfParts, OrderInvNext
<1>2. /\ trail \in [Events -> 0 .. sent] /\ sent \in Nat
      /\ arrived \in Seq(Events) /\ Len(arrived) = sent
  BY BoundsAssumption DEF ServicesTypeInv, ServicesTypeOK, TypeInv, TypeOK
<1>3. \A m \in 1 .. sent : arrived'[m] = arrived[m]
  <2>1. UNCHANGED arrived \/ \E e \in Events : arrived' = Append(arrived, e)
    BY DEF ServicesNext, Commit, Channel!Commit, Arrive, Channel!Arrive,
       Notice, Loop, Die, Handle, Record, RecordFails, Notify, Notified,
       SaveFails, servicesVars, source
  <2> QED
    BY <1>2, <2>1
<1>4. ASSUME NEW e \in Events, trail'[e] # 0
      PROVE  arrived'[trail'[e]] = e /\ trail'[e] \in Touched(c)'
  <2>1. CASE trail'[e] = trail[e]
    <3>1. trail[e] \in 1 .. sent
      BY <1>2, <1>4, <2>1
    <3> QED
      BY <1>1, <1>3, <1>4, <2>1, <3>1 DEF RecordedInOrder
  <2>2. CASE trail'[e] # trail[e]
    <3>1. /\ current[c] \in 1 .. sent /\ arrived[current[c]] \in Events
          /\ Insert(current[c]) /\ pc[c] = "try"
      BY <2>2, TrailSteps
    <3>2. trail'[e] = current[c] /\ arrived[current[c]] = e
      BY <1>2, <2>2, <3>1 DEF Insert
    <3>3. current[c] # 0
      BY <3>1 DEF ServicesTypeInv, TypeInv, LoopInv
    <3> QED
      BY <1>1, <1>3, <3>1, <3>2, <3>3, CurrentTouched
  <2> QED
    BY <2>1, <2>2
<1> QED
  BY <1>4 DEF RecordedInOrder

\* With one process, the trail only grows, and no event of a payment joins it
\* behind a later one, whatever is published twice, retried, refused or shut
\* down.  The exceptions: an event that committed behind a later one, and a
\* message that a broken connection held, whose Ack or Nack may be lost after
\* later messages were handled (consumer.go:127-161).
THEOREM TrailKeepsOrder ==
    ASSUME NEW c \in Consumers, Consumers = {c}
    PROVE  ServicesSpec => TrailGrowsInOrder
<1> DEFINE Inv == /\ OrderInv(c) /\ ServicesTypeInv
                  /\ ArrivedInOrder /\ RecordedInOrder(c)
<1>1. ServicesInit => Inv
  <2> SUFFICES ASSUME ServicesInit
               PROVE  Inv
    OBVIOUS
  <2>1. Init /\ Channel!Init /\ trail = [e \in Events |-> 0]
    BY DEF ServicesInit
  <2>2. ArrivedInOrder /\ RecordedInOrder(c)
    BY <2>1 DEF Init, Channel!Init, ArrivedInOrder, RecordedInOrder
  <2> QED
    BY <2>1, <2>2, OrderInvInit, ServicesTypeInvInit
<1>2. Inv /\ [ServicesNext]_servicesVars => Inv'
  <2> SUFFICES ASSUME Inv, [ServicesNext]_servicesVars
               PROVE  Inv'
    OBVIOUS
  <2>1. OrderInv(c)'
    BY StepsOfParts, OrderInvNext
  <2>2. ServicesTypeInv'
    BY ServicesTypeInvNext
  <2>3. ArrivedInOrder'
    BY <2>2, ArrivedInOrderNext DEF ServicesTypeInv
  <2>4. RecordedInOrder(c)'
    BY RecordedInOrderNext
  <2> QED
    BY <2>1, <2>2, <2>3, <2>4
<1>3. ASSUME Inv, [ServicesNext]_servicesVars, NEW e \in Events
      PROVE  /\ trail[e] # 0 => trail'[e] = trail[e]
             /\ trail[e] = 0 /\ trail'[e] \notin {0} \union cutOff
                  /\ e \notin late =>
                  \A f \in Events :
                      f > e /\ owner[f] = owner[e] => trail[f] = 0
  <2>1. /\ trail \in [Events -> 0 .. sent] /\ sent \in Nat
        /\ Events \subseteq Nat
    BY <1>3, BoundsAssumption, KindAssumption
       DEF ServicesTypeInv, ServicesTypeOK, TypeInv, TypeOK
  <2>2. CASE UNCHANGED trail
    BY <2>2
  <2>3. CASE /\ current[c] \in 1 .. sent /\ arrived[current[c]] \in Events
             /\ Insert(current[c]) /\ pc[c] = "try"
    <3>1. trail[e] # 0 => trail'[e] = trail[e]
      BY <2>1, <2>3 DEF Insert
    <3>2. ASSUME trail[e] = 0, trail'[e] \notin {0} \union cutOff,
                 e \notin late,
                 NEW f \in Events, f > e, owner[f] = owner[e], trail[f] # 0
          PROVE  FALSE
      <4>1. arrived[current[c]] = e /\ trail'[e] = current[c]
        BY <2>1, <2>3, <3>2 DEF Insert
      <4>2. /\ trail[f] \in 1 .. sent /\ arrived[trail[f]] = f
            /\ trail[f] \in Touched(c)
        BY <1>3, <2>1, <3>2 DEF RecordedInOrder
      <4>3. ~ (trail[f] < current[c])
        <5>1. ASSUME trail[f] < current[c]
              PROVE  FALSE
          <6>1. trail[f] \in 1 .. (current[c] - 1)
            BY <2>1, <2>3, <4>2, <5>1
          <6> DEFINE m == current[c]
                     n == trail[f]
          <6>2. \A i \in 1 .. sent : \A j \in 1 .. i - 1 :
                  owner[arrived[j]] = owner[arrived[i]] =>
                      arrived[j] <= arrived[i] \/ arrived[i] \in late
            BY <1>3 DEF ArrivedInOrder
          <6>3. /\ m \in 1 .. sent /\ n \in 1 .. m - 1
                /\ arrived[m] = e /\ arrived[n] = f
            BY <2>3, <4>1, <4>2, <6>1
          <6> HIDE DEF m, n
          <6>4. f <= e \/ e \in late
            BY <3>2, <6>2, <6>3
          <6> QED
            BY <2>1, <3>2, <6>4
        <5> QED
          BY <5>1
      <4>4. trail[f] <= current[c]
        <5>1. current[c] # 0 /\ current[c] \notin cutOff
          BY <1>3, <2>3, <3>2, <4>1 DEF ServicesTypeInv, TypeInv, LoopInv
        <5> QED
          BY <1>3, <4>2, <5>1, CurrentTouched
      <4>5. current[c] # trail[f]
        BY <2>1, <3>2, <4>1, <4>2
      <4> QED
        BY <2>1, <2>3, <4>2, <4>3, <4>4, <4>5
    <3> QED
      BY <3>1, <3>2
  <2> QED
    BY <1>3, <2>2, <2>3, TrailSteps
<1>4. Inv /\ [ServicesNext]_servicesVars =>
        [\A e \in Events :
           /\ trail[e] # 0 => trail'[e] = trail[e]
           /\ trail[e] = 0 /\ trail'[e] \notin {0} \union cutOff
                /\ e \notin late =>
                \A f \in Events :
                    f > e /\ owner[f] = owner[e] => trail[f] = 0]_servicesVars
  BY <1>3
<1> QED
  BY <1>1, <1>2, <1>4, PTL DEF ServicesSpec, TrailGrowsInOrder

-----------------------------------------------------------------------------
(***************************************************************************)
(* With one consumer, the customer hears of messages in their order.       *)
(***************************************************************************)

ToldInOrder(c) == \A n \in Messages : told[n] > 0 => n \in Touched(c)

\* Only Notify tells, and only of the message its consumer is at.
LEMMA TellSteps ==
    ASSUME ServicesTypeInv, [ServicesNext]_servicesVars
    PROVE  \/ UNCHANGED told
           \/ \E c \in Consumers :
                /\ Notify(c) /\ current[c] \in Messages
                /\ told' = [told EXCEPT ![current[c]] = told[current[c]] + 1]
                /\ draft' = [draft EXCEPT ![c] = "sent"]
<1>1. CASE \E c \in Consumers : Notify(c)
  <2>1. PICK c \in Consumers : Notify(c)
    BY <1>1
  <2>2. pc[c] = "try"
    BY <2>1 DEF Notify
  <2> QED
    BY <2>1, <2>2, TriedMessage DEF Notify
<1>2. CASE ~ \E c \in Consumers : Notify(c)
  BY <1>2 DEF ServicesNext, Commit, Arrive, Notice, Loop, Die, Handle, Record,
     RecordFails, Notified, SaveFails, servicesVars
<1> QED
  BY <1>1, <1>2

LEMMA ToldInOrderNext ==
    ASSUME NEW c \in Consumers, Consumers = {c}, OrderInv(c), ServicesTypeInv,
           ToldInOrder(c), [ServicesNext]_servicesVars
    PROVE  /\ ToldInOrder(c)'
           /\ \A m, n \in Messages :
                m < n /\ told[n] > 0 /\ m \notin cutOff => told'[m] = told[m]
<1>1. Touched(c) \subseteq Touched(c)'
  BY StepsOfParts, OrderInvNext
<1>2. told \in [Messages -> Nat]
  BY DEF ServicesTypeInv, ServicesTypeOK
<1>3. CASE UNCHANGED told
  BY <1>1, <1>3 DEF ToldInOrder
<1>4. CASE /\ current[c] \in Messages
           /\ told' = [told EXCEPT ![current[c]] = told[current[c]] + 1]
  <2>1. \A m \in Messages : m # current[c] => told'[m] = told[m]
    BY <1>2, <1>4
  <2>2. /\ current[c] # 0 /\ current[c] \in Touched(c)
        /\ current[c] \notin cutOff =>
             \A x \in Touched(c) : x <= current[c]
    BY <1>4, CurrentTouched DEF Messages
  <2>3. ToldInOrder(c)'
    BY <1>1, <2>1, <2>2 DEF ToldInOrder
  <2>4. ASSUME NEW m \in Messages, NEW n \in Messages, m < n, told[n] > 0,
               m \notin cutOff
        PROVE  told'[m] = told[m]
    <3>1. n \in Touched(c)
      BY <2>4 DEF ToldInOrder
    <3>2. m # current[c]
      BY <2>2, <2>4, <3>1 DEF Messages
    <3> QED
      BY <2>1, <3>2
  <2> QED
    BY <2>3, <2>4
<1> QED
  BY <1>3, <1>4, TellSteps

\* With one process the customer hears of a message after a later one only if
\* a broken connection held it: no failed Send or Save, no dead letter and no
\* shutdown tells of an earlier message again.
THEOREM CustomerHearsInOrder ==
    ASSUME NEW c \in Consumers, Consumers = {c}
    PROVE  ServicesSpec => TellsInOrder
<1> DEFINE Inv == OrderInv(c) /\ ServicesTypeInv /\ ToldInOrder(c)
<1>1. ServicesInit => Inv
  <2> SUFFICES ASSUME ServicesInit
               PROVE  Inv
    OBVIOUS
  <2>1. Init /\ told = [m \in Messages |-> 0]
    BY DEF ServicesInit
  <2>2. ToldInOrder(c)
    BY <2>1 DEF ToldInOrder
  <2> QED
    BY <2>1, <2>2, OrderInvInit, ServicesTypeInvInit
<1>2. Inv /\ [ServicesNext]_servicesVars => Inv'
  BY StepsOfParts, OrderInvNext, ServicesTypeInvNext, ToldInOrderNext
<1>3. Inv /\ [ServicesNext]_servicesVars =>
        [\A m, n \in Messages :
           m < n /\ told[n] > 0 /\ m \notin cutOff =>
               told'[m] = told[m]]_servicesVars
  BY ToldInOrderNext
<1> QED
  BY <1>1, <1>2, <1>3, PTL DEF ServicesSpec, TellsInOrder

-----------------------------------------------------------------------------
(***************************************************************************)
(* Telling twice needs a cut or a failed Save, with any number of          *)
(* consumers.  A cut may leave a handler of m running that no longer holds *)
(* m and has still to tell, or undo the Ack of one that told; a failed     *)
(* Save makes the handler tell again.                                      *)
(***************************************************************************)

\* c has told of m and has not saved it.
Telling(c, m) == current[c] = m /\ draft[c] = "sent"

\* The handlers of m that may still tell without holding it.
MayTell(m) == {c \in Stale(m) : ~Telling(c, m)}

Accounted(m) ==
    IF m \in acked
         \/ \E c \in Consumers : open[c] /\ (Acking(c, m) \/ Telling(c, m))
    THEN 1 ELSE 0

TellBounded(m) ==
    /\ IsFiniteSet(MayTell(m))
    /\ told[m] + Cardinality(MayTell(m)) <= cuts + unsaved + Accounted(m)

TellInv == ServicesTypeInv /\ PlaceInv /\ \A m \in Messages : TellBounded(m)

\* The numbers TellBounded compares.
LEMMA TellTypes ==
    ASSUME TellInv, NEW m \in Messages
    PROVE  /\ told[m] \in Nat /\ cuts \in Nat /\ unsaved \in Nat
           /\ IsFiniteSet(MayTell(m)) /\ Cardinality(MayTell(m)) \in Nat
           /\ told[m] + Cardinality(MayTell(m)) <= cuts + unsaved + Accounted(m)
           /\ Accounted(m) \in {0, 1} /\ Accounted(m)' \in {0, 1}
           /\ TypeInv /\ HeldInv /\ InOnePlace
<1>1. TellBounded(m) /\ ServicesTypeOK /\ TypeOK
  BY DEF TellInv, ServicesTypeInv, TypeInv
<1>2. told[m] \in Nat /\ cuts \in Nat /\ unsaved \in Nat
  BY <1>1, BoundsAssumption DEF ServicesTypeOK, TypeOK
<1>3. Cardinality(MayTell(m)) \in Nat
  BY <1>1, FS_CardinalityType DEF TellBounded
<1>4. Accounted(m) \in {0, 1} /\ Accounted(m)' \in {0, 1}
  BY DEF Accounted
<1> QED
  BY <1>1, <1>2, <1>3, <1>4
     DEF TellBounded, TellInv, ServicesTypeInv, PlaceInv

\* A notification that was sent stays so until Execute returns, or with its
\* process.
LEMMA TellingSteps ==
    ASSUME ServicesTypeInv, [ServicesNext]_servicesVars,
           NEW c \in Consumers, NEW m \in Messages,
           Telling(c, m), ~Telling(c, m)'
    PROVE  /\ pc[c] = "try"
           /\ \/ SaveFails(c) /\ unsaved' = unsaved + 1
              \/ Succeed(c) /\ pc'[c] = "ack" /\ current'[c] = m
              \/ Crash(c) /\ pc'[c] = "down" /\ inbox'[c] = << >>
<1>1. /\ draft \in [Consumers -> {"none", "sent", "failed"}]
      /\ draft[c] = "sent" /\ current[c] = m /\ pc[c] = "try"
      /\ service = "notification"
      /\ pc \in [Consumers -> {"down", "select", "try", "wait", "ack", "nack"}]
      /\ current \in [Consumers -> 0 .. sent]
      /\ inbox \in [Consumers -> Seq(1 .. sent)]
  BY DEF ServicesTypeInv, ServicesTypeOK, TypeInv, TypeOK, Telling
<1>2. CASE Crash(c)
  BY <1>1, <1>2 DEF Crash
<1>3. CASE ~Crash(c)
  <2>1. current'[c] = m
    BY <1>1, <1>3, StepsOfParts, SameCurrent
  <2>2. draft'[c] # "sent"
    BY <2>1 DEF Telling
  <2>3. SaveFails(c) \/ Notified(c)
    BY <1>1, <1>3, <2>2 DEF ServicesNext, Commit, Arrive, Notice, Loop, Die,
       Handle, Record, RecordFails, Notify, Notified, SaveFails, servicesVars
  <2>4. CASE SaveFails(c)
    BY <1>1, <2>4 DEF SaveFails
  <2>5. CASE Notified(c)
    BY <1>1, <2>1, <2>5 DEF Notified, Succeed
  <2> QED
    BY <1>1, <2>3, <2>4, <2>5
<1> QED
  BY <1>2, <1>3

\* Who may tell of m without holding it, and did not before, was cut off or
\* could not save what it sent.
LEMMA MayTellSteps ==
    ASSUME TellInv, [ServicesNext]_servicesVars, NEW m \in Messages,
           NEW d \in MayTell(m)', d \notin MayTell(m)
    PROVE  /\ d \in Consumers
           /\ \/ /\ Disconnect(d) /\ open[d] /\ ~open'[d]
                 /\ Pending(d, m) /\ ~Telling(d, m)
              \/ SaveFails(d) /\ ~open[d] /\ unsaved' = unsaved + 1
<1>1. /\ TypeInv /\ HeldInv /\ ServicesTypeInv /\ [Next]_vars
      /\ d \in Stale(m)' /\ ~Telling(d, m)' /\ d \in Consumers
      /\ ~open'[d] /\ Pending(d, m)'
  BY TellTypes, StepsOfParts DEF MayTell, Stale, TellInv
<1>2. CASE d \in Stale(m)
  <2>1. Telling(d, m) /\ ~open[d]
    BY <1>2 DEF MayTell, Stale
  <2>2. pc[d] = "try"
    BY <1>1, <2>1, TellingSteps
  <2>3. ASSUME Succeed(d), pc'[d] = "ack", current'[d] = m
        PROVE  FALSE
    <3>1. inbox'[d] = inbox[d] /\ m \notin ToSet(inbox[d])
      BY <1>1, <2>1, <2>3 DEF Succeed, HeldInv, ChannelOf, Telling
    <3> QED
      BY <1>1, <2>3, <3>1 DEF Pending
  <2>4. ASSUME pc'[d] = "down", inbox'[d] = << >>
        PROVE  FALSE
    BY <1>1, <2>4, NothingIn DEF Pending
  <2> QED
    BY <1>1, <2>1, <2>3, <2>4, TellingSteps
<1>3. CASE d \notin Stale(m)
  <2>1. Disconnect(d) /\ open[d] /\ Pending(d, m)
    BY <1>1, <1>3, StaleSteps
  <2>2. ~Telling(d, m)
    <3>1. ASSUME Telling(d, m)
          PROVE  FALSE
      <4>1. pc'[d] = pc[d]
        BY <2>1 DEF Disconnect, loop
      <4>2. pc[d] = "try" /\ inbox'[d] = inbox[d]
        BY <1>1, <2>1, <3>1, TellingSteps DEF Disconnect
      <4>3. unsaved' = unsaved + 1
        BY <1>1, <3>1, <4>1, <4>2, TellingSteps
      <4>4. unsaved' = unsaved
        <5>1. open'[d] # open[d]
          BY <1>1, <2>1
        <5>2. CASE \E c \in Consumers : SaveFails(c)
          BY <5>1, <5>2 DEF SaveFails, Fail, channel
        <5>3. CASE ~ \E c \in Consumers : SaveFails(c)
          BY <5>1, <5>3 DEF ServicesNext, Commit, Arrive, Notice, Loop, Die,
             Handle, Record, RecordFails, Notify, Notified, servicesVars
        <5> QED
          BY <5>2, <5>3
      <4> QED
        BY <4>3, <4>4 DEF TellInv, ServicesTypeInv, ServicesTypeOK
    <3> QED
      BY <3>1
  <2> QED
    BY <1>1, <2>1, <2>2
<1> QED
  BY <1>2, <1>3

\* What accounted for a telling goes with a connection that breaks, or with a
\* notification that was not saved.
LEMMA AccountedSteps ==
    ASSUME TellInv, [ServicesNext]_servicesVars, NEW m \in Messages,
           Accounted(m) = 1, Accounted(m)' # 1
    PROVE  \E c \in Consumers :
             /\ open[c]
             /\ \/ /\ Disconnect(c) \/ Crash(c)
                   /\ ~open'[c]
                   /\ Acking(c, m) \/ Telling(c, m)
                \/ /\ SaveFails(c) /\ Telling(c, m)
                   /\ unsaved' = unsaved + 1
<1>1. TypeInv /\ HeldInv /\ ServicesTypeInv /\ [Next]_vars
  BY TellTypes, StepsOfParts DEF TellInv
<1>2. m \notin acked' /\ m \notin acked
  BY <1>1, SettledSteps DEF Accounted
<1>3. PICK c \in Consumers : open[c] /\ (Acking(c, m) \/ Telling(c, m))
  BY <1>2 DEF Accounted
<1>4. ~(open'[c] /\ (Acking(c, m)' \/ Telling(c, m)'))
  BY <1>2, <1>3 DEF Accounted
<1>5. CASE Acking(c, m)
  <2>1. Counted(m) = 1
    BY <1>3, <1>5 DEF Counted
  <2>2. CASE Counted(m)' # 1
    BY <1>1, <2>1, <2>2, CountedSteps
  <2>3. CASE Counted(m)' = 1
    BY <1>2, <2>3 DEF Counted, Accounted
  <2> QED
    BY <2>2, <2>3
<1>6. CASE Telling(c, m)
  <2>1. pc[c] = "try" /\ open \in [Consumers -> BOOLEAN]
    BY <1>1, <1>6
       DEF Telling, ServicesTypeInv, ServicesTypeOK, TypeInv, TypeOK
  <2>2. CASE Disconnect(c) \/ Crash(c)
    <3>1. ~open'[c]
      BY <2>1, <2>2, Breaking
    <3> QED
      BY <1>3, <1>6, <2>2, <3>1
  <2>3. CASE ~(Disconnect(c) \/ Crash(c))
    <3>1. open'[c]
      BY <1>1, <1>3, <2>1, <2>3, OpenSteps DEF Return
    <3>2. ~Telling(c, m)' /\ ~(pc'[c] = "ack" /\ current'[c] = m)
      BY <1>4, <3>1 DEF Acking
    <3> QED
      BY <1>1, <1>3, <1>6, <2>3, <3>2, TellingSteps
  <2> QED
    BY <2>2, <2>3
<1> QED
  BY <1>3, <1>5, <1>6

\* A step that adds nobody who may tell of m and takes no telling back.
LEMMA NothingToldAgain ==
    ASSUME TellInv, NEW m \in Messages, MayTell(m)' \subseteq MayTell(m),
           Accounted(m) = 1 => Accounted(m)' = 1,
           told'[m] = told[m], cuts' = cuts, unsaved' \in Nat,
           unsaved' >= unsaved
    PROVE  TellBounded(m)'
<1>1. /\ IsFiniteSet(MayTell(m)') /\ Cardinality(MayTell(m)') \in Nat
      /\ Cardinality(MayTell(m)') <= Cardinality(MayTell(m))
  BY TellTypes, FS_Subset, FS_CardinalityType
<1> QED
  BY <1>1, TellTypes DEF TellBounded

\* One more element at most.
LEMMA OneMore ==
    ASSUME NEW S, IsFiniteSet(S), NEW c
    PROVE  /\ IsFiniteSet(S \union {c}) /\ Cardinality(S \union {c}) \in Nat
           /\ Cardinality(S) \in Nat
           /\ Cardinality(S \union {c}) <= Cardinality(S) + 1
<1>1. Cardinality(S) \in Nat
  BY FS_CardinalityType
<1>2. CASE c \in S
  <2>1. S \union {c} = S
    BY <1>2
  <2>2. IsFiniteSet(S \union {c}) /\ Cardinality(S \union {c}) = Cardinality(S)
    BY <2>1, Zenon
  <2> QED
    BY <1>1, <2>2
<1>3. CASE c \notin S
  BY <1>1, <1>3, FS_AddElement
<1> QED
  BY <1>2, <1>3

\* A cut or a failed Save adds one who may tell of m, or takes one telling of m
\* back.
LEMMA OneMorePaid ==
    ASSUME TellInv, NEW m \in Messages, NEW c \in Consumers,
           \/ MayTell(m)' \subseteq MayTell(m)
           \/ /\ MayTell(m)' \subseteq MayTell(m) \union {c}
              /\ Accounted(m) = 1 => Accounted(m)' = 1,
           told'[m] = told[m],
           \/ cuts' = cuts + 1 /\ unsaved' = unsaved
           \/ cuts' = cuts /\ unsaved' = unsaved + 1
    PROVE  TellBounded(m)'
<1> DEFINE more == MayTell(m) \union {c}
<1>1. /\ IsFiniteSet(more) /\ Cardinality(more) \in Nat
      /\ Cardinality(more) <= Cardinality(MayTell(m)) + 1
  BY TellTypes, OneMore
<1>2. CASE MayTell(m)' \subseteq MayTell(m)
  <2>1. /\ IsFiniteSet(MayTell(m)') /\ Cardinality(MayTell(m)') \in Nat
        /\ Cardinality(MayTell(m)') <= Cardinality(MayTell(m))
    BY <1>2, TellTypes, FS_Subset, FS_CardinalityType
  <2> QED
    BY <2>1, TellTypes DEF TellBounded
<1>3. CASE /\ MayTell(m)' \subseteq more
           /\ Accounted(m) = 1 => Accounted(m)' = 1
  <2>1. /\ IsFiniteSet(MayTell(m)') /\ Cardinality(MayTell(m)') \in Nat
        /\ Cardinality(MayTell(m)') <= Cardinality(more)
    BY <1>1, <1>3, FS_Subset, FS_CardinalityType
  <2> QED
    BY <1>1, <1>3, <2>1, TellTypes DEF TellBounded
<1> QED
  BY <1>2, <1>3

\* Send succeeds: its handler was to tell without holding the message, or the
\* message it holds had not been told of.
LEMMA NotifyBounded ==
    ASSUME TellInv, NEW c \in Consumers, Notify(c), NEW m \in Messages,
           told'[m] # told[m]
    PROVE  TellBounded(m)'
<1>1. /\ UNCHANGED <<pc, current, open, inbox, frames, acked, cuts, unsaved>>
      /\ pc[c] = "try" /\ draft[c] = "none"
      /\ \A d \in Consumers \ {c} : draft'[d] = draft[d]
      /\ m = current[c] /\ draft'[c] = "sent" /\ told'[m] = told[m] + 1
  BY DEF Notify, vars, TellInv, ServicesTypeInv, ServicesTypeOK
<1>2. TypeInv /\ HeldInv /\ InOnePlace /\ ChannelOf(c) /\ m # 0
  BY TellTypes DEF HeldInv, Messages
<1>3. MayTell(m)' = MayTell(m) \ {c}
  <2>1. Stale(m)' = Stale(m)
    BY <1>1 DEF Stale, Pending
  <2>2. \A d \in Consumers : Telling(d, m)' <=> d = c \/ Telling(d, m)
    BY <1>1 DEF Telling
  <2>3. Stale(m) \subseteq Consumers
    BY DEF Stale
  <2> QED
    BY <2>1, <2>2, <2>3 DEF MayTell
<1>4. /\ IsFiniteSet(MayTell(m)')
      /\ Cardinality(MayTell(m)') =
           IF c \in MayTell(m) THEN Cardinality(MayTell(m)) - 1
                               ELSE Cardinality(MayTell(m))
  <2>1. IsFiniteSet(MayTell(m))
    BY TellTypes
  <2> QED
    BY <1>3, <2>1, FS_RemoveElement
<1>5. CASE open[c]
  <2>1. m \in held[c] /\ m \notin Written(c)
    BY <1>1, <1>2, <1>5 DEF ChannelOf
  <2>2. Accounted(m) = 0
    <3>1. m \notin acked /\ \A d \in Consumers \ {c} : m \notin held[d]
      BY <1>2, <2>1 DEF InOnePlace, Settled
    <3>2. ASSUME NEW d \in Consumers, open[d], Acking(d, m) \/ Telling(d, m)
          PROVE  FALSE
      <4>1. m \in {current[d]} \union Written(d)
        BY <3>2 DEF Acking, Telling, Written
      <4>2. held[d] = (ToSet(inbox[d]) \union {current[d]}
                         \union Written(d)) \ {0}
        BY <1>2, <3>2 DEF HeldInv, ChannelOf
      <4>3. d = c
        BY <1>2, <3>1, <4>1, <4>2
      <4> QED
        BY <1>1, <2>1, <3>2, <4>3 DEF Acking, Telling, Written
    <3> QED
      BY <3>1, <3>2 DEF Accounted
  <2>3. Accounted(m)' = 1
    BY <1>1, <1>5 DEF Accounted, Telling
  <2>4. c \notin MayTell(m)
    BY <1>5 DEF MayTell, Stale
  <2> QED
    BY <1>1, <1>4, <2>2, <2>3, <2>4, TellTypes DEF TellBounded
<1>6. CASE ~open[c]
  <2>1. c \in MayTell(m)
    BY <1>1, <1>6 DEF MayTell, Stale, Pending, Telling
  <2>2. Accounted(m) = 1 => Accounted(m)' = 1
    BY <1>1 DEF Accounted, Acking, Telling
  <2> QED
    BY <1>1, <1>4, <2>1, <2>2, TellTypes DEF TellBounded
<1> QED
  BY <1>5, <1>6

\* A connection breaks.
LEMMA CutTellBounded ==
    ASSUME TellInv, [ServicesNext]_servicesVars, NEW m \in Messages,
           NEW c \in Consumers, Disconnect(c) \/ Crash(c),
           told'[m] = told[m]
    PROVE  TellBounded(m)'
<1>1. /\ TypeInv /\ HeldInv /\ cuts' = cuts + 1 /\ cuts \in Nat
      /\ ServicesTypeInv
  BY TellTypes, Breaking DEF TellInv
<1>2. unsaved' = unsaved
  BY <1>1 DEF ServicesNext, Commit, Arrive, Notice, Loop, Die, Handle, Record,
     RecordFails, Notify, Notified, SaveFails, Fail, servicesVars
<1>3. unsaved \in Nat
  BY TellTypes
<1>4. ASSUME NEW d \in MayTell(m)', d \notin MayTell(m)
      PROVE  d = c /\ Pending(c, m) /\ ~Telling(c, m)
  <2>1. /\ d \in Consumers /\ open[d] /\ ~open'[d]
        /\ Pending(d, m) /\ ~Telling(d, m)
    BY <1>2, <1>3, <1>4, MayTellSteps
  <2> QED
    BY <1>1, <2>1, OneBreaks
<1>5. CASE Accounted(m) = 1 /\ Accounted(m)' # 1
  <2>1. PICK d \in Consumers : /\ open[d] /\ ~open'[d]
                               /\ Acking(d, m) \/ Telling(d, m)
    BY <1>2, <1>3, <1>5, AccountedSteps
  <2>2. d = c
    BY <1>1, <2>1, OneBreaks
  <2>3. MayTell(m)' \subseteq MayTell(m)
    BY <1>1, <1>4, <2>1, <2>2, AckingIsOver
  <2> QED
    BY <1>1, <1>2, <2>3, OneMorePaid
<1>6. CASE ~(Accounted(m) = 1 /\ Accounted(m)' # 1)
  <2>1. MayTell(m)' \subseteq MayTell(m) \union {c}
    BY <1>4
  <2>2. Accounted(m) = 1 => Accounted(m)' = 1
    BY <1>6
  <2> QED
    BY <1>1, <1>2, <2>1, <2>2, OneMorePaid
<1> QED
  BY <1>5, <1>6

\* A notification that was sent is not saved.
LEMMA UnsavedBounded ==
    ASSUME TellInv, [ServicesNext]_servicesVars, NEW m \in Messages,
           NEW c \in Consumers, SaveFails(c), unsaved' = unsaved + 1
    PROVE  TellBounded(m)'
<1>1. /\ told' = told /\ cuts' = cuts /\ cuts \in Nat /\ open' = open
      /\ draft'[c] = "none" /\ pc[c] = "try"
      /\ \A d \in Consumers \ {c} : draft'[d] = draft[d] /\ pc'[d] = pc[d]
      /\ UNCHANGED <<current, inbox, frames, acked>>
  BY TellTypes DEF SaveFails, Fail, TellInv, ServicesTypeInv, ServicesTypeOK,
                   TypeInv, TypeOK
<1>2. ASSUME NEW d \in MayTell(m)', d \notin MayTell(m)
      PROVE  d = c /\ ~open[c]
  <2>1. d \in Consumers /\ ~open[d]
    BY <1>1, <1>2 DEF MayTell, Stale
  <2>2. d # c => (d \in MayTell(m)' <=> d \in MayTell(m))
    BY <1>1, <2>1 DEF MayTell, Stale, Pending, Telling
  <2> QED
    BY <1>2, <2>1, <2>2
<1>3. CASE open[c]
  <2>1. MayTell(m)' \subseteq MayTell(m)
    BY <1>2, <1>3
  <2> QED
    BY <1>1, <2>1, OneMorePaid
<1>4. CASE ~open[c]
  <2>1. MayTell(m)' \subseteq MayTell(m) \union {c}
    BY <1>2
  <2>2. Accounted(m) = 1 => Accounted(m)' = 1
    BY <1>1, <1>4 DEF Accounted, Acking, Telling
  <2> QED
    BY <1>1, <2>1, <2>2, OneMorePaid
<1> QED
  BY <1>3, <1>4

LEMMA TellInvNext == TellInv /\ [ServicesNext]_servicesVars => TellInv'
<1> SUFFICES ASSUME TellInv, [ServicesNext]_servicesVars
             PROVE  TellInv'
  OBVIOUS
<1>1. PlaceInv' /\ [Next]_vars
  BY StepsOfParts, PlaceInvNext DEF TellInv
<1>2. ServicesTypeInv /\ ServicesTypeInv'
  BY ServicesTypeInvNext DEF TellInv
<1> SUFFICES ASSUME NEW m \in Messages
             PROVE  TellBounded(m)'
  BY <1>1, <1>2 DEF TellInv
<1>3. CASE told'[m] # told[m]
  BY <1>2, <1>3, TellSteps, NotifyBounded
<1>4. CASE told'[m] = told[m] /\ \E c \in Consumers : Disconnect(c) \/ Crash(c)
  BY <1>4, CutTellBounded
<1>5. CASE \E c \in Consumers : SaveFails(c) /\ unsaved' = unsaved + 1
  BY <1>5, UnsavedBounded
<1>6. CASE /\ told'[m] = told[m]
           /\ ~ \E c \in Consumers : Disconnect(c) \/ Crash(c)
           /\ ~ \E c \in Consumers : SaveFails(c) /\ unsaved' = unsaved + 1
  <2>1. cuts' = cuts
    BY <1>1, <1>2, <1>6, CutSteps DEF ServicesTypeInv
  <2>2. unsaved' \in Nat /\ unsaved' >= unsaved
    BY <1>2 DEF ServicesTypeInv, ServicesTypeOK, ServicesNext, Commit, Arrive,
       Notice, Loop, Die, Handle, Record, RecordFails, Notify, Notified,
       SaveFails, servicesVars
  <2>3. MayTell(m)' \subseteq MayTell(m)
    BY <1>6, MayTellSteps
  <2>4. Accounted(m) = 1 => Accounted(m)' = 1
    BY <1>6, AccountedSteps
  <2> QED
    BY <1>6, <2>1, <2>2, <2>3, <2>4, NothingToldAgain
<1> QED
  BY <1>3, <1>4, <1>5, <1>6

\* The customer hears of a message again only for a crash, a lost connection or
\* a notification that could not be saved: with any number of processes, and
\* handlers that outlive their connection beside those of the redelivery.
THEOREM TellingAgainNeedsAFault == ServicesSpec => []TellsWithinPolicy
<1>1. ServicesInit => TellInv
  <2> SUFFICES ASSUME ServicesInit
               PROVE  TellInv
    OBVIOUS
  <2>1. PlaceInv /\ ServicesTypeInv
    BY PlaceInvInit, ServicesTypeInvInit DEF ServicesInit
  <2>2. ASSUME NEW m \in Messages
        PROVE  TellBounded(m)
    <3>1. /\ \A c \in Consumers : ~Pending(c, m)
          /\ told[m] = 0 /\ cuts = 0 /\ unsaved = 0
          /\ Accounted(m) \in {0, 1}
      BY NothingIn DEF ServicesInit, Init, Pending, Accounted
    <3>2. MayTell(m) = {}
      BY <3>1 DEF MayTell, Stale
    <3> QED
      BY <3>1, <3>2, FS_EmptySet DEF TellBounded
  <2> QED
    BY <2>1, <2>2 DEF TellInv
<1>2. TellInv => TellsWithinPolicy
  <2> SUFFICES ASSUME TellInv, NEW m \in Messages
               PROVE  told[m] <= 1 + cuts + unsaved
    BY DEF TellsWithinPolicy
  <2> QED
    BY TellTypes
<1> QED
  BY <1>1, <1>2, TellInvNext, PTL DEF ServicesSpec
=============================================================================
