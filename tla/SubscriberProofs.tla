--------------------------- MODULE SubscriberProofs ---------------------------
(***************************************************************************)
(* Proofs about Subscriber for any number of messages, consumers, retries, *)
(* cuts and shutdowns, and any prefetch.                                   *)
(***************************************************************************)
EXTENDS Subscriber, TLAPS, FiniteSetTheorems, WellFoundedInduction

USE DEF queue, channel, loop, history, bounds, Goto

-----------------------------------------------------------------------------
(***************************************************************************)
(* Sequences of distinct elements.                                         *)
(***************************************************************************)

Distinct(s) == \A i, j \in 1 .. Len(s) : s[i] = s[j] => i = j

LEMMA Appending ==
    ASSUME NEW S, NEW s \in Seq(S), NEW x \in S
    PROVE  /\ Append(s, x) \in Seq(S) /\ Append(s, x) # << >>
           /\ ToSet(Append(s, x)) = ToSet(s) \union {x}
           /\ Distinct(s) /\ x \notin ToSet(s) => Distinct(Append(s, x))
<1>1. /\ Append(s, x) \in Seq(S) /\ Len(Append(s, x)) = Len(s) + 1
      /\ Len(s) \in Nat /\ DOMAIN s = 1 .. Len(s)
      /\ DOMAIN Append(s, x) = 1 .. Len(s) + 1
      /\ Append(s, x)[Len(s) + 1] = x
      /\ \A i \in 1 .. Len(s) : Append(s, x)[i] = s[i]
  OBVIOUS
<1>2. \A i \in 1 .. Len(s) + 1 : i = Len(s) + 1 \/ i \in 1 .. Len(s)
  BY <1>1
<1>3. ToSet(Append(s, x)) = ToSet(s) \union {x}
  BY <1>1, <1>2 DEF ToSet
<1>4. Distinct(s) /\ x \notin ToSet(s) => Distinct(Append(s, x))
  BY <1>1, <1>2 DEF ToSet, Distinct
<1>5. Append(s, x) # << >>
  BY <1>1
<1> QED
  BY <1>1, <1>3, <1>4, <1>5

LEMMA TakingHead ==
    ASSUME NEW S, NEW s \in Seq(S), s # << >>
    PROVE  /\ Head(s) \in S /\ Head(s) \in ToSet(s) /\ Tail(s) \in Seq(S)
           /\ ToSet(s) = {Head(s)} \union ToSet(Tail(s))
           /\ Distinct(s) => Distinct(Tail(s)) /\ Head(s) \notin ToSet(Tail(s))
<1>1. /\ Len(s) \in Nat \ {0} /\ DOMAIN s = 1 .. Len(s) /\ Head(s) = s[1]
      /\ Tail(s) \in Seq(S) /\ Len(Tail(s)) = Len(s) - 1
      /\ DOMAIN Tail(s) = 1 .. Len(s) - 1
      /\ \A i \in 1 .. Len(s) - 1 : Tail(s)[i] = s[i + 1]
  OBVIOUS
<1>2. \A i \in 1 .. Len(s) : i = 1 \/ (i - 1 \in 1 .. Len(s) - 1
                                         /\ s[i] = Tail(s)[i - 1])
  BY <1>1
<1>3. 1 \in 1 .. Len(s) /\ s[1] \in S
  BY <1>1
<1>4. \A i \in 1 .. Len(s) - 1 : i + 1 \in 1 .. Len(s) /\ i + 1 # 1
  BY <1>1
<1>5. ToSet(s) = {Head(s)} \union ToSet(Tail(s))
  <2>1. ASSUME NEW x \in ToSet(s)
        PROVE  x = Head(s) \/ x \in ToSet(Tail(s))
    <3>1. PICK i \in 1 .. Len(s) : x = s[i]
      BY <1>1, <2>1 DEF ToSet
    <3> QED
      BY <1>1, <1>2, <3>1 DEF ToSet
  <2>2. ASSUME NEW x \in ToSet(Tail(s))
        PROVE  x \in ToSet(s)
    <3>1. PICK i \in 1 .. Len(s) - 1 : x = Tail(s)[i]
      BY <1>1, <2>2 DEF ToSet
    <3> QED
      BY <1>1, <1>4, <3>1 DEF ToSet
  <2>3. Head(s) \in ToSet(s)
    BY <1>1, <1>3 DEF ToSet
  <2> QED
    BY <2>1, <2>2, <2>3
<1>6. ASSUME Distinct(s)
      PROVE  Distinct(Tail(s)) /\ Head(s) \notin ToSet(Tail(s))
  <2>1. ASSUME NEW i \in 1 .. Len(s) - 1, NEW j \in 1 .. Len(s) - 1,
               Tail(s)[i] = Tail(s)[j]
        PROVE  i = j
    <3>1. i + 1 = j + 1
      BY <1>1, <1>4, <1>6, <2>1 DEF Distinct
    <3> QED
      BY <3>1, <1>1
  <2>2. ASSUME NEW i \in 1 .. Len(s) - 1
        PROVE  Tail(s)[i] # Head(s)
    BY <1>1, <1>3, <1>4, <1>6 DEF Distinct
  <2> QED
    BY <1>1, <2>1, <2>2 DEF Distinct, ToSet
<1> QED
  BY <1>1, <1>3, <1>5, <1>6

LEMMA WiderSeq ==
    ASSUME NEW S, NEW T, S \subseteq T, NEW s \in Seq(S)
    PROVE  s \in Seq(T)
<1>1. Len(s) \in Nat /\ s \in [1 .. Len(s) -> S]
  OBVIOUS
<1>2. s \in [1 .. Len(s) -> T]
  BY <1>1
<1> QED
  BY <1>1, <1>2 DEF Seq

LEMMA ElementsOf ==
    ASSUME NEW S, NEW s \in Seq(S)
    PROVE  ToSet(s) \subseteq S
<1>1. Len(s) \in Nat /\ \A i \in DOMAIN s : s[i] \in S
  OBVIOUS
<1> QED
  BY <1>1 DEF ToSet

LEMMA NothingIn == ToSet(<< >>) = {} /\ Distinct(<< >>)
BY DEF ToSet, Distinct

-----------------------------------------------------------------------------
(***************************************************************************)
(* Types.                                                                  *)
(***************************************************************************)

\* The first of some messages is one of them, and none comes before it.
LEMMA FirstIsLeast ==
    ASSUME NEW messages \in SUBSET Nat, messages # {}
    PROVE  First(messages) \in messages
             /\ \A n \in messages : First(messages) <= n
<1>1. PICK m \in messages : \A n \in messages : ~ (<<n, m>> \in OpToRel(<, Nat))
  BY NatLessThanWellFounded, WFMin
<1>2. \A n \in messages : m <= n
  <2> TAKE n \in messages
  <2>1. <<n, m>> \in Nat \X Nat /\ ~ (n < m)
    BY <1>1 DEF OpToRel
  <2> QED
    BY <2>1
<1> QED
  BY <1>2 DEF First

\* A consumer is at a message exactly while it handles one, and has tries left
\* while it may run the handler again.
LoopInv ==
    \A c \in Consumers :
        /\ current[c] # 0 <=> pc[c] \in {"try", "wait", "ack", "nack"}
        /\ pc[c] \in {"try", "wait"} => tries[c] <= MaxRetries

TypeInv == TypeOK /\ LoopInv

LEMMA TypeInvInit == Init => TypeInv
BY BoundsAssumption DEF Init, TypeInv, TypeOK, LoopInv, Messages

\* The message at the head of the queue, of an inbox, and of what was written.
LEMMA FirstReady ==
    ASSUME TypeInv, ready # {}
    PROVE  /\ First(ready) \in ready /\ First(ready) \in 1 .. sent
           /\ \A n \in ready : First(ready) <= n
<1>1. ready \in SUBSET (1 .. sent) /\ ready \in SUBSET Nat
  BY BoundsAssumption DEF TypeInv, TypeOK
<1> QED
  BY <1>1, FirstIsLeast

LEMMA NextTaken ==
    ASSUME TypeInv, NEW c \in Consumers, inbox[c] # << >>
    PROVE  /\ Head(inbox[c]) \in 1 .. sent /\ Head(inbox[c]) \in Messages
           /\ Tail(inbox[c]) \in Seq(1 .. sent)
           /\ ToSet(inbox[c]) = {Head(inbox[c])} \union ToSet(Tail(inbox[c]))
           /\ Distinct(inbox[c]) =>
                /\ Distinct(Tail(inbox[c]))
                /\ Head(inbox[c]) \notin ToSet(Tail(inbox[c]))
<1>1. inbox[c] \in Seq(1 .. sent) /\ 1 .. sent \subseteq Messages
  BY BoundsAssumption DEF TypeInv, TypeOK, Messages
<1> QED
  BY <1>1, TakingHead

LEMMA FrameRead ==
    ASSUME TypeInv, NEW c \in Consumers, frames[c] # << >>
    PROVE  /\ Head(frames[c]) \in Frames /\ Head(frames[c]) \in ToSet(frames[c])
           /\ Tail(frames[c]) \in Seq(Frames)
           /\ ToSet(frames[c]) = {Head(frames[c])} \union ToSet(Tail(frames[c]))
           /\ Distinct(frames[c]) =>
                /\ Distinct(Tail(frames[c]))
                /\ Head(frames[c]) \notin ToSet(Tail(frames[c]))
<1>1. frames[c] \in Seq(Frames)
  BY DEF TypeInv, TypeOK
<1> QED
  BY <1>1, TakingHead

\* Who is at a message is at one that has arrived.
LEMMA CurrentArrived ==
    ASSUME TypeInv, NEW c \in Consumers, current[c] # 0
    PROVE  current[c] \in 1 .. sent /\ current[c] \in Messages
<1>1. current[c] \in 0 .. sent /\ sent \in 0 .. MaxMessages
  BY DEF TypeInv, TypeOK
<1> QED
  BY <1>1, BoundsAssumption DEF Messages

\* What a lost connection and a crash have in common.
LEMMA Breaking ==
    ASSUME NEW c \in Consumers, Disconnect(c) \/ Crash(c)
    PROVE  /\ UNCHANGED <<sent, ready, acked, dead, stops, tries, stopping,
                          handled>>
           /\ cuts < MaxCuts /\ cuts' = cuts + 1
           /\ open' = [open EXCEPT ![c] = FALSE]
           /\ frames' = [frames EXCEPT ![c] = << >>]
           /\ held' = [held EXCEPT ![c] = {}]
           /\ lost' = lost \union ({held[c]} \ {{}})
           /\ cutOff' = cutOff \union held[c]
           /\ \/ UNCHANGED <<pc, current, inbox>>
              \/ /\ pc' = [pc EXCEPT ![c] = "down"]
                 /\ current' = [current EXCEPT ![c] = 0]
                 /\ inbox' = [inbox EXCEPT ![c] = << >>]
<1>1. CASE Disconnect(c)
  BY <1>1 DEF Disconnect, Break
<1>2. CASE Crash(c)
  BY <1>2 DEF Crash, Break
<1> QED
  BY <1>1, <1>2

\* A connection that breaks keeps the types.
LEMMA BreakKeepsTypes ==
    ASSUME TypeInv, NEW c \in Consumers, Disconnect(c) \/ Crash(c)
    PROVE  TypeInv'
<1>1. << >> \in Seq(Frames) /\ << >> \in Seq(1 .. sent) /\ Frames' = Frames
  BY Breaking DEF Frames
<1>2. /\ held' \in [Consumers -> SUBSET (1 .. sent)]
      /\ lost' \in SUBSET SUBSET (1 .. sent)
      /\ open' \in [Consumers -> BOOLEAN]
      /\ cutOff' \in SUBSET (1 .. sent)
      /\ frames' \in [Consumers -> Seq(Frames)]
  <2>1. /\ held \in [Consumers -> SUBSET (1 .. sent)]
        /\ lost \in SUBSET SUBSET (1 .. sent)
        /\ open \in [Consumers -> BOOLEAN]
        /\ cutOff \in SUBSET (1 .. sent)
        /\ frames \in [Consumers -> Seq(Frames)]
    BY DEF TypeInv, TypeOK
  <2>2. /\ open' = [open EXCEPT ![c] = FALSE]
        /\ frames' = [frames EXCEPT ![c] = << >>]
        /\ held' = [held EXCEPT ![c] = {}]
        /\ lost' = lost \union ({held[c]} \ {{}})
        /\ cutOff' = cutOff \union held[c]
    BY Breaking
  <2> HIDE DEF Frames
  <2>3. held[c] \in SUBSET (1 .. sent)
    BY <2>1
  <2>4. lost' \in SUBSET SUBSET (1 .. sent) /\ cutOff' \in SUBSET (1 .. sent)
    BY <2>1, <2>2, <2>3
  <2>5. /\ held' \in [Consumers -> SUBSET (1 .. sent)]
        /\ open' \in [Consumers -> BOOLEAN]
    BY <2>1, <2>2
  <2>6. frames' \in [Consumers -> Seq(Frames)]
    BY <1>1, <2>1, <2>2
  <2> QED
    BY <2>4, <2>5, <2>6
<1>3. /\ inbox \in [Consumers -> Seq(1 .. sent)]
      /\ pc \in [Consumers -> {"down", "select", "try", "wait", "ack", "nack"}]
      /\ current \in [Consumers -> 0 .. sent] /\ 0 \in 0 .. sent
      /\ LoopInv
  BY BoundsAssumption DEF TypeInv, TypeOK
<1>4. /\ inbox' \in [Consumers -> Seq(1 .. sent)]
      /\ pc' \in [Consumers ->
                   {"down", "select", "try", "wait", "ack", "nack"}]
      /\ current' \in [Consumers -> 0 .. sent]
      /\ LoopInv'
  <2>1. CASE UNCHANGED <<pc, current, inbox>>
    BY <1>3, <2>1, Breaking DEF LoopInv
  <2>2. CASE /\ pc' = [pc EXCEPT ![c] = "down"]
             /\ current' = [current EXCEPT ![c] = 0]
             /\ inbox' = [inbox EXCEPT ![c] = << >>]
    <3>1. /\ inbox' \in [Consumers -> Seq(1 .. sent)]
          /\ pc' \in [Consumers ->
                       {"down", "select", "try", "wait", "ack", "nack"}]
          /\ current' \in [Consumers -> 0 .. sent]
      BY <1>1, <1>3, <2>2
    <3>2. tries' = tries
      BY Breaking
    <3> QED
      BY <1>3, <2>2, <3>1, <3>2 DEF LoopInv
  <2> QED
    BY <2>1, <2>2, Breaking
<1>5. cuts' \in 0 .. MaxCuts
  BY Breaking, BoundsAssumption DEF TypeInv, TypeOK
<1>6. UNCHANGED <<sent, ready, acked, dead, stops, tries, stopping, handled>>
  BY Breaking
<1> QED
  BY <1>1, <1>2, <1>4, <1>5, <1>6 DEF TypeInv, TypeOK

LEMMA AnswerKeepsTypes ==
    ASSUME TypeInv, NEW c \in Consumers, Ack(c) \/ Nack(c)
    PROVE  TypeInv'
<1>1. PICK verdict \in {"ack", "nack"} : Answer(c, verdict) /\ pc[c] = verdict
  BY DEF Ack, Nack
<1>2. current[c] \in 1 .. sent /\ Frames' = Frames
  BY <1>1, CurrentArrived DEF TypeInv, LoopInv, Answer, Frames
<1>3. frames' \in [Consumers -> Seq(Frames)]
  <2>1. Append(frames[c], <<verdict, current[c]>>) \in Seq(Frames)
    <3>1. <<verdict, current[c]>> \in Frames /\ frames[c] \in Seq(Frames)
      BY <1>2 DEF Frames, TypeInv, TypeOK
    <3> QED
      BY <3>1, Appending
  <2> QED
    BY <1>1, <2>1 DEF Answer, TypeInv, TypeOK
<1>4. /\ current' = [current EXCEPT ![c] = 0]
      /\ pc' = [pc EXCEPT ![c] = "select"]
      /\ UNCHANGED <<sent, ready, held, lost, acked, dead, open, inbox, tries,
                     stopping, handled, cutOff, cuts, stops>>
  BY <1>1 DEF Answer
<1>5. LoopInv' /\ current' \in [Consumers -> 0 .. sent]
  BY <1>4, BoundsAssumption DEF TypeInv, TypeOK, LoopInv
<1> QED
  BY <1>2, <1>3, <1>4, <1>5 DEF TypeInv, TypeOK

LEMMA TypeInvNext == TypeInv /\ [Next]_vars => TypeInv'
<1> SUFFICES ASSUME TypeInv, [Next]_vars
             PROVE  TypeInv'
  OBVIOUS
<1> USE BoundsAssumption DEF TypeInv, TypeOK, LoopInv, Frames
<1>1. CASE Receive
  <2>1. /\ sent \in Nat /\ sent' = sent + 1 /\ sent' \in 0 .. MaxMessages
        /\ ready' = ready \union {sent + 1}
        /\ UNCHANGED <<held, lost, acked, dead, open, inbox, frames, pc,
                       current, tries, stopping, handled, cutOff, cuts, stops>>
    BY <1>1 DEF Receive
  <2>2. 1 .. sent \subseteq 1 .. sent' /\ 0 .. sent \subseteq 0 .. sent'
        /\ sent + 1 \in 1 .. sent'
    BY <2>1
  <2>3. /\ inbox' \in [Consumers -> Seq(1 .. sent')]
        /\ frames' \in [Consumers -> Seq(Frames')]
    <3>1. Frames \subseteq Frames'
      BY <2>1, <2>2 DEF Frames
    <3>2. ASSUME NEW s \in Seq(1 .. sent)
          PROVE  s \in Seq(1 .. sent')
      BY <2>2, WiderSeq
    <3>3. ASSUME NEW s \in Seq(Frames)
          PROVE  s \in Seq(Frames')
      BY <3>1, WiderSeq
    <3> HIDE DEF Frames
    <3> QED
      BY <2>1, <3>2, <3>3
  <2>4. /\ held' \in [Consumers -> SUBSET (1 .. sent')]
        /\ lost' \in SUBSET SUBSET (1 .. sent')
        /\ current' \in [Consumers -> 0 .. sent']
    BY <2>1, <2>2
  <2> QED
    BY <2>1, <2>2, <2>3, <2>4
<1>2. ASSUME NEW c \in Consumers, Deliver(c)
      PROVE  TypeInv'
  <2>1. First(ready) \in 1 .. sent
    BY <1>2, FirstReady DEF Deliver
  <2>2. inbox' \in [Consumers -> Seq(1 .. sent)]
    <3>1. Append(inbox[c], First(ready)) \in Seq(1 .. sent)
      BY <2>1, Appending
    <3> QED
      BY <1>2, <3>1 DEF Deliver
  <2>3. /\ ready' \in SUBSET (1 .. sent)
        /\ held' \in [Consumers -> SUBSET (1 .. sent)]
    BY <1>2, <2>1 DEF Deliver
  <2> QED
    BY <1>2, <2>2, <2>3 DEF Deliver
<1>3. ASSUME NEW c \in Consumers, Settle(c)
      PROVE  TypeInv'
  <2> DEFINE m == Head(frames[c])[2]
  <2>1. frames' \in [Consumers -> Seq(Frames)] /\ Frames' = Frames
    BY <1>3, FrameRead DEF Settle, Frames
  <2>2. held' = [held EXCEPT ![c] = @ \ {m}]
    BY <1>3 DEF Settle
  <2>3. m \in 1 .. sent
    BY <1>3, FrameRead DEF Settle, Frames
  <2>4. acked' \subseteq acked \union {m} /\ dead' \subseteq dead \union {m}
    BY <1>3 DEF Settle
  <2>5. UNCHANGED <<sent, ready, lost, open, inbox, pc, current, tries,
                   stopping, handled, cutOff, cuts, stops>>
    BY <1>3 DEF Settle
  <2> HIDE DEF m
  <2>6. /\ acked' \in SUBSET (1 .. sent) /\ dead' \in SUBSET (1 .. sent)
        /\ held' \in [Consumers -> SUBSET (1 .. sent)]
    BY <2>2, <2>3, <2>4
  <2> QED
    BY <2>1, <2>5, <2>6
<1>4. ASSUME NEW c \in Consumers, Start(c)
      PROVE  TypeInv'
  BY <1>4 DEF Start
<1>5. ASSUME NEW c \in Consumers, Take(c)
      PROVE  TypeInv'
  <2>1. Head(inbox[c]) \in 1 .. sent /\ Tail(inbox[c]) \in Seq(1 .. sent)
    BY <1>5, NextTaken DEF Take
  <2>2. /\ inbox' \in [Consumers -> Seq(1 .. sent)]
        /\ current' \in [Consumers -> 0 .. sent]
        /\ tries' \in [Consumers -> 0 .. MaxRetries + 1]
        /\ pc' \in [Consumers ->
                     {"down", "select", "try", "wait", "ack", "nack"}]
    BY <1>5, <2>1 DEF Take
  <2>3. LoopInv'
    BY <1>5, <2>1 DEF Take
  <2>4. UNCHANGED <<queue, open, frames, stopping, history, bounds>>
    BY <1>5 DEF Take
  <2> QED
    BY <2>2, <2>3, <2>4 DEF Frames
<1>6. ASSUME NEW c \in Consumers, Return(c)
      PROVE  TypeInv'
  <2>1. << >> \in Seq(1 .. sent)
    OBVIOUS
  <2> QED
    BY <1>6, <2>1 DEF Return
<1>7. ASSUME NEW c \in Consumers, Succeed(c)
      PROVE  TypeInv'
  <2>1. current[c] \in Messages
    BY <1>7, CurrentArrived DEF Succeed
  <2>2. handled' \in [Messages -> Nat]
    BY <1>7, <2>1 DEF Succeed
  <2>3. tries' \in [Consumers -> 0 .. MaxRetries + 1] /\ LoopInv'
    BY <1>7 DEF Succeed
  <2> QED
    BY <1>7, <2>2, <2>3 DEF Succeed, Frames
<1>8. ASSUME NEW c \in Consumers, Fail(c)
      PROVE  TypeInv'
  BY <1>8 DEF Fail
<1>9. ASSUME NEW c \in Consumers, Wake(c) \/ GiveUp(c)
      PROVE  TypeInv'
  BY <1>9 DEF Wake, GiveUp
<1>10. ASSUME NEW c \in Consumers, Ack(c) \/ Nack(c)
       PROVE  TypeInv'
  BY <1>10, AnswerKeepsTypes
<1>11. ASSUME NEW c \in Consumers, Stop(c)
       PROVE  TypeInv'
  BY <1>11 DEF Stop
<1>12. ASSUME NEW c \in Consumers, Disconnect(c) \/ Crash(c)
       PROVE  TypeInv'
  BY <1>12, BreakKeepsTypes
<1>13. ASSUME NEW messages \in lost, Requeue(messages)
       PROVE  TypeInv'
  BY <1>13 DEF Requeue
<1>14. CASE UNCHANGED vars
  BY <1>14 DEF vars
<1> QED
  BY <1>1, <1>2, <1>3, <1>4, <1>5, <1>6, <1>7, <1>8, <1>9, <1>10, <1>11,
     <1>12, <1>13, <1>14 DEF Next, Step

-----------------------------------------------------------------------------
(***************************************************************************)
(* What a consumer holds: the deliveries it has not taken, the message it  *)
(* is at, and those whose frame the broker has not read.                   *)
(***************************************************************************)

Written(c) == {f[2] : f \in ToSet(frames[c])}

ChannelOf(c) ==
    /\ Distinct(inbox[c]) /\ current[c] \notin ToSet(inbox[c])
    /\ Distinct(frames[c])
    /\ \A f, g \in ToSet(frames[c]) : f[2] = g[2] => f = g
    /\ Written(c) \intersect (ToSet(inbox[c]) \union {current[c]}) = {}
    /\ held[c] = IF open[c]
                 THEN (ToSet(inbox[c]) \union {current[c]} \union Written(c))
                        \ {0}
                 ELSE {}
    /\ ~open[c] => frames[c] = << >>
    /\ pc[c] = "down" => ~open[c] /\ inbox[c] = << >>

LEMMA SameChannel ==
    ASSUME NEW c \in Consumers, ChannelOf(c),
           open'[c] = open[c], inbox'[c] = inbox[c], frames'[c] = frames[c],
           held'[c] = held[c], current'[c] = current[c],
           pc'[c] = "down" => pc[c] = "down"
    PROVE  ChannelOf(c)'
BY DEF ChannelOf, Written

\* Who is not at a frame is not among those written, and 0 is no message.
LEMMA OnlyMessages ==
    ASSUME TypeInv, NEW c \in Consumers
    PROVE  /\ ToSet(inbox[c]) \subseteq 1 .. sent
           /\ ToSet(frames[c]) \subseteq Frames
           /\ Written(c) \subseteq 1 .. sent
           /\ 0 \notin ToSet(inbox[c]) /\ 0 \notin Written(c)
           /\ frames[c] = << >> => Written(c) = {}
           /\ inbox[c] = << >> => ToSet(inbox[c]) = {}
<1>1. inbox[c] \in Seq(1 .. sent) /\ frames[c] \in Seq(Frames)
  BY DEF TypeInv, TypeOK
<1>2. ToSet(inbox[c]) \subseteq 1 .. sent /\ ToSet(frames[c]) \subseteq Frames
  BY <1>1, ElementsOf
<1>3. Written(c) \subseteq 1 .. sent
  BY <1>2 DEF Written, Frames
<1>4. 0 \notin 1 .. sent
  BY BoundsAssumption DEF TypeInv, TypeOK
<1> QED
  BY <1>2, <1>3, <1>4, NothingIn DEF Written

HeldInv == TypeInv /\ \A c \in Consumers : ChannelOf(c)

\* What the broker reads is held, and is the only frame of its message.
LEMMA ReadsHeld ==
    ASSUME HeldInv, NEW c \in Consumers, frames[c] # << >>
    PROVE  /\ Head(frames[c])[2] \in held[c]
           /\ Head(frames[c])[2] \in 1 .. sent
           /\ Head(frames[c])[1] \in {"ack", "nack"}
           /\ Written(c) = {Head(frames[c])[2]}
                             \union {f[2] : f \in ToSet(Tail(frames[c]))}
           /\ Head(frames[c])[2] \notin {f[2] : f \in ToSet(Tail(frames[c]))}
<1>1. TypeInv /\ ChannelOf(c)
  BY DEF HeldInv
<1>2. /\ Head(frames[c]) \in Frames /\ Head(frames[c]) \in ToSet(frames[c])
      /\ ToSet(frames[c]) = {Head(frames[c])} \union ToSet(Tail(frames[c]))
      /\ Head(frames[c]) \notin ToSet(Tail(frames[c]))
  BY <1>1, FrameRead DEF ChannelOf
<1>3. Written(c) = {Head(frames[c])[2]}
                     \union {f[2] : f \in ToSet(Tail(frames[c]))}
  BY <1>2 DEF Written
<1>4. Head(frames[c])[2] \notin {f[2] : f \in ToSet(Tail(frames[c]))}
  BY <1>1, <1>2 DEF ChannelOf
<1>5. Head(frames[c])[2] \in held[c]
  BY <1>1, <1>3, OnlyMessages DEF ChannelOf
<1> QED
  BY <1>2, <1>3, <1>4, <1>5 DEF Frames

LEMMA SettleKeepsChannel ==
    ASSUME HeldInv, NEW c \in Consumers, Settle(c)
    PROVE  ChannelOf(c)'
<1> DEFINE m == Head(frames[c])[2]
<1>1. /\ TypeInv /\ ChannelOf(c) /\ frames[c] # << >>
      /\ frames'[c] = Tail(frames[c]) /\ held'[c] = held[c] \ {m}
      /\ open'[c] = open[c] /\ inbox'[c] = inbox[c]
      /\ current'[c] = current[c] /\ pc'[c] = pc[c]
  BY DEF HeldInv, TypeInv, TypeOK, Settle
<1>2. /\ ToSet(frames[c]) = {Head(frames[c])} \union ToSet(Tail(frames[c]))
      /\ Distinct(Tail(frames[c]))
  BY <1>1, FrameRead DEF ChannelOf
<1>3. /\ Written(c) = {m} \union Written(c)' /\ m \notin Written(c)'
      /\ m \in held[c]
  BY <1>1, ReadsHeld DEF Written
<1>4. open[c]
  BY <1>1, <1>3 DEF ChannelOf
<1>5. m \notin ToSet(inbox[c]) /\ m # current[c]
  BY <1>1, <1>3 DEF ChannelOf
<1> HIDE DEF m
<1>6. held'[c] = (ToSet(inbox'[c]) \union {current'[c]} \union Written(c)')
                   \ {0}
  BY <1>1, <1>3, <1>4, <1>5 DEF ChannelOf
<1>7. Written(c)' \intersect (ToSet(inbox'[c]) \union {current'[c]}) = {}
  BY <1>1, <1>3 DEF ChannelOf
<1>8. /\ Distinct(inbox'[c]) /\ current'[c] \notin ToSet(inbox'[c])
      /\ Distinct(frames'[c])
      /\ \A f, g \in ToSet(frames'[c]) : f[2] = g[2] => f = g
      /\ pc'[c] # "down"
  BY <1>1, <1>2, <1>4 DEF ChannelOf
<1> QED
  BY <1>1, <1>4, <1>6, <1>7, <1>8 DEF ChannelOf

LEMMA DeliverKeepsChannel ==
    ASSUME HeldInv, InOnePlace, NEW c \in Consumers, Deliver(c)
    PROVE  ChannelOf(c)'
<1> DEFINE m == First(ready)
<1>1. /\ TypeInv /\ ChannelOf(c) /\ open[c]
      /\ inbox'[c] = Append(inbox[c], m) /\ held'[c] = held[c] \union {m}
      /\ open'[c] = open[c] /\ frames'[c] = frames[c]
      /\ current'[c] = current[c] /\ pc'[c] = pc[c]
  BY DEF HeldInv, TypeInv, TypeOK, Deliver
<1>2. m \in 1 .. sent /\ m # 0 /\ m \notin held[c]
  <2>1. m \in 1 .. sent /\ m \in ready
    BY <1>1, FirstReady DEF Deliver
  <2>2. m # 0
    BY <1>1, <2>1, BoundsAssumption DEF TypeInv, TypeOK
  <2> QED
    BY <2>1, <2>2 DEF InOnePlace
<1> HIDE DEF m
<1>3. m \notin ToSet(inbox[c]) /\ m # current[c] /\ m \notin Written(c)
  BY <1>1, <1>2 DEF ChannelOf
<1>4. /\ Distinct(inbox'[c])
      /\ ToSet(inbox'[c]) = ToSet(inbox[c]) \union {m}
  <2>1. inbox[c] \in Seq(1 .. sent) /\ Distinct(inbox[c])
    BY <1>1 DEF TypeInv, TypeOK, ChannelOf
  <2>2. /\ ToSet(Append(inbox[c], m)) = ToSet(inbox[c]) \union {m}
        /\ Distinct(Append(inbox[c], m))
    <3> DEFINE arrived == 1 .. sent
    <3>1. inbox[c] \in Seq(arrived) /\ m \in arrived
      BY <1>2, <2>1
    <3> HIDE DEF arrived
    <3> QED
      BY <1>3, <2>1, <3>1, Appending, Zenon
  <2> QED
    BY <1>1, <2>2
<1>5. Written(c)' = Written(c)
  BY <1>1 DEF Written
<1>6. pc'[c] # "down"
  BY <1>1 DEF ChannelOf
<1> QED
  BY <1>1, <1>2, <1>3, <1>4, <1>5, <1>6 DEF ChannelOf

LEMMA TakeKeepsChannel ==
    ASSUME HeldInv, NEW c \in Consumers, Take(c)
    PROVE  ChannelOf(c)'
<1> DEFINE m == Head(inbox[c])
<1>1. /\ TypeInv /\ ChannelOf(c) /\ inbox[c] # << >>
      /\ inbox'[c] = Tail(inbox[c]) /\ current'[c] = m /\ held'[c] = held[c]
      /\ open'[c] = open[c] /\ frames'[c] = frames[c]
      /\ pc'[c] \in {"try", "nack"} /\ pc[c] = "select"
  BY DEF HeldInv, TypeInv, TypeOK, Take
<1>2. current[c] = 0
  BY <1>1 DEF TypeInv, LoopInv
<1>3. /\ m \in 1 .. sent /\ ToSet(inbox[c]) = {m} \union ToSet(inbox'[c])
      /\ Distinct(inbox'[c]) /\ m \notin ToSet(inbox'[c])
  BY <1>1, NextTaken DEF ChannelOf
<1>4. Written(c)' = Written(c) /\ m # 0
  BY <1>1, <1>3, BoundsAssumption DEF Written, TypeInv, TypeOK
<1> HIDE DEF m
<1>5. held'[c] = IF open'[c]
                 THEN (ToSet(inbox'[c]) \union {current'[c]}
                         \union Written(c)') \ {0}
                 ELSE {}
  <2>1. held[c] = IF open[c]
                  THEN (ToSet(inbox[c]) \union {current[c]} \union Written(c))
                         \ {0}
                  ELSE {}
    BY <1>1 DEF ChannelOf
  <2> QED
    BY <1>1, <1>2, <1>3, <1>4, <2>1
<1>7. Written(c)' \intersect (ToSet(inbox'[c]) \union {current'[c]}) = {}
  <2>1. Written(c) \intersect (ToSet(inbox[c]) \union {current[c]}) = {}
    BY <1>1 DEF ChannelOf
  <2> QED
    BY <1>1, <1>3, <1>4, <2>1
<1>6. pc'[c] # "down"
  BY <1>1
<1> QED
  BY <1>1, <1>3, <1>5, <1>6, <1>7 DEF ChannelOf

LEMMA AnswerKeepsChannel ==
    ASSUME HeldInv, NEW c \in Consumers, Ack(c) \/ Nack(c)
    PROVE  ChannelOf(c)'
<1> DEFINE m == current[c]
<1>1. PICK verdict \in {"ack", "nack"} : Answer(c, verdict) /\ pc[c] = verdict
  BY DEF Ack, Nack
<1>2. /\ TypeInv /\ ChannelOf(c)
      /\ inbox'[c] = inbox[c] /\ current'[c] = 0 /\ held'[c] = held[c]
      /\ open'[c] = open[c] /\ pc'[c] = "select"
      /\ frames'[c] = IF open[c] THEN Append(frames[c], <<verdict, m>>)
                      ELSE frames[c]
  BY <1>1 DEF HeldInv, TypeInv, TypeOK, Answer
<1>3. m \in 1 .. sent /\ m # 0
  BY <1>1, <1>2, CurrentArrived DEF TypeInv, LoopInv
<1>4. m \notin ToSet(inbox[c]) /\ m \notin Written(c)
  BY <1>2 DEF ChannelOf
<1> HIDE DEF m
<1>5. CASE open[c]
  <2>1. frames[c] \in Seq(Frames) /\ <<verdict, m>> \in Frames
    BY <1>2, <1>3 DEF TypeInv, TypeOK, Frames
  <2>2. <<verdict, m>> \notin ToSet(frames[c])
    BY <1>4 DEF Written
  <2>3. /\ ToSet(frames'[c]) = ToSet(frames[c]) \union {<<verdict, m>>}
        /\ Distinct(frames'[c])
    BY <1>2, <1>5, <2>1, <2>2, Appending DEF ChannelOf
  <2>4. Written(c)' = Written(c) \union {m}
    <3>1. <<verdict, m>>[2] = m
      OBVIOUS
    <3>2. Written(c)' = {f[2] : f \in ToSet(frames[c]) \union {<<verdict, m>>}}
      BY <2>3 DEF Written
    <3> QED
      BY <3>1, <3>2 DEF Written
  <2>5. \A f, g \in ToSet(frames'[c]) : f[2] = g[2] => f = g
    BY <1>2, <1>4, <2>3 DEF ChannelOf, Written
  <2>6. 0 \notin ToSet(inbox[c]) /\ 0 \notin Written(c)
    BY <1>2, OnlyMessages
  <2>7. held[c] = (ToSet(inbox[c]) \union {m} \union Written(c)) \ {0}
    BY <1>2, <1>5 DEF ChannelOf, m
  <2>8. /\ held'[c] = (ToSet(inbox'[c]) \union {current'[c]}
                         \union Written(c)') \ {0}
        /\ Written(c)' \intersect (ToSet(inbox'[c]) \union {current'[c]}) = {}
        /\ current'[c] \notin ToSet(inbox'[c])
    BY <1>2, <1>3, <1>4, <2>4, <2>6, <2>7 DEF ChannelOf
  <2> QED
    BY <1>2, <1>5, <2>3, <2>5, <2>8 DEF ChannelOf
<1>6. CASE ~open[c]
  <2>1. /\ frames'[c] = frames[c] /\ Written(c)' = Written(c)
        /\ 0 \notin ToSet(inbox[c]) /\ 0 \notin Written(c)
    BY <1>2, <1>6, OnlyMessages DEF Written
  <2> QED
    BY <1>2, <1>6, <2>1 DEF ChannelOf
<1> QED
  BY <1>5, <1>6

\* Start and Return, a lost connection and a crash.
LEMMA OpenOrClose ==
    ASSUME HeldInv, HeldInv => TypeInv', NEW c \in Consumers,
           Start(c) \/ Return(c) \/ Disconnect(c) \/ Crash(c)
    PROVE  ChannelOf(c)'
<1>1. TypeInv /\ TypeInv' /\ ChannelOf(c)
  BY DEF HeldInv
<1>2. CASE Start(c)
  <2>1. /\ pc[c] = "down" /\ pc'[c] = "select" /\ open'[c] = TRUE
        /\ inbox'[c] = inbox[c] /\ frames'[c] = frames[c]
        /\ held'[c] = held[c] /\ current'[c] = current[c]
    BY <1>1, <1>2 DEF TypeInv, TypeOK, Start
  <2>2. /\ current[c] = 0 /\ ~open[c]
        /\ inbox[c] = << >> /\ frames[c] = << >> /\ held[c] = {}
    BY <1>1, <2>1 DEF TypeInv, LoopInv, ChannelOf
  <2>3. Written(c)' = {} /\ ToSet(inbox[c]) = {}
    BY <2>1, <2>2, NothingIn DEF Written
  <2> QED
    BY <1>1, <2>1, <2>2, <2>3 DEF ChannelOf
<1>3. CASE Return(c)
  <2>1. /\ open'[c] = FALSE /\ inbox'[c] = << >> /\ held'[c] = {}
        /\ frames'[c] = << >> /\ current'[c] = current[c] /\ pc[c] = "select"
    BY <1>1, <1>3 DEF TypeInv, TypeOK, Return
  <2>2. Written(c)' = {}
    BY <2>1, NothingIn DEF Written
  <2> QED
    BY <2>1, <2>2, NothingIn DEF ChannelOf
<1>4. CASE Disconnect(c)
  <2>1. /\ open'[c] = FALSE /\ held'[c] = {} /\ frames'[c] = << >>
        /\ inbox'[c] = inbox[c] /\ current'[c] = current[c] /\ pc'[c] = pc[c]
        /\ open[c]
    BY <1>1, <1>4 DEF TypeInv, TypeOK, Disconnect, Break
  <2>2. Written(c)' = {}
    BY <2>1, NothingIn DEF Written
  <2> QED
    BY <1>1, <2>1, <2>2, NothingIn DEF ChannelOf
<1>5. CASE Crash(c)
  <2>1. /\ open'[c] = FALSE /\ held'[c] = {} /\ frames'[c] = << >>
        /\ inbox'[c] = << >> /\ current'[c] = 0
    BY <1>1, <1>5 DEF TypeInv, TypeOK, Crash, Break
  <2>2. Written(c)' = {}
    BY <2>1, NothingIn DEF Written
  <2> QED
    BY <2>1, <2>2, NothingIn DEF ChannelOf
<1> QED
  BY <1>2, <1>3, <1>4, <1>5

LEMMA HeldInvNext ==
    HeldInv /\ InOnePlace /\ [Next]_vars => HeldInv'
<1> SUFFICES ASSUME HeldInv, InOnePlace, [Next]_vars
             PROVE  HeldInv'
  OBVIOUS
<1>1. TypeInv /\ TypeInv'
  BY TypeInvNext DEF HeldInv
<1> SUFFICES ASSUME NEW d \in Consumers
             PROVE  ChannelOf(d)'
  BY <1>1 DEF HeldInv
<1>2. /\ open \in [Consumers -> BOOLEAN]
      /\ inbox \in [Consumers -> Seq(1 .. sent)]
      /\ frames \in [Consumers -> Seq(Frames)]
      /\ held \in [Consumers -> SUBSET (1 .. sent)]
      /\ current \in [Consumers -> 0 .. sent]
      /\ pc \in [Consumers -> {"down", "select", "try", "wait", "ack", "nack"}]
      /\ ChannelOf(d)
  BY <1>1 DEF HeldInv, TypeInv, TypeOK
<1>3. CASE \/ Receive
           \/ \E messages \in lost : Requeue(messages)
           \/ UNCHANGED vars
  <2>1. UNCHANGED <<open, inbox, frames, held, current, pc>>
    BY <1>3 DEF Receive, Requeue, vars
  <2> QED
    BY <1>2, <2>1, SameChannel
<1>4. ASSUME NEW c \in Consumers, Next, d # c,
             \/ Deliver(c) \/ Settle(c) \/ Start(c) \/ Step(c)
             \/ Stop(c) \/ Disconnect(c) \/ Crash(c)
      PROVE  ChannelOf(d)'
  <2>1. /\ open'[d] = open[d] /\ inbox'[d] = inbox[d]
        /\ frames'[d] = frames[d] /\ held'[d] = held[d]
        /\ current'[d] = current[d] /\ pc'[d] = pc[d]
    <3>1. CASE Deliver(c) \/ Settle(c) \/ Start(c) \/ Stop(c)
      BY <1>2, <1>4, <3>1 DEF Deliver, Settle, Start, Stop
    <3>2. CASE Take(c) \/ Return(c) \/ Succeed(c) \/ Fail(c)
      BY <1>2, <1>4, <3>2 DEF Take, Return, Succeed, Fail
    <3>3. CASE Wake(c) \/ GiveUp(c) \/ Ack(c) \/ Nack(c)
      BY <1>2, <1>4, <3>3 DEF Wake, GiveUp, Ack, Nack, Answer
    <3>4. CASE Disconnect(c) \/ Crash(c)
      BY <1>2, <1>4, <3>4 DEF Disconnect, Crash, Break
    <3> QED
      BY <1>4, <3>1, <3>2, <3>3, <3>4 DEF Step
  <2> QED
    BY <1>2, <2>1, SameChannel
<1>5. CASE \/ Succeed(d) \/ Fail(d) \/ Wake(d) \/ GiveUp(d) \/ Stop(d)
  <2>1. /\ UNCHANGED <<open, inbox, frames, held, current>>
        /\ pc'[d] # "down" \/ pc' = pc
    BY <1>2, <1>5 DEF Succeed, Fail, Wake, GiveUp, Stop
  <2> QED
    BY <1>2, <2>1, SameChannel
<1>6. CASE \/ Deliver(d) \/ Settle(d) \/ Take(d) \/ Ack(d) \/ Nack(d)
           \/ Start(d) \/ Return(d) \/ Disconnect(d) \/ Crash(d)
  BY <1>1, <1>6, DeliverKeepsChannel, SettleKeepsChannel, TakeKeepsChannel,
     AnswerKeepsChannel, OpenOrClose
<1> QED
  BY <1>3, <1>4, <1>5, <1>6 DEF Next, Step

-----------------------------------------------------------------------------
(***************************************************************************)
(* No message is lost or kept twice.                                       *)
(***************************************************************************)

PlaceInv == HeldInv /\ InOnePlace

LEMMA PlaceInvInit == Init => PlaceInv
<1> SUFFICES ASSUME Init
             PROVE  PlaceInv
  OBVIOUS
<1>1. \A c \in Consumers : ChannelOf(c)
  BY NothingIn DEF Init, ChannelOf, Written
<1>2. InOnePlace
  BY DEF Init, InOnePlace, Settled
<1> QED
  BY <1>1, <1>2, TypeInvInit DEF PlaceInv, HeldInv

\* A message moves out of where it was when it moves.
LEMMA PlaceInvNext == PlaceInv /\ [Next]_vars => PlaceInv'
<1> SUFFICES ASSUME PlaceInv, [Next]_vars
             PROVE  PlaceInv'
  OBVIOUS
<1>1. /\ TypeInv /\ InOnePlace /\ HeldInv'
      /\ sent \in Nat
      /\ held \in [Consumers -> SUBSET (1 .. sent)]
      /\ ready \in SUBSET (1 .. sent) /\ acked \in SUBSET (1 .. sent)
      /\ dead \in SUBSET (1 .. sent) /\ lost \in SUBSET SUBSET (1 .. sent)
  <2>1. TypeOK /\ TypeInv /\ InOnePlace /\ HeldInv'
    BY HeldInvNext DEF PlaceInv, HeldInv, TypeInv
  <2>2. sent \in Nat
    BY <2>1, BoundsAssumption DEF TypeOK
  <2>3. lost \in SUBSET SUBSET (1 .. sent)
    BY <2>1, Zenon DEF TypeOK
  <2> QED
    BY <2>1, <2>2, <2>3 DEF TypeOK
<1> SUFFICES InOnePlace'
  BY <1>1 DEF PlaceInv
<1>2. CASE Receive
  <2>1. /\ sent' = sent + 1 /\ ready' = ready \union {sent + 1}
        /\ UNCHANGED <<held, lost, acked, dead>>
    BY <1>2 DEF Receive
  <2>2. /\ 1 .. sent' = (1 .. sent) \union {sent + 1}
        /\ sent + 1 \notin 1 .. sent
    BY <1>1, <2>1
  <2>3. /\ sent + 1 \notin acked \union dead \union UNION lost
        /\ \A c \in Consumers : sent + 1 \notin held[c]
        /\ \A h \in lost : sent + 1 \notin h
    BY <1>1, <2>2
  <2> QED
    BY <1>1, <2>1, <2>2, <2>3 DEF InOnePlace, Settled
<1>3. ASSUME NEW c \in Consumers, Deliver(c)
      PROVE  InOnePlace'
  <2> DEFINE m == First(ready)
  <2>1. m \in ready
    BY <1>1, <1>3, FirstReady DEF Deliver
  <2>2. /\ ready' = ready \ {m} /\ held' = [held EXCEPT ![c] = @ \union {m}]
        /\ UNCHANGED <<sent, lost, acked, dead>>
    BY <1>3 DEF Deliver
  <2> HIDE DEF m
  <2>3. /\ held'[c] = held[c] \union {m}
        /\ \A d \in Consumers \ {c} : held'[d] = held[d]
    BY <1>1, <2>2
  <2>4. \A x \in 1 .. sent :
          \/ x \in ready' \union Settled \union UNION lost
          \/ \E d \in Consumers : x \in held'[d]
    BY <1>1, <2>1, <2>2, <2>3 DEF InOnePlace
  <2>5. \A d \in Consumers :
          /\ held'[d] \intersect (ready' \union Settled \union UNION lost) = {}
          /\ \A e \in Consumers \ {d} : held'[d] \intersect held'[e] = {}
    BY <1>1, <2>1, <2>2, <2>3 DEF InOnePlace
  <2>6. /\ ready' \intersect Settled = {}
        /\ \A h \in lost : h \intersect (ready' \union Settled) = {}
    BY <1>1, <2>2 DEF InOnePlace
  <2>7. sent' = sent /\ Settled' = Settled /\ lost' = lost /\ acked' = acked
          /\ dead' = dead
    BY <2>2 DEF Settled
  <2> QED
    BY <1>1, <2>4, <2>5, <2>6, <2>7 DEF InOnePlace
<1>4. ASSUME NEW c \in Consumers, Settle(c)
      PROVE  InOnePlace'
  <2> DEFINE m == Head(frames[c])[2]
  <2>1. /\ held' = [held EXCEPT ![c] = @ \ {m}]
        /\ \/ acked' = acked \union {m} /\ dead' = dead
           \/ dead' = dead \union {m} /\ acked' = acked
        /\ UNCHANGED <<sent, ready, lost>>
    BY <1>4 DEF Settle
  <2>2. m \in held[c]
    BY <1>4, ReadsHeld DEF PlaceInv, Settle
  <2> HIDE DEF m
  <2>3. /\ held'[c] = held[c] \ {m}
        /\ \A d \in Consumers \ {c} : held'[d] = held[d]
        /\ Settled' = Settled \union {m}
    BY <1>1, <2>1 DEF Settled
  <2>4. /\ m \notin ready \union Settled \union UNION lost
        /\ \A d \in Consumers \ {c} : m \notin held[d]
    BY <1>1, <2>2 DEF InOnePlace
  <2>5. \A x \in 1 .. sent :
          \/ x \in ready \union Settled' \union UNION lost
          \/ \E d \in Consumers : x \in held'[d]
    BY <1>1, <2>3 DEF InOnePlace
  <2>6. \A d \in Consumers :
          /\ held'[d] \intersect (ready \union Settled' \union UNION lost) = {}
          /\ \A e \in Consumers \ {d} : held'[d] \intersect held'[e] = {}
    BY <1>1, <2>3, <2>4 DEF InOnePlace
  <2>7. /\ ready' \intersect Settled' = {} /\ acked' \intersect dead' = {}
        /\ \A h \in lost' : h \intersect (ready' \union Settled') = {}
        /\ \A h \in lost' : \A g \in lost' \ {h} : g \intersect h = {}
    <3>1. ready' \intersect Settled' = {}
      BY <1>1, <2>1, <2>3, <2>4 DEF InOnePlace
    <3>2. acked' \intersect dead' = {}
      <4>1. acked \intersect dead = {} /\ m \notin acked /\ m \notin dead
        BY <1>1, <2>4 DEF InOnePlace, Settled
      <4> QED
        BY <2>1, <4>1
    <3>3. \A h \in lost : m \notin h
      BY <2>4
    <3>4. \A h \in lost : h \intersect (ready \union Settled') = {}
      BY <1>1, <2>3, <3>3 DEF InOnePlace
    <3> QED
      BY <1>1, <2>1, <3>1, <3>2, <3>4 DEF InOnePlace
  <2> QED
    BY <2>1, <2>5, <2>6, <2>7 DEF InOnePlace
<1>5. ASSUME NEW messages \in lost, Requeue(messages)
      PROVE  InOnePlace'
  <2>1. /\ ready' = ready \union messages /\ lost' = lost \ {messages}
        /\ UNCHANGED <<sent, held, acked, dead>>
    BY <1>5 DEF Requeue
  <2>2. UNION lost = messages \union UNION lost'
    BY <2>1
  <2>3. \A h \in lost' : h \intersect messages = {}
    BY <1>1, <2>1 DEF InOnePlace
  <2> QED
    BY <1>1, <2>1, <2>2, <2>3 DEF InOnePlace, Settled
<1>6. ASSUME NEW c \in Consumers, Return(c)
      PROVE  InOnePlace'
  <2>1. /\ ready' = ready \union held[c] /\ held'[c] = {}
        /\ \A d \in Consumers \ {c} : held'[d] = held[d]
        /\ UNCHANGED <<sent, lost, acked, dead>>
    BY <1>1, <1>6 DEF Return
  <2>2. \A x \in 1 .. sent :
          \/ x \in ready' \union Settled \union UNION lost
          \/ \E d \in Consumers : x \in held'[d]
    BY <1>1, <2>1 DEF InOnePlace
  <2>3. \A d \in Consumers :
          /\ held'[d] \intersect (ready' \union Settled \union UNION lost) = {}
          /\ \A e \in Consumers \ {d} : held'[d] \intersect held'[e] = {}
    BY <1>1, <2>1 DEF InOnePlace
  <2>4. /\ ready' \intersect Settled = {}
        /\ \A h \in lost : h \intersect (ready' \union Settled) = {}
    BY <1>1, <2>1 DEF InOnePlace
  <2> QED
    BY <1>1, <2>1, <2>2, <2>3, <2>4 DEF InOnePlace, Settled
<1>7. ASSUME NEW c \in Consumers, Disconnect(c) \/ Crash(c)
      PROVE  InOnePlace'
  <2>1. /\ held'[c] = {} /\ \A d \in Consumers \ {c} : held'[d] = held[d]
        /\ lost' = lost \union ({held[c]} \ {{}})
        /\ UNCHANGED <<sent, ready, acked, dead>>
    BY <1>1, <1>7, Breaking
  <2>2. \A x : x \in UNION lost' <=> x \in UNION lost \/ x \in held[c]
    <3>1. ASSUME NEW x \in UNION lost'
          PROVE  x \in UNION lost \/ x \in held[c]
      <4>1. PICK h \in lost' : x \in h
        OBVIOUS
      <4> QED
        BY <2>1, <4>1
    <3>2. ASSUME NEW x \in UNION lost
          PROVE  x \in UNION lost'
      BY <2>1, <3>2
    <3>3. ASSUME NEW x \in held[c]
          PROVE  x \in UNION lost'
      <4>1. held[c] \in lost'
        BY <2>1, <3>3
      <4> QED
        BY <3>3, <4>1
    <3> QED
      BY <3>1, <3>2, <3>3
  <2>3. \A x \in 1 .. sent :
          \/ x \in ready \/ x \in Settled \/ x \in UNION lost'
          \/ \E d \in Consumers : x \in held'[d]
    <3>1. \A x \in 1 .. sent :
            \/ x \in ready \/ x \in Settled \/ x \in UNION lost
            \/ \E d \in Consumers : x \in held[d]
      BY <1>1 DEF InOnePlace
    <3>2. \A d \in Consumers : \A x \in held[d] :
            x \in held[c] \/ x \in held'[d]
      BY <2>1
    <3> QED
      BY <2>2, <3>1, <3>2
  <2>4. \A d \in Consumers :
          /\ held'[d] \intersect (ready \union Settled \union UNION lost') = {}
          /\ \A e \in Consumers \ {d} : held'[d] \intersect held'[e] = {}
    <3>1. \A d, e \in Consumers : d # e => held[d] \intersect held[e] = {}
      BY <1>1 DEF InOnePlace
    <3>2. \A d \in Consumers : \A x \in held[d] :
            x \notin ready /\ x \notin Settled /\ x \notin UNION lost
      BY <1>1 DEF InOnePlace
    <3>3. \A d \in Consumers : held'[d] \subseteq held[d]
                                 /\ (d # c \/ held'[d] = {})
      BY <2>1
    <3>4. \A d \in Consumers : \A x \in held'[d] : x \notin UNION lost'
      BY <2>2, <3>1, <3>2, <3>3
    <3>5. \A d, e \in Consumers : d # e => held'[d] \intersect held'[e] = {}
      BY <3>1, <3>3
    <3> QED
      BY <3>2, <3>3, <3>4, <3>5
  <2>5. \A h \in lost' :
          /\ h \intersect (ready \union Settled) = {}
          /\ \A g \in lost' \ {h} : g \intersect h = {}
    <3>1. \A h \in lost : h \intersect held[c] = {}
      BY <1>1 DEF InOnePlace
    <3> QED
      BY <1>1, <2>1, <3>1 DEF InOnePlace
  <2> QED
    BY <1>1, <2>1, <2>3, <2>4, <2>5 DEF InOnePlace, Settled
<1>8. CASE \/ UNCHANGED vars
           \/ \E c \in Consumers :
                \/ Start(c) \/ Take(c) \/ Succeed(c) \/ Fail(c) \/ Wake(c)
                \/ GiveUp(c) \/ Ack(c) \/ Nack(c) \/ Stop(c)
  <2>1. UNCHANGED <<sent, ready, held, lost, acked, dead>>
    BY <1>8 DEF vars, Start, Take, Succeed, Fail, Wake, GiveUp, Ack, Nack,
                Answer, Stop
  <2> QED
    BY <1>1, <2>1 DEF InOnePlace, Settled
<1> QED
  BY <1>2, <1>3, <1>4, <1>5, <1>6, <1>7, <1>8 DEF Next, Step

\* Type correctness.
THEOREM Typing == Spec => []TypeOK
<1>1. TypeInv => TypeOK
  BY DEF TypeInv
<1> QED
  BY <1>1, TypeInvInit, TypeInvNext, PTL DEF Spec

\* Whatever is lost, cut off and restarted, every message is in one place: the
\* frames of consumer.go:127-161 that nobody confirms lose none and keep none
\* twice.
THEOREM OnePlace == Spec => []InOnePlace
<1>1. PlaceInv => InOnePlace
  BY DEF PlaceInv
<1> QED
  BY <1>1, PlaceInvInit, PlaceInvNext, PTL DEF Spec

-----------------------------------------------------------------------------
(***************************************************************************)
(* Outcomes: what an Ack and a Nack say of their message.                  *)
(***************************************************************************)

\* Only the consumer writes a frame, of the message it is at.
LEMMA FrameWritten ==
    ASSUME TypeInv, [Next]_vars, NEW d \in Consumers,
           NEW f \in ToSet(frames'[d]), f \notin ToSet(frames[d])
    PROVE  /\ Ack(d) \/ Nack(d)
           /\ open[d] /\ f = <<pc[d], current[d]>>
<1>1. /\ frames \in [Consumers -> Seq(Frames)] /\ ToSet(<< >>) = {}
      /\ frames'[d] # frames[d]
  BY NothingIn DEF TypeInv, TypeOK
<1>2. ASSUME NEW c \in Consumers, Settle(c)
      PROVE  FALSE
  <2>1. c = d /\ frames[d] # << >> /\ frames'[d] = Tail(frames[d])
    BY <1>1, <1>2 DEF Settle
  <2> QED
    BY <2>1, FrameRead
<1>3. ASSUME NEW c \in Consumers, Disconnect(c) \/ Crash(c)
      PROVE  FALSE
  <2>1. frames' = [frames EXCEPT ![c] = << >>]
    BY <1>3, Breaking
  <2> QED
    BY <1>1, <2>1
<1>4. ASSUME NEW c \in Consumers, Ack(c) \/ Nack(c)
      PROVE  /\ Ack(d) \/ Nack(d)
             /\ open[d] /\ f = <<pc[d], current[d]>>
  <2>1. PICK verdict \in {"ack", "nack"} :
          Answer(c, verdict) /\ pc[c] = verdict
    BY <1>4 DEF Ack, Nack
  <2>2. /\ c = d /\ open[d]
        /\ frames'[d] = Append(frames[d], <<verdict, current[d]>>)
    BY <1>1, <2>1 DEF Answer
  <2>3. current[d] \in 1 .. sent
    BY <2>1, <2>2, CurrentArrived DEF TypeInv, LoopInv
  <2>4. frames[d] \in Seq(Frames) /\ <<verdict, current[d]>> \in Frames
    BY <1>1, <2>3 DEF Frames
  <2>5. ToSet(frames'[d]) = ToSet(frames[d]) \union {<<verdict, current[d]>>}
    BY <2>2, <2>4, Appending
  <2> QED
    BY <1>4, <2>1, <2>2, <2>5
<1>5. CASE \/ Receive \/ UNCHANGED vars
           \/ \E messages \in lost : Requeue(messages)
           \/ \E c \in Consumers :
                \/ Deliver(c) \/ Start(c) \/ Take(c) \/ Return(c) \/ Succeed(c)
                \/ Fail(c) \/ Wake(c) \/ GiveUp(c) \/ Stop(c)
  BY <1>1, <1>5 DEF Receive, vars, Requeue, Deliver, Start, Take, Return,
                    Succeed, Fail, Wake, GiveUp, Stop
<1> QED
  BY <1>2, <1>3, <1>4, <1>5 DEF Next, Step

\* A frame is gone when the broker has read it, or with its connection.
LEMMA FrameGone ==
    ASSUME TypeInv, [Next]_vars, NEW d \in Consumers,
           NEW f \in ToSet(frames[d]), f \notin ToSet(frames'[d])
    PROVE  \/ Settle(d) /\ f = Head(frames[d])
           \/ Disconnect(d) \/ Crash(d)
<1>1. /\ frames \in [Consumers -> Seq(Frames)] /\ ToSet(<< >>) = {}
      /\ frames'[d] # frames[d]
  BY NothingIn DEF TypeInv, TypeOK
<1>2. ASSUME NEW c \in Consumers, Settle(c)
      PROVE  Settle(d) /\ f = Head(frames[d])
  <2>1. c = d /\ frames[d] # << >> /\ frames'[d] = Tail(frames[d])
    BY <1>1, <1>2 DEF Settle
  <2> QED
    BY <1>2, <2>1, FrameRead
<1>3. ASSUME NEW c \in Consumers, Disconnect(c) \/ Crash(c)
      PROVE  Disconnect(d) \/ Crash(d)
  <2>1. frames' = [frames EXCEPT ![c] = << >>]
    BY <1>3, Breaking
  <2> QED
    BY <1>1, <1>3, <2>1
<1>4. ASSUME NEW c \in Consumers, Ack(c) \/ Nack(c)
      PROVE  FALSE
  <2>1. PICK verdict \in {"ack", "nack"} :
          Answer(c, verdict) /\ pc[c] = verdict
    BY <1>4 DEF Ack, Nack
  <2>2. /\ c = d
        /\ frames'[d] = Append(frames[d], <<verdict, current[d]>>)
    BY <1>1, <2>1 DEF Answer
  <2>3. current[d] \in 1 .. sent
    BY <2>1, <2>2, CurrentArrived DEF TypeInv, LoopInv
  <2>4. frames[d] \in Seq(Frames) /\ <<verdict, current[d]>> \in Frames
    BY <1>1, <2>3 DEF Frames
  <2>5. ToSet(frames'[d]) = ToSet(frames[d]) \union {<<verdict, current[d]>>}
    BY <2>2, <2>4, Appending
  <2> QED
    BY <2>5
<1>5. CASE \/ Receive \/ UNCHANGED vars
           \/ \E messages \in lost : Requeue(messages)
           \/ \E c \in Consumers :
                \/ Deliver(c) \/ Start(c) \/ Take(c) \/ Return(c) \/ Succeed(c)
                \/ Fail(c) \/ Wake(c) \/ GiveUp(c) \/ Stop(c)
  BY <1>1, <1>5 DEF Receive, vars, Requeue, Deliver, Start, Take, Return,
                    Succeed, Fail, Wake, GiveUp, Stop
<1> QED
  BY <1>2, <1>3, <1>4, <1>5 DEF Next, Step

\* Only the handler's success counts, and only it leads to an Ack.
LEMMA HandledSteps ==
    ASSUME TypeInv, [Next]_vars, NEW m \in Messages
    PROVE  \/ handled'[m] = handled[m]
           \/ /\ \E c \in Consumers : Succeed(c) /\ current[c] = m
              /\ handled'[m] = handled[m] + 1
<1>1. handled \in [Messages -> Nat]
  BY DEF TypeInv, TypeOK
<1>2. ASSUME NEW c \in Consumers, Succeed(c)
      PROVE  \/ handled'[m] = handled[m]
             \/ current[c] = m /\ handled'[m] = handled[m] + 1
  BY <1>1, <1>2 DEF Succeed
<1>3. CASE \/ Receive \/ UNCHANGED vars
           \/ \E messages \in lost : Requeue(messages)
           \/ \E c \in Consumers :
                \/ Deliver(c) \/ Settle(c) \/ Start(c) \/ Take(c) \/ Return(c)
                \/ Fail(c) \/ Wake(c) \/ GiveUp(c) \/ Stop(c)
                \/ Ack(c) \/ Nack(c)
  BY <1>3 DEF Receive, vars, Requeue, Deliver, Settle, Start, Take, Return,
              Fail, Wake, GiveUp, Stop, Ack, Nack, Answer
<1>4. ASSUME NEW c \in Consumers, Disconnect(c) \/ Crash(c)
      PROVE  handled' = handled
  BY <1>4, Breaking
<1> QED
  BY <1>2, <1>3, <1>4 DEF Next, Step

\* How a consumer comes to the point of an Ack or a Nack.
LEMMA VerdictSteps ==
    ASSUME TypeInv, [Next]_vars, NEW d \in Consumers,
           pc'[d] \in {"ack", "nack"}
    PROVE  \/ UNCHANGED <<pc[d], current[d], tries[d]>>
                /\ (stopping[d] => stopping'[d])
           \/ pc'[d] = "ack" /\ Succeed(d) /\ current'[d] = current[d]
           \/ /\ pc'[d] = "nack"
              /\ \/ current'[d] \in Malformed
                 \/ tries'[d] = MaxRetries + 1
                 \/ stopping'[d]
<1>1. /\ pc \in [Consumers -> {"down", "select", "try", "wait", "ack", "nack"}]
      /\ current \in [Consumers -> 0 .. sent]
      /\ tries \in [Consumers -> 0 .. MaxRetries + 1]
      /\ stopping \in [Consumers -> BOOLEAN]
  BY DEF TypeInv, TypeOK
<1>2. CASE \/ Receive \/ UNCHANGED vars
           \/ \E messages \in lost : Requeue(messages)
           \/ \E c \in Consumers : Deliver(c) \/ Settle(c)
  BY <1>2 DEF Receive, vars, Requeue, Deliver, Settle
<1>3. ASSUME NEW c \in Consumers,
             Start(c) \/ Take(c) \/ Return(c) \/ Succeed(c) \/ Stop(c)
      PROVE  \/ UNCHANGED <<pc[d], current[d], tries[d]>>
                  /\ (stopping[d] => stopping'[d])
             \/ pc'[d] = "ack" /\ Succeed(d) /\ current'[d] = current[d]
             \/ pc'[d] = "nack" /\ current'[d] \in Malformed
  BY <1>1, <1>3 DEF Start, Take, Return, Succeed, Stop
<1>4. ASSUME NEW c \in Consumers, Fail(c) \/ Wake(c) \/ GiveUp(c)
      PROVE  \/ UNCHANGED <<pc[d], current[d], tries[d]>>
                  /\ (stopping[d] => stopping'[d])
             \/ /\ pc'[d] = "nack"
                /\ tries'[d] = MaxRetries + 1 \/ stopping'[d]
  BY <1>1, <1>4, BoundsAssumption DEF Fail, Wake, GiveUp
<1>5. ASSUME NEW c \in Consumers, Ack(c) \/ Nack(c)
      PROVE  UNCHANGED <<pc[d], current[d], tries[d], stopping[d]>>
  BY <1>1, <1>5 DEF Ack, Nack, Answer
<1>6. ASSUME NEW c \in Consumers, Disconnect(c) \/ Crash(c)
      PROVE  UNCHANGED <<pc[d], current[d], tries[d], stopping[d]>>
  BY <1>1, <1>6, Breaking
<1> QED
  BY <1>2, <1>3, <1>4, <1>5, <1>6 DEF Next, Step

\* What is newly acknowledged or dead-lettered, the broker has just read.
LEMMA SettledSteps ==
    ASSUME TypeInv, [Next]_vars
    PROVE  /\ acked \subseteq acked'
           /\ \A m \in acked' \ acked : \E c \in Consumers :
                Settle(c) /\ Head(frames[c]) = <<"ack", m>>
           /\ \A m \in dead' \ dead : \E c \in Consumers :
                Settle(c) /\ Head(frames[c]) = <<"nack", m>>
<1>1. ASSUME NEW c \in Consumers, Settle(c)
      PROVE  /\ acked \subseteq acked'
             /\ \A m \in acked' \ acked : Head(frames[c]) = <<"ack", m>>
             /\ \A m \in dead' \ dead : Head(frames[c]) = <<"nack", m>>
  <2>1. Head(frames[c]) \in {"ack", "nack"} \X (1 .. sent)
    BY <1>1, FrameRead DEF Settle, Frames
  <2> QED
    BY <1>1, <2>1 DEF Settle
<1>2. CASE \/ Receive \/ UNCHANGED vars
           \/ \E messages \in lost : Requeue(messages)
           \/ \E c \in Consumers :
                \/ Deliver(c) \/ Start(c) \/ Take(c) \/ Return(c) \/ Succeed(c)
                \/ Fail(c) \/ Wake(c) \/ GiveUp(c) \/ Stop(c)
                \/ Ack(c) \/ Nack(c)
  BY <1>2 DEF Receive, vars, Requeue, Deliver, Start, Take, Return,
              Succeed, Fail, Wake, GiveUp, Stop, Ack, Nack, Answer
<1>3. ASSUME NEW c \in Consumers, Disconnect(c) \/ Crash(c)
      PROVE  acked' = acked /\ dead' = dead
  BY <1>3, Breaking
<1> QED
  BY <1>1, <1>2, <1>3 DEF Next, Step

VerdictInv ==
    /\ TypeInv
    /\ \A m \in acked : handled[m] > 0
    /\ \A c \in Consumers :
         /\ pc[c] = "ack" => handled[current[c]] > 0
         /\ \A f \in ToSet(frames[c]) : f[1] = "ack" => handled[f[2]] > 0
         /\ pc[c] = "nack" => \/ current[c] \in Malformed
                              \/ tries[c] = MaxRetries + 1
                              \/ stopping[c]

LEMMA VerdictInvNext == VerdictInv /\ [Next]_vars => VerdictInv'
<1> SUFFICES ASSUME VerdictInv, [Next]_vars
             PROVE  VerdictInv'
  OBVIOUS
<1>1. TypeInv /\ TypeInv'
  BY TypeInvNext DEF VerdictInv
<1>2. ASSUME NEW m \in Messages
      PROVE  /\ handled[m] \in Nat /\ handled'[m] \in Nat
             /\ handled[m] > 0 => handled'[m] > 0
  <2>1. handled[m] \in Nat
    BY <1>1 DEF TypeInv, TypeOK
  <2> QED
    BY <1>1, <2>1, HandledSteps
<1>3. \A m \in acked : m \in Messages
  BY <1>1, BoundsAssumption DEF TypeInv, TypeOK, Messages
<1>4. ASSUME NEW c \in Consumers, NEW f \in ToSet(frames[c])
      PROVE  f[2] \in Messages
  <2>1. f \in Frames
    BY <1>1, OnlyMessages
  <2> QED
    BY <1>1, <2>1, BoundsAssumption DEF Frames, TypeInv, TypeOK, Messages
<1>5. ASSUME NEW m \in acked'
      PROVE  handled'[m] > 0
  <2>1. CASE m \in acked
    BY <1>2, <1>3, <2>1 DEF VerdictInv
  <2>2. CASE m \notin acked
    <3>1. PICK c \in Consumers : Settle(c) /\ Head(frames[c]) = <<"ack", m>>
      BY <1>1, <2>2, SettledSteps
    <3>2. <<"ack", m>> \in ToSet(frames[c])
      BY <1>1, <3>1, FrameRead DEF Settle
    <3>3. handled[m] > 0 /\ m \in Messages
      BY <1>4, <3>2 DEF VerdictInv
    <3> QED
      BY <1>2, <3>3
  <2> QED
    BY <2>1, <2>2
<1>6. ASSUME NEW c \in Consumers, pc'[c] = "ack"
      PROVE  handled'[current'[c]] > 0
  <2>1. CASE UNCHANGED <<pc[c], current[c]>>
    <3>1. current[c] \in Messages /\ handled[current[c]] > 0
      BY <1>1, <1>6, <2>1, CurrentArrived DEF VerdictInv, TypeInv, LoopInv
    <3> QED
      BY <1>2, <2>1, <3>1
  <2>2. CASE Succeed(c) /\ current'[c] = current[c]
    <3>1. current[c] \in Messages /\ handled \in [Messages -> Nat]
      BY <1>1, <2>2, CurrentArrived DEF Succeed, TypeInv, LoopInv, TypeOK
    <3> QED
      BY <2>2, <3>1 DEF Succeed
  <2> QED
    BY <1>1, <1>6, <2>1, <2>2, VerdictSteps
<1>7. ASSUME NEW c \in Consumers, NEW f \in ToSet(frames'[c]), f[1] = "ack"
      PROVE  handled'[f[2]] > 0
  <2>1. CASE f \in ToSet(frames[c])
    BY <1>2, <1>4, <1>7, <2>1 DEF VerdictInv
  <2>2. CASE f \notin ToSet(frames[c])
    <3>1. pc[c] = "ack" /\ f[2] = current[c]
      BY <1>1, <1>7, <2>2, FrameWritten
    <3>2. current[c] \in Messages /\ handled[current[c]] > 0
      BY <1>1, <3>1, CurrentArrived DEF VerdictInv, TypeInv, LoopInv
    <3> QED
      BY <1>2, <3>1, <3>2
  <2> QED
    BY <2>1, <2>2
<1>8. ASSUME NEW c \in Consumers, pc'[c] = "nack"
      PROVE  \/ current'[c] \in Malformed
             \/ tries'[c] = MaxRetries + 1
             \/ stopping'[c]
  BY <1>1, <1>8, VerdictSteps DEF VerdictInv, Succeed
<1> QED
  BY <1>1, <1>5, <1>6, <1>7, <1>8 DEF VerdictInv

LEMMA VerdictInvInit == Init => VerdictInv
BY TypeInvInit, NothingIn DEF VerdictInv, Init

\* A message is acknowledged only after its handler succeeded.
THEOREM AcknowledgedWasHandled ==
    Spec => [](\A m \in acked : handled[m] > 0)
<1>1. VerdictInv => \A m \in acked : handled[m] > 0
  BY DEF VerdictInv
<1> QED
  BY <1>1, VerdictInvInit, VerdictInvNext, PTL DEF Spec

\* Who is at an Ack stays there until it is written.
LEMMA AckSteps ==
    ASSUME TypeInv, [Next]_vars, NEW d \in Consumers, pc[d] = "ack"
    PROVE  \/ pc'[d] = "ack" /\ current'[d] = current[d]
           \/ /\ Ack(d)
              /\ open[d] => <<"ack", current[d]>> \in ToSet(frames'[d])
           \/ Crash(d)
<1>1. /\ pc \in [Consumers -> {"down", "select", "try", "wait", "ack", "nack"}]
      /\ current \in [Consumers -> 0 .. sent]
      /\ frames \in [Consumers -> Seq(Frames)]
  BY DEF TypeInv, TypeOK
<1>2. ASSUME Ack(d), open[d]
      PROVE  <<"ack", current[d]>> \in ToSet(frames'[d])
  <2>1. frames'[d] = Append(frames[d], <<"ack", current[d]>>)
    BY <1>1, <1>2 DEF Ack, Answer
  <2>2. current[d] \in 1 .. sent
    BY CurrentArrived DEF TypeInv, LoopInv
  <2>3. frames[d] \in Seq(Frames) /\ <<"ack", current[d]>> \in Frames
    BY <1>1, <2>2 DEF Frames
  <2> QED
    BY <2>1, <2>3, Appending
<1>3. CASE \/ Receive \/ UNCHANGED vars
           \/ \E messages \in lost : Requeue(messages)
           \/ \E c \in Consumers :
                \/ Deliver(c) \/ Settle(c) \/ Stop(c) \/ Disconnect(c)
  BY <1>3 DEF Receive, vars, Requeue, Deliver, Settle, Stop, Disconnect
<1>4. ASSUME NEW c \in Consumers,
             \/ Start(c) \/ Take(c) \/ Return(c) \/ Succeed(c) \/ Fail(c)
             \/ Wake(c) \/ GiveUp(c) \/ Nack(c)
      PROVE  pc'[d] = "ack" /\ current'[d] = current[d]
  BY <1>1, <1>4 DEF Start, Take, Return, Succeed, Fail, Wake, GiveUp, Nack,
                    Answer
<1>5. ASSUME NEW c \in Consumers, Ack(c) \/ Crash(c), c # d
      PROVE  pc'[d] = "ack" /\ current'[d] = current[d]
  BY <1>1, <1>5 DEF Ack, Answer, Crash
<1> QED
  BY <1>2, <1>3, <1>4, <1>5 DEF Next, Step

Acking(c, m) ==
    \/ pc[c] = "ack" /\ current[c] = m
    \/ <<"ack", m>> \in ToSet(frames[c])

\* Without a cut, what was handled is acknowledged or about to be.
Uncut ==
    cuts = 0 =>
        /\ \A c \in Consumers : open[c] \/ pc[c] = "down"
        /\ \A m \in Messages :
             handled[m] > 0 => m \in acked \/ \E c \in Consumers : Acking(c, m)

UncutInv == PlaceInv /\ VerdictInv /\ Uncut

LEMMA UncutNext == UncutInv /\ [Next]_vars => Uncut'
<1> SUFFICES ASSUME UncutInv, [Next]_vars, cuts' = 0
             PROVE  /\ \A c \in Consumers : open'[c] \/ pc'[c] = "down"
                    /\ \A m \in Messages :
                         handled'[m] > 0 =>
                             m \in acked'
                               \/ \E c \in Consumers : Acking(c, m)'
  BY DEF Uncut
<1>1. TypeInv /\ cuts \in Nat
  BY BoundsAssumption DEF UncutInv, VerdictInv, TypeInv, TypeOK
<1>2. ASSUME NEW c \in Consumers, Disconnect(c) \/ Crash(c)
      PROVE  FALSE
  BY <1>1, <1>2, Breaking
<1>3. cuts = 0
  <2>1. CASE \/ Receive \/ UNCHANGED vars
             \/ \E messages \in lost : Requeue(messages)
             \/ \E c \in Consumers :
                  \/ Deliver(c) \/ Settle(c) \/ Start(c) \/ Take(c)
                  \/ Return(c) \/ Succeed(c) \/ Fail(c) \/ Wake(c)
                  \/ GiveUp(c) \/ Ack(c) \/ Nack(c) \/ Stop(c)
    BY <2>1 DEF Receive, vars, Requeue, Deliver, Settle, Start, Take, Return,
                Succeed, Fail, Wake, GiveUp, Ack, Nack, Answer, Stop
  <2> QED
    BY <1>2, <2>1 DEF Next, Step
<1>4. ASSUME NEW d \in Consumers
      PROVE  open'[d] \/ pc'[d] = "down"
  <2>1. /\ open \in [Consumers -> BOOLEAN]
        /\ pc \in [Consumers ->
                    {"down", "select", "try", "wait", "ack", "nack"}]
        /\ open[d] \/ pc[d] = "down"
    BY <1>1, <1>3 DEF UncutInv, Uncut, TypeInv, TypeOK
  <2>2. CASE \/ Receive \/ UNCHANGED vars
             \/ \E messages \in lost : Requeue(messages)
             \/ \E c \in Consumers :
                  \/ Deliver(c) \/ Settle(c) \/ Stop(c)
    BY <2>1, <2>2 DEF Receive, vars, Requeue, Deliver, Settle, Stop
  <2>3. ASSUME NEW c \in Consumers,
               Take(c) \/ Succeed(c) \/ Fail(c) \/ Wake(c) \/ GiveUp(c)
        PROVE  open'[d] \/ pc'[d] = "down"
    BY <2>1, <2>3 DEF Take, Succeed, Fail, Wake, GiveUp
  <2>4. ASSUME NEW c \in Consumers, Start(c) \/ Return(c) \/ Ack(c) \/ Nack(c)
        PROVE  open'[d] \/ pc'[d] = "down"
    BY <2>1, <2>4 DEF Start, Return, Ack, Nack, Answer
  <2> QED
    BY <1>2, <2>2, <2>3, <2>4 DEF Next, Step
<1>5. ASSUME NEW m \in Messages, handled'[m] > 0
      PROVE  m \in acked' \/ \E c \in Consumers : Acking(c, m)'
  <2>1. CASE handled'[m] # handled[m]
    <3>1. PICK c \in Consumers : Succeed(c) /\ current[c] = m
      BY <1>1, <2>1, HandledSteps
    <3>2. pc'[c] = "ack" /\ current'[c] = m
      BY <1>1, <3>1 DEF Succeed, TypeInv, TypeOK
    <3> QED
      BY <3>2 DEF Acking
  <2>2. CASE handled'[m] = handled[m] /\ m \in acked
    BY <1>1, <2>2, SettledSteps
  <2>3. CASE handled'[m] = handled[m] /\ m \notin acked
    <3>1. PICK c \in Consumers : Acking(c, m)
      BY <1>3, <1>5, <2>3 DEF UncutInv, Uncut
    <3>2. CASE pc[c] = "ack" /\ current[c] = m
      <4>1. open[c]
        BY <1>3, <3>2 DEF UncutInv, Uncut
      <4> QED
        BY <1>1, <1>2, <3>2, <4>1, AckSteps DEF Acking
    <3>3. CASE /\ <<"ack", m>> \in ToSet(frames[c])
               /\ <<"ack", m>> \notin ToSet(frames'[c])
      <4>1. Settle(c) /\ Head(frames[c]) = <<"ack", m>>
        BY <1>1, <1>2, <3>3, FrameGone
      <4> QED
        BY <4>1 DEF Settle
    <3> QED
      BY <3>1, <3>2, <3>3 DEF Acking
  <2> QED
    BY <2>1, <2>2, <2>3
<1> QED
  BY <1>4, <1>5

\* A message is dead-lettered malformed, out of tries or interrupted, and one
\* that was handled only for a crash or a lost connection, for any number of
\* consumers, messages and retries.
THEOREM DeadForAReason == Spec => DeadAfterRetries
<1> DEFINE Reasons ==
             /\ \A c \in Consumers : \A m \in Refused(c)' \ Refused(c) :
                  /\ current[c] = m
                  /\ m \in Malformed \/ tries[c] = MaxRetries + 1 \/ stopping[c]
             /\ \A m \in dead' \ dead :
                  /\ \E c \in Consumers : m \in Refused(c)
                  /\ cuts = 0 => handled[m] = 0
<1>1. Init => UncutInv
  BY PlaceInvInit, VerdictInvInit DEF UncutInv, Uncut, Init
<1>2. UncutInv /\ [Next]_vars => UncutInv'
  BY UncutNext, PlaceInvNext, VerdictInvNext DEF UncutInv
<1>3. UncutInv /\ [Next]_vars => Reasons
  <2> SUFFICES ASSUME UncutInv, [Next]_vars
               PROVE  Reasons
    OBVIOUS
  <2>1. TypeInv /\ InOnePlace /\ HeldInv /\ VerdictInv
    BY DEF UncutInv, PlaceInv, HeldInv
  <2>2. ASSUME NEW c \in Consumers, NEW m \in Refused(c)' \ Refused(c)
        PROVE  /\ current[c] = m
               /\ m \in Malformed \/ tries[c] = MaxRetries + 1 \/ stopping[c]
    <3>1. PICK f \in ToSet(frames'[c]) : f[1] = "nack" /\ f[2] = m
      BY <2>2 DEF Refused
    <3>2. f \notin ToSet(frames[c])
      BY <2>2, <3>1 DEF Refused
    <3>3. pc[c] = "nack" /\ current[c] = m
      BY <2>1, <3>1, <3>2, FrameWritten
    <3> QED
      BY <2>1, <3>3 DEF VerdictInv
  <2>3. ASSUME NEW m \in dead' \ dead
        PROVE  /\ \E c \in Consumers : m \in Refused(c)
               /\ cuts = 0 => handled[m] = 0
    <3>1. PICK c \in Consumers : Settle(c) /\ Head(frames[c]) = <<"nack", m>>
      BY <2>1, <2>3, SettledSteps
    <3>2. <<"nack", m>> \in ToSet(frames[c]) /\ <<"nack", m>> \in Frames
      BY <2>1, <3>1, FrameRead DEF Settle
    <3>3. m \in Refused(c)
      <4>1. <<"nack", m>>[1] = "nack" /\ <<"nack", m>>[2] = m
        OBVIOUS
      <4> QED
        BY <3>2, <4>1 DEF Refused
    <3>4. m \in held[c]
      BY <2>1, <3>1, ReadsHeld DEF Settle
    <3>5. m \in Messages /\ handled[m] \in Nat
      BY <2>1, <3>2, BoundsAssumption
         DEF Frames, TypeInv, TypeOK, Messages
    <3>6. ASSUME cuts = 0, handled[m] > 0
          PROVE  FALSE
      <4>1. m \notin acked /\ \A d \in Consumers \ {c} : m \notin held[d]
        BY <2>1, <3>4 DEF InOnePlace, Settled
      <4>2. PICK d \in Consumers : Acking(d, m)
        BY <3>5, <3>6, <4>1 DEF UncutInv, Uncut
      <4>3. m # current[c] /\ <<"ack", m>> \notin ToSet(frames[c])
        <5>1. /\ \A f, g \in ToSet(frames[c]) : f[2] = g[2] => f = g
              /\ current[c] \notin Written(c)
          BY <2>1 DEF HeldInv, ChannelOf
        <5>2. m \in Written(c)
          BY <3>2 DEF Written
        <5>3. <<"ack", m>>[2] = m /\ <<"nack", m>>[2] = m
              /\ <<"ack", m>> # <<"nack", m>>
          OBVIOUS
        <5> QED
          BY <3>2, <5>1, <5>2, <5>3
      <4>4. d # c
        BY <4>2, <4>3 DEF Acking
      <4>5. open[d]
        <5>1. CASE pc[d] = "ack"
          BY <3>6, <5>1 DEF UncutInv, Uncut
        <5>2. CASE <<"ack", m>> \in ToSet(frames[d])
          BY <2>1, <5>2, NothingIn DEF HeldInv, ChannelOf
        <5> QED
          BY <4>2, <5>1, <5>2 DEF Acking
      <4>6. m \in held[d]
        <5>1. m # 0
          BY <3>5 DEF Messages
        <5>2. m = current[d] \/ m \in Written(d)
          BY <4>2 DEF Acking, Written
        <5>3. held[d] = (ToSet(inbox[d]) \union {current[d]}
                           \union Written(d)) \ {0}
          BY <2>1, <4>5 DEF HeldInv, ChannelOf
        <5> QED
          BY <5>1, <5>2, <5>3
      <4> QED
        BY <4>1, <4>4, <4>6
    <3> QED
      BY <3>3, <3>5, <3>6
  <2> QED
    BY <2>2, <2>3
<1>4. Spec => [][Reasons]_vars
  <2> HIDE DEF Reasons
  <2> QED
    BY <1>1, <1>2, <1>3, PTL DEF Spec
<1> QED
  BY <1>4 DEF DeadAfterRetries

-----------------------------------------------------------------------------
(***************************************************************************)
(* How often a message is handled.                                         *)
(***************************************************************************)

\* c will run the handler on m, or may run it again.
Pending(c, m) ==
    m \in ToSet(inbox[c]) \/ (current[c] = m /\ pc[c] \in {"try", "wait"})

\* Who is rid of its connection and will run the handler on m all the same.
Stale(m) == {c \in Consumers : ~open[c] /\ Pending(c, m)}

\* Whether a success on m needs no cut to account for it.
Counted(m) ==
    IF m \in acked \/ \E c \in Consumers : open[c] /\ Acking(c, m)
    THEN 1 ELSE 0

Bounded(m) ==
    /\ IsFiniteSet(Stale(m))
    /\ handled[m] + Cardinality(Stale(m)) <= cuts + Counted(m)

LEMMA PendingSteps ==
    ASSUME TypeInv, [Next]_vars, NEW d \in Consumers, NEW m \in Messages,
           Pending(d, m)', ~Pending(d, m)
    PROVE  Deliver(d)
<1>1. /\ pc \in [Consumers -> {"down", "select", "try", "wait", "ack", "nack"}]
      /\ current \in [Consumers -> 0 .. sent]
      /\ inbox \in [Consumers -> Seq(1 .. sent)]
      /\ ToSet(<< >>) = {}
  BY NothingIn DEF TypeInv, TypeOK
<1>2. m # 0
  BY DEF Messages
<1>3. ASSUME NEW c \in Consumers, Deliver(c)
      PROVE  c = d
  BY <1>1, <1>3 DEF Deliver, Pending
<1>4. ASSUME NEW c \in Consumers, Take(c)
      PROVE  FALSE
  <2>1. /\ inbox' = [inbox EXCEPT ![c] = Tail(@)]
        /\ current' = [current EXCEPT ![c] = Head(inbox[c])]
        /\ \A e \in Consumers \ {c} : pc'[e] = pc[e]
    BY <1>1, <1>4 DEF Take
  <2>2. ToSet(inbox[c]) = {Head(inbox[c])} \union ToSet(Tail(inbox[c]))
    BY <1>4, NextTaken DEF Take
  <2>3. CASE d = c
    <3>1. inbox'[c] = Tail(inbox[c]) /\ current'[c] = Head(inbox[c])
      BY <1>1, <2>1
    <3>2. m \in ToSet(inbox[c])
      BY <2>2, <2>3, <3>1 DEF Pending
    <3> QED
      BY <2>3, <3>2 DEF Pending
  <2>4. CASE d # c
    <3>1. inbox'[d] = inbox[d] /\ current'[d] = current[d] /\ pc'[d] = pc[d]
      BY <1>1, <2>1, <2>4
    <3> QED
      BY <3>1 DEF Pending
  <2> QED
    BY <2>3, <2>4
<1>5. ASSUME NEW c \in Consumers,
             Start(c) \/ Return(c) \/ Succeed(c) \/ Fail(c) \/ Wake(c)
      PROVE  FALSE
  BY <1>1, <1>5 DEF Start, Return, Succeed, Fail, Wake, Pending
<1>6. ASSUME NEW c \in Consumers, GiveUp(c) \/ Ack(c) \/ Nack(c)
      PROVE  FALSE
  BY <1>1, <1>2, <1>6 DEF GiveUp, Ack, Nack, Answer, Pending
<1>7. ASSUME NEW c \in Consumers, Disconnect(c) \/ Crash(c)
      PROVE  FALSE
  BY <1>1, <1>2, <1>7 DEF Disconnect, Crash, Pending
<1>8. CASE \/ Receive \/ UNCHANGED vars
           \/ \E messages \in lost : Requeue(messages)
           \/ \E c \in Consumers : Settle(c) \/ Stop(c)
  BY <1>8 DEF Receive, vars, Requeue, Settle, Stop, Pending
<1> QED
  BY <1>3, <1>4, <1>5, <1>6, <1>7, <1>8 DEF Next, Step

LEMMA OpenSteps ==
    ASSUME TypeInv, [Next]_vars, NEW d \in Consumers, open[d], ~open'[d]
    PROVE  Return(d) \/ Disconnect(d) \/ Crash(d)
<1>1. open \in [Consumers -> BOOLEAN]
  BY DEF TypeInv, TypeOK
<1>2. ASSUME NEW c \in Consumers, Return(c) \/ Disconnect(c) \/ Crash(c)
      PROVE  c = d
  BY <1>1, <1>2 DEF Return, Disconnect, Crash, Break
<1>3. CASE \/ Receive \/ UNCHANGED vars
           \/ \E messages \in lost : Requeue(messages)
           \/ \E c \in Consumers :
                \/ Deliver(c) \/ Settle(c) \/ Start(c) \/ Take(c) \/ Succeed(c)
                \/ Fail(c) \/ Wake(c) \/ GiveUp(c) \/ Ack(c) \/ Nack(c)
                \/ Stop(c)
  BY <1>1, <1>3 DEF Receive, vars, Requeue, Deliver, Settle, Start, Take,
                    Succeed, Fail, Wake, GiveUp, Ack, Nack, Answer, Stop
<1> QED
  BY <1>2, <1>3 DEF Next, Step

LEMMA CutSteps ==
    ASSUME TypeInv, [Next]_vars
    PROVE  \/ cuts' = cuts
           \/ \E c \in Consumers : Disconnect(c) \/ Crash(c)
<1>1. CASE \/ Receive \/ UNCHANGED vars
           \/ \E messages \in lost : Requeue(messages)
           \/ \E c \in Consumers :
                \/ Deliver(c) \/ Settle(c) \/ Start(c) \/ Take(c) \/ Return(c)
                \/ Succeed(c) \/ Fail(c) \/ Wake(c) \/ GiveUp(c) \/ Ack(c)
                \/ Nack(c) \/ Stop(c)
  BY <1>1 DEF Receive, vars, Requeue, Deliver, Settle, Start, Take, Return,
              Succeed, Fail, Wake, GiveUp, Ack, Nack, Answer, Stop
<1> QED
  BY <1>1 DEF Next, Step

\* A connection that breaks is the only one that does in this step.
LEMMA OneBreaks ==
    ASSUME TypeInv, NEW c \in Consumers, Disconnect(c) \/ Crash(c),
           NEW d \in Consumers, open[d], ~open'[d]
    PROVE  c = d
<1>1. open \in [Consumers -> BOOLEAN] /\ open' = [open EXCEPT ![c] = FALSE]
  BY Breaking DEF TypeInv, TypeOK
<1> QED
  BY <1>1

\* Who is at its Ack, or has written it, runs the handler no more.
LEMMA AckingIsOver ==
    ASSUME HeldInv, NEW c \in Consumers, NEW m \in Messages, Acking(c, m)
    PROVE  ~Pending(c, m)
<1>1. ChannelOf(c) /\ TypeInv /\ m # 0
  BY DEF HeldInv, Messages
<1>2. CASE pc[c] = "ack" /\ current[c] = m
  BY <1>1, <1>2 DEF ChannelOf, Pending
<1>3. CASE <<"ack", m>> \in ToSet(frames[c])
  <2>1. m \in Written(c)
    BY <1>3 DEF Written
  <2> QED
    BY <1>1, <2>1 DEF ChannelOf, Pending
<1> QED
  BY <1>2, <1>3 DEF Acking

\* Only a lost connection leaves m to someone who no longer holds it.
LEMMA StaleSteps ==
    ASSUME TypeInv, [Next]_vars, NEW m \in Messages,
           NEW d \in Stale(m)', d \notin Stale(m)
    PROVE  Disconnect(d) /\ open[d] /\ Pending(d, m)
<1>1. d \in Consumers /\ ~open'[d] /\ Pending(d, m)'
  BY DEF Stale
<1>2. ASSUME Return(d) \/ Crash(d)
      PROVE  FALSE
  <2>1. /\ pc \in [Consumers ->
                    {"down", "select", "try", "wait", "ack", "nack"}]
        /\ inbox \in [Consumers -> Seq(1 .. sent)]
    BY DEF TypeInv, TypeOK
  <2>2. inbox'[d] = << >> /\ pc'[d] = "down"
    BY <1>1, <1>2, <2>1 DEF Return, Crash
  <2> QED
    BY <1>1, <2>2, NothingIn DEF Pending
<1>3. Pending(d, m) \/ open[d]
  BY <1>1, PendingSteps DEF Deliver
<1>4. open[d] /\ Disconnect(d)
  BY <1>1, <1>2, <1>3, OpenSteps DEF Stale
<1>5. Pending(d, m)
  <2>1. UNCHANGED <<inbox, current, pc>>
    BY <1>4 DEF Disconnect
  <2> QED
    BY <1>1, <2>1 DEF Pending
<1> QED
  BY <1>4, <1>5

\* What accounted for a success goes only with a connection that breaks.
LEMMA CountedSteps ==
    ASSUME HeldInv, [Next]_vars, NEW m \in Messages,
           Counted(m) = 1, Counted(m)' # 1
    PROVE  \E c \in Consumers :
             /\ Disconnect(c) \/ Crash(c)
             /\ open[c] /\ ~open'[c] /\ Acking(c, m)
<1>1. TypeInv
  BY DEF HeldInv
<1>2. m \notin acked' /\ m \notin acked
  BY <1>1, SettledSteps DEF Counted
<1>3. PICK c \in Consumers : open[c] /\ Acking(c, m)
  BY <1>2 DEF Counted
<1>4. ~(open'[c] /\ Acking(c, m)')
  BY <1>2, <1>3 DEF Counted
<1>5. CASE Disconnect(c) \/ Crash(c)
  <2>1. ~open'[c]
    BY <1>1, <1>5, Breaking DEF TypeInv, TypeOK
  <2> QED
    BY <1>3, <1>5, <2>1
<1>6. CASE ~(Disconnect(c) \/ Crash(c))
  <2>1. Acking(c, m)'
    <3>1. CASE pc[c] = "ack" /\ current[c] = m
      BY <1>1, <1>3, <1>6, <3>1, AckSteps DEF Acking
    <3>2. CASE /\ <<"ack", m>> \in ToSet(frames[c])
               /\ <<"ack", m>> \notin ToSet(frames'[c])
      <4>1. Settle(c) /\ Head(frames[c]) = <<"ack", m>>
        BY <1>1, <1>6, <3>2, FrameGone
      <4> QED
        BY <1>2, <4>1 DEF Settle
    <3> QED
      BY <1>3, <3>1, <3>2 DEF Acking
  <2>2. open'[c]
    <3>1. ASSUME Return(c)
          PROVE  FALSE
      BY <1>3, <3>1, NothingIn DEF Return, Acking
    <3> QED
      BY <1>1, <1>3, <1>6, <3>1, OpenSteps
  <2> QED
    BY <1>4, <2>1, <2>2
<1> QED
  BY <1>5, <1>6

RepeatInv == PlaceInv /\ \A m \in Messages : Bounded(m)

LEMMA RepeatTypes ==
    ASSUME RepeatInv, NEW m \in Messages
    PROVE  /\ TypeInv /\ HeldInv /\ InOnePlace /\ Bounded(m)
           /\ cuts \in Nat /\ handled[m] \in Nat
           /\ IsFiniteSet(Stale(m)) /\ Cardinality(Stale(m)) \in Nat
           /\ Counted(m) \in {0, 1}
<1>1. TypeInv /\ HeldInv /\ InOnePlace /\ Bounded(m)
  BY DEF RepeatInv, PlaceInv, HeldInv
<1>2. cuts \in Nat /\ handled[m] \in Nat
  BY <1>1, BoundsAssumption DEF TypeInv, TypeOK
<1>3. IsFiniteSet(Stale(m)) /\ Cardinality(Stale(m)) \in Nat
  BY <1>1, FS_CardinalityType DEF Bounded
<1> QED
  BY <1>1, <1>2, <1>3 DEF Counted

\* The handler succeeds on m.
LEMMA SucceedBounded ==
    ASSUME RepeatInv, [Next]_vars, NEW m \in Messages,
           NEW c \in Consumers, Succeed(c), current[c] = m,
           handled'[m] = handled[m] + 1
    PROVE  Bounded(m)'
<1>1. /\ TypeInv /\ HeldInv /\ InOnePlace /\ Bounded(m)
      /\ cuts \in Nat /\ handled[m] \in Nat
      /\ IsFiniteSet(Stale(m)) /\ Cardinality(Stale(m)) \in Nat
      /\ Counted(m) \in {0, 1}
  BY RepeatTypes
<1>2. /\ cuts' = cuts /\ open' = open /\ inbox' = inbox /\ acked' = acked
      /\ frames' = frames
      /\ pc[c] = "try" /\ pc'[c] = "ack" /\ current' = current
      /\ \A d \in Consumers \ {c} : pc'[d] = pc[d]
  BY <1>1 DEF Succeed, TypeInv, TypeOK
<1>3. ASSUME NEW d \in Stale(m)'
      PROVE  d \in Stale(m)
  <2>1. CASE d = c
    BY <1>2, <2>1 DEF Stale, Pending
  <2>2. CASE d # c
    BY <1>2, <2>2 DEF Stale, Pending
  <2> QED
    BY <2>1, <2>2
<1>4. CASE open[c]
  <2>1. m \in held[c] /\ m \notin Written(c)
    <3>1. ChannelOf(c) /\ m # 0
      BY <1>1 DEF HeldInv, Messages
    <3> QED
      BY <1>4, <3>1 DEF ChannelOf
  <2>2. Counted(m) = 0
    <3>1. m \notin acked /\ \A d \in Consumers \ {c} : m \notin held[d]
      BY <1>1, <2>1 DEF InOnePlace, Settled
    <3>2. ASSUME NEW d \in Consumers, open[d], Acking(d, m)
          PROVE  FALSE
      <4>1. m \in {current[d]} \union Written(d) /\ m # 0
        BY <3>2 DEF Acking, Written, Messages
      <4>2. m \in held[d]
        <5>1. held[d] = (ToSet(inbox[d]) \union {current[d]}
                           \union Written(d)) \ {0}
          BY <1>1, <3>2 DEF HeldInv, ChannelOf
        <5> QED
          BY <4>1, <5>1
      <4>3. d = c
        BY <3>1, <4>2
      <4> QED
        BY <1>2, <2>1, <3>2, <4>3 DEF Acking, Written
    <3> QED
      BY <3>1, <3>2 DEF Counted
  <2>3. Counted(m)' = 1
    BY <1>2, <1>4 DEF Counted, Acking
  <2>4. /\ IsFiniteSet(Stale(m)')
        /\ Cardinality(Stale(m)') <= Cardinality(Stale(m))
        /\ Cardinality(Stale(m)') \in Nat
    BY <1>1, <1>3, FS_Subset, FS_CardinalityType
  <2> QED
    BY <1>1, <1>2, <2>2, <2>3, <2>4 DEF Bounded
<1>5. CASE ~open[c]
  <2>1. c \in Stale(m)
    BY <1>2, <1>5 DEF Stale, Pending
  <2>2. c \notin Stale(m)'
    <3>1. m \notin ToSet(inbox[c])
      BY <1>1 DEF HeldInv, ChannelOf
    <3> QED
      BY <1>2, <3>1 DEF Stale, Pending
  <2>3. Stale(m)' \subseteq Stale(m) \ {c}
    BY <1>3, <2>2
  <2>4. /\ IsFiniteSet(Stale(m) \ {c})
        /\ Cardinality(Stale(m) \ {c}) = Cardinality(Stale(m)) - 1
    BY <1>1, <2>1, FS_RemoveElement
  <2>5. /\ IsFiniteSet(Stale(m)')
        /\ Cardinality(Stale(m)') <= Cardinality(Stale(m)) - 1
        /\ Cardinality(Stale(m)') \in Nat
    BY <2>3, <2>4, FS_Subset, FS_CardinalityType
  <2>6. Counted(m)' \in {0, 1} /\ (Counted(m) = 1 => Counted(m)' = 1)
    <3>1. ASSUME NEW d \in Consumers, open[d], Acking(d, m)
          PROVE  open'[d] /\ Acking(d, m)'
      BY <1>2, <1>5, <3>1 DEF Acking
    <3> QED
      BY <1>2, <3>1 DEF Counted
  <2> QED
    BY <1>1, <1>2, <2>5, <2>6 DEF Bounded
<1> QED
  BY <1>4, <1>5

\* A connection breaks.
LEMMA CutBounded ==
    ASSUME RepeatInv, [Next]_vars, NEW m \in Messages,
           NEW c \in Consumers, Disconnect(c) \/ Crash(c)
    PROVE  Bounded(m)'
<1>1. /\ TypeInv /\ HeldInv /\ InOnePlace /\ Bounded(m)
      /\ cuts \in Nat /\ handled[m] \in Nat
      /\ IsFiniteSet(Stale(m)) /\ Cardinality(Stale(m)) \in Nat
      /\ Counted(m) \in {0, 1}
  BY RepeatTypes
<1>2. cuts' = cuts + 1 /\ handled' = handled
  BY Breaking
<1>3. ASSUME NEW d \in Stale(m)', d \notin Stale(m)
      PROVE  d = c /\ Pending(c, m)
  <2>1. /\ Disconnect(d) /\ open[d] /\ Pending(d, m)
        /\ d \in Consumers /\ ~open'[d]
    BY <1>1, <1>3, StaleSteps DEF Stale
  <2> QED
    BY <1>1, <2>1, OneBreaks
<1>4. CASE Counted(m) = 1 /\ Counted(m)' # 1
  <2>1. ~Pending(c, m)
    <3>1. PICK d \in Consumers : open[d] /\ ~open'[d] /\ Acking(d, m)
      BY <1>1, <1>4, CountedSteps
    <3>2. d = c
      BY <1>1, <3>1, OneBreaks
    <3> QED
      BY <1>1, <3>1, <3>2, AckingIsOver
  <2>2. Stale(m)' \subseteq Stale(m)
    BY <1>3, <2>1
  <2>3. /\ IsFiniteSet(Stale(m)')
        /\ Cardinality(Stale(m)') <= Cardinality(Stale(m))
        /\ Cardinality(Stale(m)') \in Nat
    BY <1>1, <2>2, FS_Subset, FS_CardinalityType
  <2>4. Counted(m)' = 0
    BY <1>4 DEF Counted
  <2> QED
    BY <1>1, <1>2, <1>4, <2>3, <2>4 DEF Bounded
<1>5. CASE ~(Counted(m) = 1 /\ Counted(m)' # 1)
  <2>1. Stale(m)' \subseteq Stale(m) \union {c}
    BY <1>3
  <2>2. /\ IsFiniteSet(Stale(m) \union {c})
        /\ Cardinality(Stale(m) \union {c}) <= Cardinality(Stale(m)) + 1
        /\ Cardinality(Stale(m) \union {c}) \in Nat
    <3>1. CASE c \in Stale(m)
      <4>1. Stale(m) \union {c} = Stale(m)
        BY <3>1
      <4>2. /\ IsFiniteSet(Stale(m) \union {c})
            /\ Cardinality(Stale(m) \union {c}) = Cardinality(Stale(m))
        BY <1>1, <4>1, Zenon
      <4> QED
        BY <1>1, <4>2
    <3>2. CASE c \notin Stale(m)
      BY <1>1, <3>2, FS_AddElement
    <3> QED
      BY <3>1, <3>2
  <2>3. /\ IsFiniteSet(Stale(m)')
        /\ Cardinality(Stale(m)') <= Cardinality(Stale(m) \union {c})
        /\ Cardinality(Stale(m)') \in Nat
    BY <2>1, <2>2, FS_Subset, FS_CardinalityType
  <2>4. Cardinality(Stale(m)') <= Cardinality(Stale(m)) + 1
    BY <1>1, <2>2, <2>3
  <2>5. Counted(m)' \in {0, 1} /\ Counted(m) <= Counted(m)'
    BY <1>1, <1>5 DEF Counted
  <2> QED
    BY <1>1, <1>2, <2>3, <2>4, <2>5 DEF Bounded
<1> QED
  BY <1>4, <1>5

LEMMA RepeatInvNext == RepeatInv /\ [Next]_vars => RepeatInv'
<1> SUFFICES ASSUME RepeatInv, [Next]_vars
             PROVE  RepeatInv'
  OBVIOUS
<1>1. PlaceInv'
  BY PlaceInvNext DEF RepeatInv
<1> SUFFICES ASSUME NEW m \in Messages
             PROVE  Bounded(m)'
  BY <1>1 DEF RepeatInv
<1>2. /\ TypeInv /\ HeldInv /\ InOnePlace /\ Bounded(m)
      /\ cuts \in Nat /\ handled[m] \in Nat
      /\ IsFiniteSet(Stale(m)) /\ Cardinality(Stale(m)) \in Nat
      /\ Counted(m) \in {0, 1}
  BY RepeatTypes
<1>3. ASSUME NEW c \in Consumers, Disconnect(c) \/ Crash(c)
      PROVE  Bounded(m)'
  BY <1>3, CutBounded
<1>4. CASE handled'[m] # handled[m]
  BY <1>2, <1>4, HandledSteps, SucceedBounded
<1>5. CASE /\ handled'[m] = handled[m]
           /\ ~ \E c \in Consumers : Disconnect(c) \/ Crash(c)
  <2>1. cuts' = cuts
    BY <1>2, <1>5, CutSteps
  <2>2. Stale(m)' \subseteq Stale(m)
    <3>1. ASSUME NEW d \in Stale(m)', d \notin Stale(m)
          PROVE  FALSE
      BY <1>2, <1>5, <3>1, StaleSteps DEF Stale
    <3> QED
      BY <3>1
  <2>3. Counted(m)' \in {0, 1} /\ Counted(m) <= Counted(m)'
    <3>1. Counted(m) = 1 => Counted(m)' = 1
      BY <1>2, <1>5, CountedSteps
    <3> QED
      BY <1>2, <3>1 DEF Counted
  <2>4. /\ IsFiniteSet(Stale(m)')
        /\ Cardinality(Stale(m)') <= Cardinality(Stale(m))
        /\ Cardinality(Stale(m)') \in Nat
    BY <1>2, <2>2, FS_Subset, FS_CardinalityType
  <2> QED
    BY <1>2, <1>5, <2>1, <2>3, <2>4 DEF Bounded
<1> QED
  BY <1>3, <1>4, <1>5

\* A message is handled again only for a crash or a lost connection between
\* its handler and the broker's reading of its Ack (consumer.go:160,
\* subscriber.go:138-141): shutdowns repeat none, with any number of consumers
\* and deliveries that outlive their connection.
THEOREM RepetitionNeedsACut == Spec => []RepeatsNeedCuts
<1>1. Init => RepeatInv
  <2> SUFFICES ASSUME Init
               PROVE  RepeatInv
    OBVIOUS
  <2>1. ASSUME NEW m \in Messages
        PROVE  Bounded(m)
    <3>1. /\ \A c \in Consumers : ~Pending(c, m)
          /\ handled[m] = 0 /\ cuts = 0 /\ Counted(m) \in {0, 1}
      BY NothingIn DEF Init, Pending, Counted
    <3>2. Stale(m) = {}
      BY <3>1 DEF Stale
    <3> QED
      BY <3>1, <3>2, FS_EmptySet DEF Bounded
  <2> QED
    BY <2>1, PlaceInvInit DEF RepeatInv
<1>2. RepeatInv => RepeatsNeedCuts
  <2> SUFFICES ASSUME RepeatInv, NEW m \in Messages
               PROVE  handled[m] <= 1 + cuts
    BY DEF RepeatsNeedCuts
  <2> QED
    BY RepeatTypes DEF Bounded
<1> QED
  BY <1>1, <1>2, RepeatInvNext, PTL DEF Spec

-----------------------------------------------------------------------------
(***************************************************************************)
(* The order of one consumer.  A message is fresh while no broken          *)
(* connection has held it and it has not been taken.  What is fresh comes  *)
(* behind all that is not, so what is taken fresh comes behind whatever    *)
(* was handled before.                                                     *)
(***************************************************************************)

Ordered(s, S) ==
    \A i, j \in 1 .. Len(s) :
        i < j /\ s[i] \notin S /\ s[j] \notin S => s[i] < s[j]

LEMMA OrderedAppend ==
    ASSUME NEW s \in Seq(Nat), NEW S, Ordered(s, S), NEW x \in Nat,
           x \notin S => \A y \in ToSet(s) \ S : y < x
    PROVE  Ordered(Append(s, x), S)
<1>1. /\ Len(Append(s, x)) = Len(s) + 1 /\ Len(s) \in Nat
      /\ DOMAIN s = 1 .. Len(s)
      /\ Append(s, x)[Len(s) + 1] = x
      /\ \A i \in 1 .. Len(s) : Append(s, x)[i] = s[i]
  OBVIOUS
<1> SUFFICES ASSUME NEW i \in 1 .. Len(s) + 1, NEW j \in 1 .. Len(s) + 1,
                    i < j, Append(s, x)[i] \notin S, Append(s, x)[j] \notin S
             PROVE  Append(s, x)[i] < Append(s, x)[j]
  BY <1>1 DEF Ordered
<1>2. i \in 1 .. Len(s)
  BY <1>1
<1>3. CASE j \in 1 .. Len(s)
  BY <1>1, <1>2, <1>3 DEF Ordered
<1>4. CASE j = Len(s) + 1
  <2>1. s[i] \in ToSet(s)
    BY <1>1, <1>2 DEF ToSet
  <2> QED
    BY <1>1, <1>2, <1>4, <2>1
<1> QED
  BY <1>1, <1>3, <1>4

LEMMA OrderedTail ==
    ASSUME NEW s \in Seq(Nat), s # << >>, NEW S, Ordered(s, S)
    PROVE  /\ Ordered(Tail(s), S)
           /\ Head(s) \notin S => \A y \in ToSet(Tail(s)) \ S : Head(s) < y
<1>1. /\ Len(s) \in Nat \ {0} /\ Head(s) = s[1]
      /\ Len(Tail(s)) = Len(s) - 1
      /\ DOMAIN Tail(s) = 1 .. Len(s) - 1
      /\ \A i \in 1 .. Len(s) - 1 : Tail(s)[i] = s[i + 1]
  OBVIOUS
<1>2. \A i \in 1 .. Len(s) - 1 : i + 1 \in 1 .. Len(s) /\ 1 < i + 1
  BY <1>1
<1>3. ASSUME NEW i \in 1 .. Len(s) - 1, NEW j \in 1 .. Len(s) - 1,
             i < j, Tail(s)[i] \notin S, Tail(s)[j] \notin S
      PROVE  Tail(s)[i] < Tail(s)[j]
  <2>1. i + 1 < j + 1 /\ i + 1 \in 1 .. Len(s) /\ j + 1 \in 1 .. Len(s)
    BY <1>1, <1>2, <1>3
  <2> QED
    BY <1>1, <1>3, <2>1 DEF Ordered
<1>4. ASSUME Head(s) \notin S, NEW y \in ToSet(Tail(s)) \ S
      PROVE  Head(s) < y
  <2>1. PICK i \in 1 .. Len(s) - 1 : y = Tail(s)[i]
    BY <1>1 DEF ToSet
  <2> QED
    BY <1>1, <1>2, <1>4, <2>1 DEF Ordered
<1> QED
  BY <1>1, <1>3, <1>4 DEF Ordered

\* Where more is left out, no less is in order.
LEMMA OrderedWithout ==
    ASSUME NEW s, NEW S, NEW T, S \subseteq T, Ordered(s, S)
    PROVE  Ordered(s, T)
BY DEF Ordered

Fresh(c) == (ready \union ToSet(inbox[c])) \ cutOff

Touched(c) == (1 .. sent) \ Fresh(c)

OrderOf(c) ==
    /\ \A f \in Fresh(c) : \A x \in Touched(c) : x < f
    /\ \A f \in ToSet(inbox[c]) \ cutOff : \A r \in ready \ cutOff : f < r
    /\ Ordered(inbox[c], cutOff)
    /\ ~open[c] => (ToSet(inbox[c]) \union {current[c]}) \ {0} \subseteq cutOff
    /\ current[c] \notin {0} \union cutOff =>
         /\ current[c] \in Touched(c)
         /\ \A x \in Touched(c) : x <= current[c]
    /\ UNION lost \subseteq cutOff
    /\ \A n \in Messages : handled[n] > 0 => n \in Touched(c)

OrderInv(c) == PlaceInv /\ OrderOf(c)

LEMMA OrderTypes ==
    ASSUME NEW c \in Consumers, OrderInv(c)
    PROVE  /\ TypeInv /\ HeldInv /\ InOnePlace /\ ChannelOf(c) /\ OrderOf(c)
           /\ sent \in Nat /\ ready \in SUBSET (1 .. sent)
           /\ cutOff \in SUBSET (1 .. sent)
           /\ ToSet(inbox[c]) \in SUBSET (1 .. sent)
           /\ inbox[c] \in Seq(1 .. sent) /\ inbox[c] \in Seq(Nat)
           /\ current[c] \in 0 .. sent
           /\ held[c] \in SUBSET (1 .. sent)
<1>1. TypeInv /\ HeldInv /\ InOnePlace /\ ChannelOf(c) /\ OrderOf(c)
  BY DEF OrderInv, PlaceInv, HeldInv
<1>2. /\ sent \in Nat /\ ready \in SUBSET (1 .. sent)
      /\ cutOff \in SUBSET (1 .. sent)
      /\ inbox[c] \in Seq(1 .. sent)
      /\ current[c] \in 0 .. sent
      /\ held[c] \in SUBSET (1 .. sent)
  BY <1>1, BoundsAssumption DEF TypeInv, TypeOK
<1>3. ToSet(inbox[c]) \in SUBSET (1 .. sent)
  BY <1>1, OnlyMessages
<1>4. inbox[c] \in Seq(Nat)
  <2>1. 1 .. sent \subseteq Nat
    OBVIOUS
  <2> QED
    BY <1>2, <2>1, WiderSeq
<1> QED
  BY <1>1, <1>2, <1>3, <1>4

\* What is in the inbox of a working connection, or in hand, is not ready.
LEMMA InHandNotReady ==
    ASSUME NEW c \in Consumers, OrderInv(c),
           NEW m \in (ToSet(inbox[c]) \union {current[c]}) \ {0},
           m \notin cutOff
    PROVE  open[c] /\ m \in held[c] /\ m \notin ready
<1>1. InOnePlace /\ ChannelOf(c) /\ OrderOf(c)
  BY OrderTypes
<1>2. open[c]
  BY <1>1 DEF OrderOf
<1>3. m \in held[c]
  BY <1>1, <1>2 DEF ChannelOf
<1> QED
  BY <1>1, <1>2, <1>3 DEF InOnePlace

\* What the consumer is at is no longer fresh, and the last unless it is cut off.
LEMMA CurrentTouched ==
    ASSUME NEW c \in Consumers, OrderInv(c), current[c] # 0
    PROVE  /\ current[c] \in Touched(c)
           /\ current[c] \notin cutOff =>
                \A x \in Touched(c) : x <= current[c]
<1>1. OrderOf(c) /\ current[c] \in 1 .. sent
  BY OrderTypes, CurrentArrived
<1>2. CASE current[c] \in cutOff
  BY <1>1, <1>2 DEF Touched, Fresh
<1>3. CASE current[c] \notin cutOff
  BY <1>1, <1>3 DEF OrderOf
<1> QED
  BY <1>2, <1>3

LEMMA ReceiveInOrder ==
    ASSUME NEW c \in Consumers, OrderInv(c), Receive
    PROVE  OrderOf(c)' /\ Touched(c) \subseteq Touched(c)'
<1>1. /\ TypeInv /\ OrderOf(c)
      /\ sent \in Nat /\ ready \in SUBSET (1 .. sent)
      /\ cutOff \in SUBSET (1 .. sent)
      /\ ToSet(inbox[c]) \in SUBSET (1 .. sent)
  BY OrderTypes
<1>2. /\ sent' = sent + 1 /\ ready' = ready \union {sent + 1}
      /\ UNCHANGED <<lost, open, inbox, current, handled, cutOff>>
  BY DEF Receive
<1>3. /\ 1 .. sent' = (1 .. sent) \union {sent + 1}
      /\ sent + 1 \notin 1 .. sent /\ \A x \in 1 .. sent : x < sent + 1
  BY <1>1, <1>2
<1>4. Fresh(c)' = Fresh(c) \union {sent + 1} /\ Touched(c)' = Touched(c)
  BY <1>1, <1>2, <1>3 DEF Fresh, Touched
<1>5. \A f \in Fresh(c)' : \A x \in Touched(c)' : x < f
  <2>1. Touched(c) \subseteq 1 .. sent
    BY DEF Touched
  <2> QED
    BY <1>1, <1>3, <1>4, <2>1 DEF OrderOf
<1>6. \A f \in ToSet(inbox'[c]) \ cutOff' : \A r \in ready' \ cutOff' : f < r
  BY <1>1, <1>2, <1>3 DEF OrderOf
<1> QED
  BY <1>1, <1>2, <1>4, <1>5, <1>6 DEF OrderOf

LEMMA DeliverInOrder ==
    ASSUME NEW c \in Consumers, OrderInv(c), Deliver(c)
    PROVE  OrderOf(c)' /\ Touched(c) \subseteq Touched(c)'
<1> DEFINE m == First(ready)
<1>1. /\ TypeInv /\ OrderOf(c)
      /\ sent \in Nat /\ ready \in SUBSET (1 .. sent)
      /\ cutOff \in SUBSET (1 .. sent)
      /\ ToSet(inbox[c]) \in SUBSET (1 .. sent)
      /\ inbox[c] \in Seq(1 .. sent) /\ inbox[c] \in Seq(Nat)
  BY OrderTypes
<1>2. /\ open[c] /\ ready' = ready \ {m}
      /\ inbox'[c] = Append(inbox[c], m)
      /\ UNCHANGED <<sent, lost, open, current, handled, cutOff>>
  BY <1>1 DEF Deliver, TypeInv, TypeOK
<1>3. m \in ready /\ m \in 1 .. sent /\ m \in Nat /\ \A n \in ready : m <= n
  BY <1>1, FirstReady DEF Deliver
<1> HIDE DEF m
<1>4. ToSet(inbox'[c]) = ToSet(inbox[c]) \union {m}
  <2>1. inbox[c] \in Seq(Nat) /\ m \in Nat
    BY <1>1, <1>3
  <2> QED
    BY <1>2, <2>1, Appending
<1>5. Fresh(c)' = Fresh(c) /\ Touched(c)' = Touched(c)
  BY <1>2, <1>3, <1>4 DEF Fresh, Touched
<1>6. \A f \in ToSet(inbox'[c]) \ cutOff : \A r \in ready' \ cutOff : f < r
  BY <1>1, <1>2, <1>3, <1>4 DEF OrderOf
<1>7. Ordered(inbox'[c], cutOff)
  <2>1. m \notin cutOff => \A y \in ToSet(inbox[c]) \ cutOff : y < m
    BY <1>1, <1>3 DEF OrderOf
  <2> QED
    BY <1>1, <1>2, <1>3, <2>1, OrderedAppend DEF OrderOf
<1> QED
  BY <1>1, <1>2, <1>5, <1>6, <1>7 DEF OrderOf

LEMMA TakeInOrder ==
    ASSUME NEW c \in Consumers, OrderInv(c), Take(c)
    PROVE  OrderOf(c)' /\ Touched(c) \subseteq Touched(c)'
<1> DEFINE m == Head(inbox[c])
<1>1. /\ TypeInv /\ OrderOf(c) /\ ChannelOf(c)
      /\ sent \in Nat /\ ready \in SUBSET (1 .. sent)
      /\ cutOff \in SUBSET (1 .. sent)
      /\ inbox[c] \in Seq(Nat)
  BY OrderTypes
<1>2. /\ inbox[c] # << >> /\ inbox'[c] = Tail(inbox[c]) /\ current'[c] = m
      /\ UNCHANGED <<sent, ready, lost, open, handled, cutOff>>
  BY <1>1 DEF Take, TypeInv, TypeOK
<1>3. /\ m \in 1 .. sent /\ m # 0
      /\ ToSet(inbox[c]) = {m} \union ToSet(inbox'[c])
      /\ m \notin ToSet(inbox'[c])
  <2>1. Distinct(inbox[c])
    BY <1>1 DEF ChannelOf
  <2>2. /\ m \in 1 .. sent
        /\ ToSet(inbox[c]) = {m} \union ToSet(Tail(inbox[c]))
        /\ m \notin ToSet(Tail(inbox[c]))
    BY <1>1, <1>2, <2>1, NextTaken
  <2> QED
    BY <1>1, <1>2, <2>2
<1>4. /\ Ordered(inbox'[c], cutOff)
      /\ m \notin cutOff => \A y \in ToSet(inbox'[c]) \ cutOff : m < y
  BY <1>1, <1>2, OrderedTail DEF OrderOf
<1>5. m \notin cutOff => m \notin ready
  BY <1>3, InHandNotReady
<1> HIDE DEF m
<1>6. Fresh(c)' = Fresh(c) \ {m}
  BY <1>2, <1>3, <1>5 DEF Fresh
<1>7. Touched(c)' = Touched(c) \union {m}
  BY <1>2, <1>3, <1>6 DEF Touched
<1>8. ~open'[c] => (ToSet(inbox'[c]) \union {current'[c]}) \ {0}
                     \subseteq cutOff
  BY <1>1, <1>2, <1>3 DEF OrderOf
<1>9. CASE m \in cutOff
  <2>1. Fresh(c)' = Fresh(c) /\ Touched(c)' = Touched(c)
    BY <1>2, <1>3, <1>6, <1>7, <1>9 DEF Fresh, Touched
  <2> QED
    BY <1>1, <1>2, <1>3, <1>4, <1>8, <1>9, <2>1 DEF OrderOf
<1>10. CASE m \notin cutOff
  <2>1. m \in Fresh(c)
    BY <1>3, <1>10 DEF Fresh
  <2>2. \A x \in Touched(c) : x < m
    BY <1>1, <2>1 DEF OrderOf
  <2>3. \A f \in Fresh(c)' : m < f
    BY <1>1, <1>2, <1>3, <1>4, <1>6, <1>10 DEF OrderOf, Fresh
  <2>4. \A f \in Fresh(c)' : \A x \in Touched(c)' : x < f
    BY <1>1, <1>6, <1>7, <2>3 DEF OrderOf
  <2>5. \A x \in Touched(c)' : x <= m
    <3>1. Touched(c) \subseteq 1 .. sent
      BY DEF Touched
    <3> QED
      BY <1>3, <1>7, <2>2, <3>1
  <2>6. \A f \in ToSet(inbox'[c]) \ cutOff : \A r \in ready \ cutOff : f < r
    BY <1>1, <1>3 DEF OrderOf
  <2>7. \A n \in Messages : handled'[n] > 0 => n \in Touched(c)'
    BY <1>1, <1>2, <1>7 DEF OrderOf
  <2> QED
    BY <1>1, <1>2, <1>4, <1>7, <1>8, <2>4, <2>5, <2>6, <2>7 DEF OrderOf
<1> QED
  BY <1>9, <1>10

LEMMA ReturnInOrder ==
    ASSUME NEW c \in Consumers, OrderInv(c), Return(c)
    PROVE  OrderOf(c)' /\ Touched(c) \subseteq Touched(c)'
<1>1. /\ TypeInv /\ OrderOf(c) /\ ChannelOf(c)
      /\ sent \in Nat /\ ready \in SUBSET (1 .. sent)
      /\ cutOff \in SUBSET (1 .. sent)
      /\ 0 \notin ToSet(inbox[c])
  BY OrderTypes, OnlyMessages
<1>2. /\ pc[c] = "select" /\ frames[c] = << >>
      /\ open'[c] = FALSE /\ inbox'[c] = << >>
      /\ ready' = ready \union held[c]
      /\ UNCHANGED <<sent, lost, current, handled, cutOff>>
  BY <1>1 DEF Return, TypeInv, TypeOK
<1>3. current[c] = 0 /\ Written(c) = {} /\ ToSet(inbox'[c]) = {}
  BY <1>1, <1>2, NothingIn DEF TypeInv, LoopInv, Written
<1>4. Fresh(c)' = Fresh(c)
  <2>1. CASE open[c]
    <3>1. held[c] = ToSet(inbox[c])
      BY <1>1, <1>3, <2>1 DEF ChannelOf
    <3> QED
      BY <1>2, <1>3, <3>1 DEF Fresh
  <2>2. CASE ~open[c]
    <3>1. held[c] = {} /\ ToSet(inbox[c]) \subseteq cutOff
      BY <1>1, <2>2 DEF ChannelOf, OrderOf
    <3> QED
      BY <1>2, <1>3, <3>1 DEF Fresh
  <2> QED
    BY <2>1, <2>2
<1>5. Touched(c)' = Touched(c)
  BY <1>2, <1>4 DEF Touched
<1>6. Ordered(inbox'[c], cutOff)
  BY <1>2 DEF Ordered
<1> QED
  BY <1>1, <1>2, <1>3, <1>4, <1>5, <1>6 DEF OrderOf

LEMMA BreakInOrder ==
    ASSUME NEW c \in Consumers, OrderInv(c), Disconnect(c) \/ Crash(c)
    PROVE  OrderOf(c)' /\ Touched(c) \subseteq Touched(c)'
<1>1. /\ TypeInv /\ OrderOf(c) /\ ChannelOf(c) /\ InOnePlace
      /\ sent \in Nat /\ ready \in SUBSET (1 .. sent)
      /\ cutOff \in SUBSET (1 .. sent)
      /\ ToSet(inbox[c]) \in SUBSET (1 .. sent)
      /\ held[c] \in SUBSET (1 .. sent)
  BY OrderTypes
<1>2. /\ open'[c] = FALSE /\ cutOff' = cutOff \union held[c]
      /\ lost' = lost \union ({held[c]} \ {{}})
      /\ UNCHANGED <<sent, ready, handled>>
      /\ \/ UNCHANGED <<current, inbox>>
         \/ current'[c] = 0 /\ inbox'[c] = << >>
  BY <1>1, Breaking DEF TypeInv, TypeOK
<1>3. /\ (ToSet(inbox[c]) \union {current[c]}) \ {0} \subseteq cutOff'
      /\ held[c] \intersect ready = {}
  BY <1>1, <1>2 DEF ChannelOf, OrderOf, InOnePlace
<1>4. (ToSet(inbox'[c]) \union {current'[c]}) \ {0} \subseteq cutOff'
  BY <1>2, <1>3, NothingIn
<1>5. 0 \notin ToSet(inbox'[c]) /\ ToSet(inbox'[c]) \subseteq cutOff'
  <2>1. 0 \notin ToSet(inbox'[c])
    BY <1>1, <1>2, NothingIn
  <2> QED
    BY <1>4, <2>1
<1>6. Fresh(c)' = ready \ cutOff
  BY <1>2, <1>3, <1>5 DEF Fresh
<1>7. Touched(c) \subseteq Touched(c)'
        /\ Touched(c)' \subseteq Touched(c) \union (ToSet(inbox[c]) \ cutOff)
  BY <1>2, <1>6 DEF Touched, Fresh
<1>8. \A f \in Fresh(c)' : \A x \in Touched(c)' : x < f
  <2>1. Fresh(c)' \subseteq Fresh(c)
    BY <1>6 DEF Fresh
  <2> QED
    BY <1>1, <1>6, <1>7, <2>1 DEF OrderOf
<1>9. Ordered(inbox'[c], cutOff')
  BY <1>1, <1>2, OrderedWithout DEF OrderOf, Ordered
<1>10. UNION lost' \subseteq cutOff'
  <2>1. ASSUME NEW x \in UNION lost'
        PROVE  x \in cutOff'
    <3>1. PICK h \in lost' : x \in h
      OBVIOUS
    <3> QED
      BY <1>1, <1>2, <3>1 DEF OrderOf
  <2> QED
    BY <2>1
<1>11. \A n \in Messages : handled'[n] > 0 => n \in Touched(c)'
  BY <1>1, <1>2, <1>7 DEF OrderOf
<1> QED
  BY <1>2, <1>4, <1>5, <1>7, <1>8, <1>9, <1>10, <1>11 DEF OrderOf

LEMMA SucceedInOrder ==
    ASSUME NEW c \in Consumers, OrderInv(c), Succeed(c)
    PROVE  OrderOf(c)' /\ Touched(c) \subseteq Touched(c)'
<1>1. OrderOf(c) /\ handled \in [Messages -> Nat]
  BY OrderTypes DEF TypeInv, TypeOK
<1>2. /\ handled' = [handled EXCEPT ![current[c]] = @ + 1]
      /\ UNCHANGED <<sent, ready, lost, open, inbox, current, cutOff>>
  BY DEF Succeed
<1>3. Fresh(c)' = Fresh(c) /\ Touched(c)' = Touched(c)
  BY <1>2 DEF Fresh, Touched
<1>4. current[c] \in Touched(c)
  BY OrderTypes, CurrentTouched DEF Succeed, TypeInv, LoopInv
<1>5. \A n \in Messages : handled'[n] > 0 => n \in Touched(c)
  BY <1>1, <1>2, <1>4 DEF OrderOf
<1> QED
  BY <1>1, <1>2, <1>3, <1>5 DEF OrderOf

LEMMA OrderInvNext ==
    ASSUME NEW c \in Consumers, Consumers = {c}
    PROVE  OrderInv(c) /\ [Next]_vars =>
               OrderInv(c)' /\ Touched(c) \subseteq Touched(c)'
<1> SUFFICES ASSUME OrderInv(c), [Next]_vars
             PROVE  OrderInv(c)' /\ Touched(c) \subseteq Touched(c)'
  OBVIOUS
<1>1. PlaceInv'
  BY PlaceInvNext DEF OrderInv
<1> SUFFICES OrderOf(c)' /\ Touched(c) \subseteq Touched(c)'
  BY <1>1 DEF OrderInv
<1>2. /\ TypeInv /\ OrderOf(c)
      /\ open \in [Consumers -> BOOLEAN]
      /\ current \in [Consumers -> 0 .. sent]
  BY OrderTypes DEF TypeInv, TypeOK
<1>3. CASE Receive
  BY <1>3, ReceiveInOrder
<1>4. CASE Deliver(c) \/ Take(c) \/ Return(c) \/ Disconnect(c) \/ Crash(c)
             \/ Succeed(c)
  BY <1>4, DeliverInOrder, TakeInOrder, ReturnInOrder, BreakInOrder,
     SucceedInOrder
<1>5. ASSUME NEW messages \in lost, Requeue(messages)
      PROVE  OrderOf(c)' /\ Touched(c) \subseteq Touched(c)'
  <2>1. /\ ready' = ready \union messages /\ lost' = lost \ {messages}
        /\ UNCHANGED <<sent, open, inbox, current, handled, cutOff>>
    BY <1>5 DEF Requeue
  <2>2. messages \subseteq cutOff /\ UNION lost' \subseteq cutOff
    BY <1>2, <2>1 DEF OrderOf
  <2>3. Fresh(c)' = Fresh(c) /\ Touched(c)' = Touched(c)
    BY <2>1, <2>2 DEF Fresh, Touched
  <2> QED
    BY <1>2, <2>1, <2>2, <2>3 DEF OrderOf
<1>6. CASE \/ Settle(c) \/ Fail(c) \/ Wake(c) \/ GiveUp(c) \/ Stop(c)
           \/ UNCHANGED vars
  <2>1. UNCHANGED <<sent, ready, lost, open, inbox, current, handled, cutOff>>
    BY <1>6 DEF Settle, Fail, Wake, GiveUp, Stop, vars
  <2>2. Fresh(c)' = Fresh(c) /\ Touched(c)' = Touched(c)
    BY <2>1 DEF Fresh, Touched
  <2> QED
    BY <1>2, <2>1, <2>2 DEF OrderOf
<1>7. CASE Start(c) \/ Ack(c) \/ Nack(c)
  <2>1. /\ UNCHANGED <<sent, ready, lost, inbox, handled, cutOff>>
        /\ current'[c] \in {0, current[c]} /\ (open'[c] \/ open' = open)
    BY <1>2, <1>7 DEF Start, Ack, Nack, Answer
  <2>2. Fresh(c)' = Fresh(c) /\ Touched(c)' = Touched(c)
    BY <2>1 DEF Fresh, Touched
  <2> QED
    BY <1>2, <2>1, <2>2 DEF OrderOf
<1> QED
  BY <1>3, <1>4, <1>5, <1>6, <1>7 DEF Next, Step

LEMMA OrderInvInit ==
    ASSUME NEW c \in Consumers
    PROVE  Init => OrderInv(c)
BY PlaceInvInit, NothingIn
   DEF Init, OrderInv, OrderOf, Ordered, Fresh, Touched

\* What has been handled is behind what is handled next, unless a connection
\* broke that held it.
LEMMA HandlesInOrder ==
    ASSUME NEW c \in Consumers, Consumers = {c}, OrderInv(c), [Next]_vars,
           NEW m \in Messages, NEW n \in Messages,
           m < n, handled[n] > 0, m \notin cutOff
    PROVE  handled'[m] = handled[m]
<1>1. TypeInv /\ OrderOf(c)
  BY OrderTypes
<1> SUFFICES ASSUME Succeed(c), current[c] = m
             PROVE  FALSE
  BY <1>1, HandledSteps
<1>2. n \in Touched(c) /\ m # 0
  BY <1>1 DEF OrderOf, Messages
<1>3. n <= m
  BY <1>2, CurrentTouched
<1> QED
  BY <1>3 DEF Messages

\* With one consumer, a message is handled behind a later one only if a broken
\* connection held it: failures, retries with their delays, dead letters and
\* shutdowns keep the order, for any prefetch and any number of messages.
THEOREM OneConsumerKeepsOrder ==
    ASSUME NEW c \in Consumers, Consumers = {c}
    PROVE  Spec => HandledInOrder
<1> DEFINE InOrder ==
             \A m, n \in Messages :
               m < n /\ handled[n] > 0 /\ m \notin cutOff =>
                   handled'[m] = handled[m]
<1>1. OrderInv(c) /\ [Next]_vars => InOrder
  BY HandlesInOrder
<1>2. OrderInv(c) /\ [Next]_vars => OrderInv(c)'
  BY OrderInvNext
<1>3. Init => OrderInv(c)
  BY OrderInvInit
<1>4. Spec => [][InOrder]_vars
  <2> HIDE DEF InOrder
  <2> QED
    BY <1>1, <1>2, <1>3, PTL DEF Spec
<1> QED
  BY <1>4 DEF HandledInOrder
=============================================================================
