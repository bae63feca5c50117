--------------------------- MODULE IdempotencyProofs ---------------------------
(***************************************************************************)
(* Proofs about Idempotency for any sets of keys, bodies and requests,     *)
(* with every call to Redis and to the database free to fail.              *)
(***************************************************************************)
EXTENDS Idempotency, TLAPS

USE DEF Key, ttls

\* The types, for every step.
LEMMA TypeInit == Init => TypeOK
BY DEF Init, TypeOK, Steps, Answers, Refusal, Cached

LEMMA MatchTyped ==
    ASSUME TypeOK, NEW r \in Requests, NEW cached \in Cached
    PROVE  Match(r, cached) \in Answers
BY DEF TypeOK, Match, Refusal, Answers, Cached

LEMMA RefusalTyped ==
    /\ Refusal("error") \in Answers
    /\ Refusal("processing") \in Answers
BY DEF Refusal, Answers

LEMMA TypeNext == TypeOK /\ [Next]_vars => TypeOK'
<1> SUFFICES ASSUME TypeOK, [Next]_vars
             PROVE  TypeOK'
  OBVIOUS
<1> USE RefusalTyped DEF TypeOK, Goto, Answer, Steps
<1>1. ASSUME NEW r \in Requests, Arrive(r)
      PROVE  TypeOK'
  BY <1>1 DEF Arrive
<1>2. ASSUME NEW r \in Requests, Find(r)
      PROVE  TypeOK'
  <2>1. data[Key(r)] # None => Match(r, data[Key(r)]) \in Answers
    BY MatchTyped
  <2> QED
    BY <1>2, <2>1 DEF Find
<1>3. ASSUME NEW r \in Requests, Lock(r)
      PROVE  TypeOK'
  BY <1>3 DEF Lock
<1>4. ASSUME NEW r \in Requests, Refind(r)
      PROVE  TypeOK'
  <2>1. data[Key(r)] # None => Match(r, data[Key(r)]) \in Answers
    BY MatchTyped
  <2> QED
    BY <1>4, <2>1 DEF Refind
<1>5. ASSUME NEW r \in Requests, Create(r)
      PROVE  TypeOK'
  BY <1>5 DEF Create
<1>6. ASSUME NEW r \in Requests, Reject(r)
      PROVE  TypeOK'
  BY <1>6 DEF Reject
<1>7. ASSUME NEW r \in Requests, Save(r)
      PROVE  TypeOK'
  <2>1. [status |-> "created", payment |-> r] \in Answers
    BY DEF Answers
  <2>2. [body |-> call[r].body, payment |-> r] \in Cached
    BY DEF Cached
  <2> QED
    BY <1>7, <2>1, <2>2 DEF Save
<1>8. ASSUME NEW r \in Requests, Unlock(r)
      PROVE  TypeOK'
  BY <1>8 DEF Unlock
<1>9. ASSUME NEW r \in Requests, Fail(r)
      PROVE  TypeOK'
  BY <1>9 DEF Fail
<1>10. ASSUME NEW r \in Requests, Crash(r)
       PROVE  TypeOK'
  BY <1>10 DEF Crash
<1>11. ASSUME NEW k \in Keys, ExpireLock(k) \/ ExpireData(k)
       PROVE  TypeOK'
  BY <1>11 DEF ExpireLock, ExpireData
<1>12. CASE UNCHANGED vars
  BY <1>12 DEF vars
<1> QED
  BY <1>1, <1>2, <1>3, <1>4, <1>5, <1>6, <1>7, <1>8, <1>9, <1>10, <1>11,
     <1>12 DEF Next, Serve

\* Every reachable state is well typed.
THEOREM Typing == Spec => []TypeOK
BY TypeInit, TypeNext, PTL DEF Spec

-----------------------------------------------------------------------------
(***************************************************************************)
(* One request at a time per key.  The lock names no owner, so the         *)
(* invariant has to say that whoever is in the section has it set, as long *)
(* as it did not expire under somebody.                                    *)
(***************************************************************************)

SectionLocked ==
    \A r \in Requests :
        InSection(r) /\ Key(r) \notin overrun => lock[Key(r)]

LockInv == TypeOK /\ SectionLocked /\ MutualExclusion

\* A step that lets nobody into the section and leaves the locks alone.
LEMMA NobodyEnters ==
    ASSUME LockInv, TypeOK', lock' = lock, call' = call,
           overrun' = overrun,
           \A r \in Requests : InSection(r)' => InSection(r)
    PROVE  LockInv'
<1>1. SectionLocked'
  BY DEF LockInv, SectionLocked
<1>2. MutualExclusion'
  BY DEF LockInv, MutualExclusion
<1> QED
  BY <1>1, <1>2 DEF LockInv

LEMMA LockInvNext == LockInv /\ [Next]_vars => LockInv'
<1> SUFFICES ASSUME LockInv, [Next]_vars
             PROVE  LockInv'
  OBVIOUS
<1>1. TypeOK'
  BY TypeNext DEF LockInv
<1> USE DEF LockInv, TypeOK, SectionLocked, MutualExclusion, InSection,
            Goto, Answer
<1>2. ASSUME NEW r \in Requests, Arrive(r) \/ Find(r) \/ Refind(r)
      PROVE  LockInv'
  <2>1. /\ lock' = lock /\ call' = call /\ overrun' = overrun
        /\ \A q \in Requests : InSection(q)' => InSection(q)
    BY <1>2 DEF Arrive, Find, Refind
  <2> HIDE DEF LockInv, TypeOK, InSection
  <2> QED
    BY <1>1, <2>1, NobodyEnters
<1>3. ASSUME NEW r \in Requests, Lock(r)
      PROVE  LockInv'
  <2>1. CASE ~lock[Key(r)]
    <3>1. /\ call' = call /\ overrun' = overrun
          /\ lock' = [lock EXCEPT ![Key(r)] = TRUE]
          /\ \A q \in Requests \ {r} : pc'[q] = pc[q]
      BY <1>3, <2>1 DEF Lock
    <3>2. \A q \in Requests \ {r} :
            InSection(q) /\ Key(q) \notin overrun => Key(q) # Key(r)
      BY <2>1
    <3>3. SectionLocked'
      BY <3>1
    <3>4. MutualExclusion'
      BY <3>1, <3>2
    <3> QED
      BY <1>1, <3>3, <3>4
  <2>2. CASE lock[Key(r)]
    <3>1. /\ lock' = lock /\ call' = call /\ overrun' = overrun
          /\ \A q \in Requests : InSection(q)' => InSection(q)
      BY <1>3, <2>2 DEF Lock
    <3> HIDE DEF LockInv, TypeOK, InSection
    <3> QED
      BY <1>1, <3>1, NobodyEnters
  <2> QED
    BY <2>1, <2>2
<1>4. ASSUME NEW r \in Requests, Create(r) \/ Reject(r) \/ Save(r)
      PROVE  LockInv'
  <2>1. /\ lock' = lock /\ call' = call /\ overrun' = overrun
        /\ \A q \in Requests : InSection(q)' => InSection(q)
    BY <1>4 DEF Create, Reject, Save
  <2> HIDE DEF LockInv, TypeOK, InSection
  <2> QED
    BY <1>1, <2>1, NobodyEnters
<1>5. ASSUME NEW r \in Requests, Unlock(r)
      PROVE  LockInv'
  <2>1. \A q \in Requests \ {r} :
          InSection(q) /\ Key(q) \notin overrun => Key(q) # Key(r)
    BY <1>5 DEF Unlock
  <2>2. /\ pc'[r] = "done" /\ call' = call /\ overrun' = overrun
        /\ \A q \in Requests \ {r} : pc'[q] = pc[q]
        /\ \A k \in Keys : k # Key(r) => lock'[k] = lock[k]
    BY <1>5 DEF Unlock
  <2> QED
    BY <1>1, <2>1, <2>2
<1>6. ASSUME NEW r \in Requests, Fail(r) \/ Crash(r)
      PROVE  LockInv'
  <2>1. /\ lock' = lock /\ call' = call /\ overrun' = overrun
        /\ \A q \in Requests : InSection(q)' => InSection(q)
    BY <1>6 DEF Fail, Crash
  <2> HIDE DEF LockInv, TypeOK, InSection
  <2> QED
    BY <1>1, <2>1, NobodyEnters
<1>7. ASSUME NEW k \in Keys, ExpireLock(k) \/ ExpireData(k)
      PROVE  LockInv'
  <2>1. CASE ExpireLock(k)
    <3>1. /\ pc' = pc /\ call' = call /\ overrun \subseteq overrun'
          /\ \A q \in Requests : InSection(q) /\ Key(q) = k => k \in overrun'
          /\ \A l \in Keys : l # k => lock'[l] = lock[l]
      BY <2>1 DEF ExpireLock
    <3> QED
      BY <1>1, <3>1
  <2>2. CASE ExpireData(k)
    BY <1>1, <2>2 DEF ExpireData
  <2> QED
    BY <1>7, <2>1, <2>2
<1>8. CASE UNCHANGED vars
  BY <1>1, <1>8 DEF vars
<1> QED
  BY <1>2, <1>3, <1>4, <1>5, <1>6, <1>7, <1>8 DEF Next, Serve

\* Two requests never create payments under one key at the same time, until
\* the lock of the key expires under a running handler: with any crashes and
\* any Redis calls that fail (Service.Execute, IdempotencyRepository.Lock and
\* Unlock).
THEOREM OneInSection == Spec => []MutualExclusion
<1>1. Init => LockInv
  BY TypeInit DEF Init, LockInv, SectionLocked, MutualExclusion, InSection
<1>2. LockInv => MutualExclusion
  BY DEF LockInv
<1> QED
  BY <1>1, <1>2, LockInvNext, PTL DEF Spec

-----------------------------------------------------------------------------
(***************************************************************************)
(* What is answered was created, by a request of the same key and body.    *)
(***************************************************************************)

\* What is about to be cached, and what is cached, are genuine too.
SaveGenuine == \A r \in Requests : pc[r] = "save" => r \in created

DataGenuine ==
    \A k \in Keys : data[k] # None =>
        /\ data[k].payment \in created
        /\ call[data[k].payment].key = k
        /\ call[data[k].payment].body = data[k].body

GenuineInv == TypeOK /\ SaveGenuine /\ DataGenuine /\ AnswersAreGenuine

\* A response that is found is answered only to its own key and body.
LEMMA MatchGenuine ==
    ASSUME GenuineInv, NEW r \in Requests, data[Key(r)] # None,
           Match(r, data[Key(r)]).status = "created"
    PROVE  /\ Match(r, data[Key(r)]).payment \in created
           /\ call[Match(r, data[Key(r)]).payment] = call[r]
<1>1. data[Key(r)] \in Cached /\ call[r] \in [key : Keys, body : Bodies]
  BY DEF GenuineInv, TypeOK
<1>2. Match(r, data[Key(r)]).payment = data[Key(r)].payment
      /\ data[Key(r)].body = call[r].body
  BY DEF Match, Refusal
<1>3. call[data[Key(r)].payment] \in [key : Keys, body : Bodies]
  BY <1>1 DEF GenuineInv, TypeOK, Cached
<1>4. /\ data[Key(r)].payment \in created
      /\ call[data[Key(r)].payment].key = Key(r)
      /\ call[data[Key(r)].payment].body = data[Key(r)].body
  BY <1>1 DEF GenuineInv, DataGenuine
<1> QED
  BY <1>1, <1>2, <1>3, <1>4

LEMMA GenuineNext == GenuineInv /\ [Next]_vars => GenuineInv'
<1> SUFFICES ASSUME GenuineInv, [Next]_vars
             PROVE  GenuineInv'
  OBVIOUS
<1>1. TypeOK'
  BY TypeNext DEF GenuineInv
<1> USE DEF GenuineInv, SaveGenuine, DataGenuine, AnswersAreGenuine, Goto,
            Answer
<1>2. ASSUME NEW r \in Requests, Arrive(r) \/ Lock(r) \/ Unlock(r)
      PROVE  GenuineInv'
  BY <1>1, <1>2 DEF Arrive, Lock, Unlock, TypeOK
<1>3. ASSUME NEW r \in Requests, Find(r)
      PROVE  GenuineInv'
  <2>1. data[Key(r)] # None /\ Match(r, data[Key(r)]).status = "created" =>
          /\ Match(r, data[Key(r)]).payment \in created
          /\ call[Match(r, data[Key(r)]).payment] = call[r]
    BY MatchGenuine
  <2> QED
    BY <1>1, <1>3, <2>1 DEF Find, TypeOK
<1>4. ASSUME NEW r \in Requests, Refind(r)
      PROVE  GenuineInv'
  <2>1. data[Key(r)] # None /\ Match(r, data[Key(r)]).status = "created" =>
          /\ Match(r, data[Key(r)]).payment \in created
          /\ call[Match(r, data[Key(r)]).payment] = call[r]
    BY MatchGenuine
  <2> QED
    BY <1>1, <1>4, <2>1 DEF Refind, TypeOK, Refusal
<1>5. ASSUME NEW r \in Requests, Create(r)
      PROVE  GenuineInv'
  BY <1>1, <1>5 DEF Create, TypeOK
<1>6. ASSUME NEW r \in Requests, Reject(r) \/ Fail(r) \/ Crash(r)
      PROVE  GenuineInv'
  BY <1>1, <1>6 DEF Reject, Fail, Crash, TypeOK, Refusal
<1>7. ASSUME NEW r \in Requests, Save(r)
      PROVE  GenuineInv'
  BY <1>1, <1>7 DEF Save, TypeOK
<1>8. ASSUME NEW k \in Keys, ExpireLock(k) \/ ExpireData(k)
      PROVE  GenuineInv'
  BY <1>1, <1>8 DEF ExpireLock, ExpireData, TypeOK
<1>9. CASE UNCHANGED vars
  BY <1>1, <1>9 DEF vars
<1> QED
  BY <1>2, <1>3, <1>4, <1>5, <1>6, <1>7, <1>8, <1>9 DEF Next, Serve

\* A 201 always shows a payment created under the same key by the same body:
\* with locks and responses that expire, failed calls and any race.
THEOREM GenuineAnswers == Spec => []AnswersAreGenuine
<1>1. Init => GenuineInv
  BY TypeInit DEF Init, GenuineInv, SaveGenuine, DataGenuine,
                  AnswersAreGenuine, Refusal
<1>2. GenuineInv => AnswersAreGenuine
  BY DEF GenuineInv
<1> QED
  BY <1>1, <1>2, GenuineNext, PTL DEF Spec

-----------------------------------------------------------------------------
(***************************************************************************)
(* Nothing is created under a key that has been answered.                  *)
(***************************************************************************)

\* Until it expires a response stays: what was answered is still cached.
AnsweredIsCached ==
    \A r \in Requests :
        answer[r].status = "created" /\ Key(r) \notin expired
            => data[Key(r)] # None

\* A request that came after an answer finds it.
KnownFinds ==
    \A r \in Requests :
        /\ known[r] /\ Key(r) \notin expired
              => data[Key(r)] # None /\ pc[r] \in {"find", "done"}
        /\ pc[r] \in {"waiting", "find"} => r \notin created

AnsweredInv == TypeOK /\ AnsweredIsCached /\ KnownFinds /\ NoCreateAfterAnswer

LEMMA AnsweredNext == AnsweredInv /\ [Next]_vars => AnsweredInv'
<1> SUFFICES ASSUME AnsweredInv, [Next]_vars
             PROVE  AnsweredInv'
  OBVIOUS
<1>1. TypeOK'
  BY TypeNext DEF AnsweredInv
<1> USE DEF AnsweredInv, AnsweredIsCached, KnownFinds, NoCreateAfterAnswer,
            Goto, Answer, Refusal
<1>2. ASSUME NEW r \in Requests, Arrive(r)
      PROVE  AnsweredInv'
  BY <1>1, <1>2 DEF Arrive, TypeOK, Answered
<1>3. ASSUME NEW r \in Requests, Find(r) \/ Refind(r)
      PROVE  AnsweredInv'
  BY <1>1, <1>3 DEF Find, Refind, TypeOK
<1>4. ASSUME NEW r \in Requests, Lock(r) \/ Create(r) \/ Unlock(r)
      PROVE  AnsweredInv'
  BY <1>1, <1>4 DEF Lock, Create, Unlock, TypeOK
<1>5. ASSUME NEW r \in Requests, Reject(r) \/ Fail(r) \/ Crash(r)
      PROVE  AnsweredInv'
  BY <1>1, <1>5 DEF Reject, Fail, Crash, TypeOK
<1>6. ASSUME NEW r \in Requests, Save(r)
      PROVE  AnsweredInv'
  <2>1. [body |-> call[r].body, payment |-> r] # None
    BY NoneAssumption DEF Cached, TypeOK
  <2> QED
    BY <1>1, <1>6, <2>1 DEF Save, TypeOK
<1>7. ASSUME NEW k \in Keys, ExpireLock(k) \/ ExpireData(k)
      PROVE  AnsweredInv'
  BY <1>1, <1>7 DEF ExpireLock, ExpireData, TypeOK
<1>8. CASE UNCHANGED vars
  BY <1>1, <1>8 DEF vars
<1> QED
  BY <1>2, <1>3, <1>4, <1>5, <1>6, <1>7, <1>8 DEF Next, Serve

\* Once a 201 has been answered under a key, a request that comes later never
\* creates a payment, as long as the cached response lives: whatever requests
\* before it are still running, with their lock or without it.
THEOREM AnswersPreventCreation == Spec => []NoCreateAfterAnswer
<1>1. Init => AnsweredInv
  BY TypeInit DEF Init, AnsweredInv, AnsweredIsCached, KnownFinds,
                  NoCreateAfterAnswer, Refusal
<1>2. AnsweredInv => NoCreateAfterAnswer
  BY DEF AnsweredInv
<1> QED
  BY <1>1, <1>2, AnsweredNext, PTL DEF Spec
=============================================================================
