---------------------------- MODULE WebhooksProofs ----------------------------
(***************************************************************************)
(* Proofs about the webhook service: for any number of subscriptions,      *)
(* payments, dispatchers and pollers, any batch size and retry policy, and *)
(* failed saves and crashes anywhere.                                      *)
(***************************************************************************)
EXTENDS Webhooks, TLAPS, FiniteSetTheorems, BasicFacts

-----------------------------------------------------------------------------
(***************************************************************************)
(* What a step may put where.                                              *)
(***************************************************************************)

LEMMA NoRowType == NoRow \in Row
BY DEF NoRow, Row, Statuses

LEMMA OutcomeType ==
    ASSUME NEW row \in Row, NEW success \in BOOLEAN
    PROVE  /\ Outcome(row, success) \in Row
           /\ Outcome(row, success).payload = row.payload
           /\ Outcome(row, success).attempts = row.attempts + 1
           /\ ~Outcome(row, success).due
           /\ Outcome(row, success).status =
                IF success THEN "delivered"
                ELSE IF row.attempts + 1 >= MaxAttempts THEN "exhausted"
                ELSE "failed"
<1>1. PICK status \in Statuses :
        /\ Outcome(row, success) =
             [row EXCEPT !.attempts = @ + 1, !.due = FALSE, !.status = status]
        /\ status = IF success THEN "delivered"
                    ELSE IF row.attempts + 1 >= MaxAttempts THEN "exhausted"
                    ELSE "failed"
  BY DEF Outcome, Statuses
<1>2. row.attempts + 1 \in Nat
  BY DEF Row
<1>3. Outcome(row, success) \in Row
  BY <1>1, <1>2 DEF Row
<1> QED
  BY <1>1, <1>3 DEF Row

LEMMA UpsertType ==
    ASSUME NEW old \in Row, NEW new \in Row
    PROVE  /\ Upsert(old, new) \in Row
           /\ Upsert(old, new).status = new.status
           /\ Upsert(old, new).attempts = new.attempts
           /\ Upsert(old, new).payload =
                IF old.status = "absent" THEN new.payload ELSE old.payload
BY DEF Upsert, Row

\* One row of the table changes.
LEMMA TableType ==
    ASSUME NEW R, NEW table \in [Subscriptions -> [Payments -> R]],
           NEW s \in Subscriptions, NEW p \in Payments, NEW x \in R
    PROVE  LET new == [table EXCEPT ![s][p] = x] IN
           /\ new \in [Subscriptions -> [Payments -> R]]
           /\ new[s][p] = x
           /\ \A t \in Subscriptions, q \in Payments :
                t # s \/ q # p => new[t][q] = table[t][q]
OBVIOUS

-----------------------------------------------------------------------------
(***************************************************************************)
(* The invariant.                                                          *)
(***************************************************************************)

\* What RowsAreHonest asks of a row.
Honest(row, s, p) ==
    /\ row.status = "delivered" => \E e \in accepted[s] : PaymentOf[e] = p
    /\ row.status = "failed" => row.attempts \in 1 .. MaxAttempts - 1
    /\ row.status = "exhausted" => row.attempts = MaxAttempts
    /\ row.attempts <= posts[s][p]

\* The row of a payment has an event of that payment, once it was saved.
Owned(row, p) ==
    row.status # "absent" =>
        /\ row.payload \in Events /\ PaymentOf[row.payload] = p
        /\ row.status \in {"delivered", "failed", "exhausted"}

\* A task has an event; it is new, or was read from a row that failed, or holds
\* the outcome of its POST.
TaskInv(t) ==
    /\ t.row.payload \in Events
    /\ t.posted =>
         /\ t.row.status \in {"delivered", "failed", "exhausted"}
         /\ Honest(t.row, t.sub, PaymentOfTask(t))
    /\ ~t.posted =>
         /\ t.row.attempts < MaxAttempts
         /\ t.row.attempts <= posts[t.sub][PaymentOfTask(t)]

HonestInv ==
    /\ TypeOK
    /\ \A s \in Subscriptions, p \in Payments :
         /\ Honest(deliveries[s][p], s, p)
         /\ Owned(deliveries[s][p], p)
    /\ \A w \in Workers : \A t \in job[w] : TaskInv(t)

LEMMA HonestInvInit == Init => HonestInv
<1> SUFFICES ASSUME Init
             PROVE  HonestInv
  OBVIOUS
<1>1. TypeOK
  BY NoRowType, BoundsAssumption DEF Init, TypeOK
<1>2. \A s \in Subscriptions, p \in Payments :
        deliveries[s][p] = NoRow /\ posts[s][p] = 0
  BY DEF Init
<1>3. \A s \in Subscriptions, p \in Payments :
        Honest(deliveries[s][p], s, p) /\ Owned(deliveries[s][p], p)
  BY <1>2 DEF Honest, Owned, NoRow
<1> QED
  BY <1>1, <1>3 DEF Init, HonestInv

\* The row and the payment of a task.
LEMMA TaskTypes ==
    ASSUME HonestInv, NEW w \in Workers, NEW t \in job[w]
    PROVE  /\ t \in Task /\ t.sub \in Subscriptions /\ t.row \in Row
           /\ t.row.payload \in Events /\ PaymentOfTask(t) \in Payments
<1>1. t \in Task /\ TaskInv(t)
  BY DEF HonestInv, TypeOK
<1> QED
  BY <1>1, EventsAssumption DEF Task, TaskInv, PaymentOfTask

\* A step that takes on no work, POSTs and saves nothing.
LEMMA NothingSent ==
    ASSUME HonestInv, TypeOK', UNCHANGED <<deliveries, posts, accepted>>,
           \A w \in Workers : job'[w] \subseteq job[w]
    PROVE  HonestInv'
<1>1. \A s \in Subscriptions, p \in Payments :
        Honest(deliveries[s][p], s, p)' /\ Owned(deliveries[s][p], p)'
  BY DEF HonestInv, Honest, Owned
<1>2. \A w \in Workers : \A t \in job'[w] : TaskInv(t)'
  BY DEF HonestInv, TaskInv, Honest, PaymentOfTask
<1> QED
  BY <1>1, <1>2 DEF HonestInv

LEMMA DispatchHonest ==
    ASSUME HonestInv, NEW d \in Dispatchers, NEW e \in Events, Dispatch(d, e)
    PROVE  HonestInv'
<1>1. /\ UNCHANGED <<deliveries, posts, accepted, active, recorded, cuts,
                     retries, waits>>
      /\ job' = [job EXCEPT ![d] = {NewDelivery(s, e) : s \in active}]
      /\ runs[e] < MaxRuns /\ runs' = [runs EXCEPT ![e] = @ + 1]
  BY DEF Dispatch
<1>2. ASSUME NEW s \in active
      PROVE  NewDelivery(s, e) \in Task /\ TaskInv(NewDelivery(s, e))'
  <2>1. s \in Subscriptions /\ PaymentOf[e] \in Payments
    BY EventsAssumption DEF HonestInv, TypeOK
  <2>2. 0 <= posts'[s][PaymentOf[e]]
    BY <1>1, <2>1 DEF HonestInv, TypeOK
  <2>3. NewDelivery(s, e) \in Task
    BY <2>1 DEF NewDelivery, Task, Row, Statuses
  <2>4. TaskInv(NewDelivery(s, e))'
    BY <2>2, BoundsAssumption DEF NewDelivery, TaskInv, PaymentOfTask
  <2> QED
    BY <2>3, <2>4
<1>3. job' \in [Workers -> SUBSET Task] /\ runs' \in [Events -> 0 .. MaxRuns]
  <2>1. {NewDelivery(s, e) : s \in active} \in SUBSET Task
    BY <1>2
  <2>2. runs[e] + 1 \in 0 .. MaxRuns
    BY <1>1, BoundsAssumption DEF HonestInv, TypeOK
  <2> QED
    BY <1>1, <2>1, <2>2 DEF HonestInv, TypeOK, Workers
<1>4. TypeOK'
  BY <1>1, <1>3 DEF HonestInv, TypeOK
<1>5. \A s \in Subscriptions, p \in Payments :
        Honest(deliveries[s][p], s, p)' /\ Owned(deliveries[s][p], p)'
  BY <1>1 DEF HonestInv, Honest, Owned
<1>6. ASSUME NEW w \in Workers, NEW t \in job'[w]
      PROVE  TaskInv(t)'
  <2>1. CASE t \in job[w]
    BY <1>1, <2>1 DEF HonestInv, TaskInv, Honest, PaymentOfTask
  <2>2. CASE t \notin job[w]
    <3>1. PICK s \in active : t = NewDelivery(s, e)
      BY <1>1, <1>6, <2>2 DEF HonestInv, TypeOK
    <3> QED
      BY <1>2, <3>1
  <2> QED
    BY <2>1, <2>2
<1> QED
  BY <1>4, <1>5, <1>6 DEF HonestInv

LEMMA FetchHonest ==
    ASSUME HonestInv, NEW r \in Retriers, FetchRetriable(r)
    PROVE  HonestInv'
<1>1. PICK batch \in SUBSET Retriable : job' = [job EXCEPT ![r] = batch]
  BY DEF FetchRetriable
<1>2. UNCHANGED <<deliveries, posts, accepted, active, runs, recorded, cuts,
                  retries, waits>>
  BY DEF FetchRetriable
<1>3. ASSUME NEW t \in Retriable
      PROVE  t \in Task /\ TaskInv(t)'
  <2>1. PICK s \in active, p \in Payments :
          /\ t = [sub |-> s, row |-> deliveries[s][p], posted |-> FALSE]
          /\ deliveries[s][p].status = "failed"
    BY DEF Retriable
  <2>2. s \in Subscriptions /\ deliveries[s][p] \in Row
    BY DEF HonestInv, TypeOK
  <2>3. /\ Honest(deliveries[s][p], s, p)
        /\ deliveries[s][p].payload \in Events
        /\ PaymentOf[deliveries[s][p].payload] = p
    BY <2>1, <2>2 DEF HonestInv, Owned
  <2>4. deliveries[s][p].attempts < MaxAttempts
    BY <2>1, <2>3, BoundsAssumption DEF Honest
  <2>5. t \in Task
    BY <2>1, <2>2 DEF Task
  <2>6. TaskInv(t)'
    BY <1>2, <2>1, <2>3, <2>4 DEF TaskInv, PaymentOfTask, Honest
  <2> QED
    BY <2>5, <2>6
<1>4. TypeOK'
  <2>1. job' \in [Workers -> SUBSET Task]
    BY <1>1, <1>3 DEF HonestInv, TypeOK, Workers
  <2> QED
    BY <1>2, <2>1 DEF HonestInv, TypeOK
<1>5. \A s \in Subscriptions, p \in Payments :
        Honest(deliveries[s][p], s, p)' /\ Owned(deliveries[s][p], p)'
  BY <1>2 DEF HonestInv, Honest, Owned
<1>6. ASSUME NEW w \in Workers, NEW t \in job'[w]
      PROVE  TaskInv(t)'
  <2>1. CASE t \in job[w]
    BY <1>2, <2>1 DEF HonestInv, TaskInv, Honest, PaymentOfTask
  <2>2. CASE t \notin job[w]
    <3>1. t \in Retriable
      BY <1>1, <1>6, <2>2 DEF HonestInv, TypeOK
    <3> QED
      BY <1>3, <3>1
  <2> QED
    BY <2>1, <2>2
<1> QED
  BY <1>4, <1>5, <1>6 DEF HonestInv

\* The POSTs of an id only grow in number, the events accepted only in kind.
LEMMA HonestKept ==
    ASSUME NEW row \in Row, NEW s \in Subscriptions, NEW p \in Payments,
           HonestInv, posts' \in [Subscriptions -> [Payments -> Nat]],
           posts[s][p] <= posts'[s][p], accepted[s] \subseteq accepted'[s],
           Honest(row, s, p)
    PROVE  Honest(row, s, p)'
<1>1. posts[s][p] \in Nat /\ posts'[s][p] \in Nat /\ row.attempts \in Nat
  BY DEF HonestInv, TypeOK, Row
<1>2. row.attempts <= posts'[s][p]
  BY <1>1 DEF Honest
<1> QED
  BY <1>2 DEF Honest

\* A POST is counted among the retries of its task's id, if a poller sent it.
LEMMA RetriesStep ==
    ASSUME HonestInv, NEW w \in Workers, NEW t \in job[w],
           retries' = IF w \in Retriers
                      THEN [retries EXCEPT ![t.sub][PaymentOfTask(t)] = @ + 1]
                      ELSE retries
    PROVE  /\ retries' \in [Subscriptions -> [Payments -> Nat]]
           /\ retries'[t.sub][PaymentOfTask(t)] =
                retries[t.sub][PaymentOfTask(t)]
                    + (IF w \in Retriers THEN 1 ELSE 0)
           /\ \A u \in Subscriptions, q \in Payments :
                u # t.sub \/ q # PaymentOfTask(t) =>
                    retries'[u][q] = retries[u][q]
<1> DEFINE s == t.sub
           p == PaymentOfTask(t)
<1>1. s \in Subscriptions /\ p \in Payments
  BY TaskTypes
<1>2. retries \in [Subscriptions -> [Payments -> Nat]]
  BY DEF HonestInv, TypeOK
<1>3. CASE w \notin Retriers
  BY <1>1, <1>2, <1>3
<1>4. CASE w \in Retriers
  <2>1. retries' = [retries EXCEPT ![s][p] = retries[s][p] + 1]
    BY <1>1, <1>2, <1>4
  <2>2. retries[s][p] + 1 \in Nat
    BY <1>1, <1>2
  <2>3. /\ retries' \in [Subscriptions -> [Payments -> Nat]]
        /\ retries'[s][p] = retries[s][p] + 1
        /\ \A u \in Subscriptions, q \in Payments :
             u # s \/ q # p => retries'[u][q] = retries[u][q]
    BY <1>1, <1>2, <2>1, <2>2, TableType
  <2> QED
    BY <1>4, <2>3
<1> QED
  BY <1>3, <1>4

LEMMA PostHonest ==
    ASSUME HonestInv, NEW w \in Workers, Post(w)
    PROVE  HonestInv'
<1>1. PICK t \in job[w], success \in BOOLEAN :
        /\ ~t.posted
        /\ posts' = [posts EXCEPT ![t.sub][PaymentOfTask(t)] = @ + 1]
        /\ retries' = IF w \in Retriers
                      THEN [retries EXCEPT ![t.sub][PaymentOfTask(t)] = @ + 1]
                      ELSE retries
        /\ accepted' = [accepted EXCEPT
             ![t.sub] = IF success THEN @ \union {t.row.payload} ELSE @]
        /\ job' = [job EXCEPT ![w] = (@ \ {t}) \union
             {[t EXCEPT !.posted = TRUE, !.row = Outcome(@, success)]}]
  BY DEF Post, Busy
<1>2. UNCHANGED <<active, deliveries, runs, recorded, cuts, waits>>
  BY DEF Post
<1> DEFINE s == t.sub
           p == PaymentOfTask(t)
           e == t.row.payload
           row == Outcome(t.row, success)
           done == [t EXCEPT !.posted = TRUE, !.row = row]
<1>3. /\ t \in Task /\ s \in Subscriptions /\ t.row \in Row
      /\ e \in Events /\ p \in Payments /\ p = PaymentOf[e]
  BY TaskTypes DEF PaymentOfTask
<1>4. /\ row \in Row /\ row.payload = e
      /\ row.attempts = t.row.attempts + 1
      /\ row.status = IF success THEN "delivered"
                      ELSE IF t.row.attempts + 1 >= MaxAttempts
                           THEN "exhausted" ELSE "failed"
  BY <1>3, OutcomeType
<1> HIDE DEF row
<1>5. /\ done \in Task /\ done.posted /\ done.row = row /\ done.sub = s
      /\ PaymentOfTask(done) = p
  BY <1>3, <1>4 DEF Task, PaymentOfTask
<1>6. /\ posts' \in [Subscriptions -> [Payments -> Nat]]
      /\ posts'[s][p] = posts[s][p] + 1
      /\ \A u \in Subscriptions, q \in Payments :
           posts[u][q] <= posts'[u][q]
  <2>1. posts \in [Subscriptions -> [Payments -> Nat]]
    BY DEF HonestInv, TypeOK
  <2>2. posts[s][p] \in Nat /\ posts[s][p] + 1 \in Nat
    BY <1>3, <2>1
  <2>3. posts' = [posts EXCEPT ![s][p] = posts[s][p] + 1]
    BY <1>1, <1>3, <2>1
  <2>4. /\ posts' \in [Subscriptions -> [Payments -> Nat]]
        /\ posts'[s][p] = posts[s][p] + 1
        /\ \A u \in Subscriptions, q \in Payments :
             u # s \/ q # p => posts'[u][q] = posts[u][q]
    BY <1>3, <2>1, <2>2, <2>3, TableType
  <2>5. ASSUME NEW u \in Subscriptions, NEW q \in Payments
        PROVE  posts[u][q] <= posts'[u][q]
    <3>1. posts[u][q] \in Nat
      BY <2>1
    <3> QED
      BY <2>2, <2>4, <3>1
  <2> QED
    BY <2>4, <2>5
<1>7. /\ accepted' \in [Subscriptions -> SUBSET Events]
      /\ success => e \in accepted'[s]
      /\ \A u \in Subscriptions : accepted[u] \subseteq accepted'[u]
  BY <1>1, <1>3 DEF HonestInv, TypeOK
<1>8. /\ job' \in [Workers -> SUBSET Task]
      /\ job'[w] = (job[w] \ {t}) \union {done}
      /\ \A v \in Workers : v # w => job'[v] = job[v]
  BY <1>1, <1>5 DEF HonestInv, TypeOK, row
<1>9. TypeOK'
  <2>1. retries' \in [Subscriptions -> [Payments -> Nat]]
    BY <1>1, RetriesStep
  <2> QED
    BY <1>2, <1>6, <1>7, <1>8, <2>1 DEF HonestInv, TypeOK
<1>10. \A u \in Subscriptions, q \in Payments :
         Honest(deliveries[u][q], u, q)' /\ Owned(deliveries[u][q], q)'
  <2> TAKE u \in Subscriptions, q \in Payments
  <2>1. PICK x \in Row : x = deliveries[u][q] /\ x = deliveries'[u][q]
    BY <1>2 DEF HonestInv, TypeOK
  <2>2. Honest(x, u, q) /\ Owned(x, q)
    BY <2>1 DEF HonestInv
  <2>3. posts[u][q] <= posts'[u][q] /\ accepted[u] \subseteq accepted'[u]
    BY <1>6, <1>7
  <2>4. Honest(x, u, q)'
    BY <1>6, <2>2, <2>3, HonestKept
  <2> QED
    BY <2>1, <2>2, <2>4 DEF Honest, Owned
<1>11. TaskInv(done)'
  <2>1. TaskInv(t)
    BY DEF HonestInv
  <2>2. /\ t.row.attempts \in Nat /\ t.row.attempts < MaxAttempts
        /\ t.row.attempts <= posts[s][p] /\ posts[s][p] \in Nat
    BY <1>1, <1>3, <2>1 DEF TaskInv, Row, HonestInv, TypeOK
  <2>3. row.attempts \in 1 .. MaxAttempts /\ row.attempts <= posts'[s][p]
    BY <1>4, <1>6, <2>2, BoundsAssumption
  <2>4. row.status = "delivered" => success
    BY <1>4
  <2>5. row.status = "failed" => row.attempts \in 1 .. MaxAttempts - 1
    BY <1>4, <2>2, <2>3, BoundsAssumption
  <2>6. row.status = "exhausted" => row.attempts = MaxAttempts
    BY <1>4, <2>2, <2>3, BoundsAssumption
  <2>7. Honest(row, s, p)'
    BY <1>3, <1>7, <2>3, <2>4, <2>5, <2>6 DEF Honest
  <2>8. row.status \in {"delivered", "failed", "exhausted"}
    BY <1>4
  <2> QED
    BY <1>3, <1>4, <1>5, <2>7, <2>8 DEF TaskInv
<1>12. ASSUME NEW v \in Workers, NEW u \in job'[v]
       PROVE  TaskInv(u)'
  <2>1. CASE u = done
    BY <1>11, <2>1
  <2>2. CASE u # done
    <3>1. u \in job[v]
      BY <1>8, <1>12, <2>2
    <3>2. TaskInv(u)
      BY <3>1 DEF HonestInv
    <3>3. /\ u.sub \in Subscriptions /\ u.row \in Row
          /\ u.row.payload \in Events /\ PaymentOfTask(u) \in Payments
      BY <3>1, TaskTypes
    <3>4. /\ posts[u.sub][PaymentOfTask(u)] <= posts'[u.sub][PaymentOfTask(u)]
          /\ accepted[u.sub] \subseteq accepted'[u.sub]
      BY <1>6, <1>7, <3>3
    <3>5. u.posted => Honest(u.row, u.sub, PaymentOfTask(u))'
      BY <1>6, <3>2, <3>3, <3>4, HonestKept DEF TaskInv
    <3>6. ~u.posted => u.row.attempts <= posts'[u.sub][PaymentOfTask(u)]
      <4>1. /\ u.row.attempts \in Nat /\ posts[u.sub][PaymentOfTask(u)] \in Nat
            /\ posts'[u.sub][PaymentOfTask(u)] \in Nat
        BY <1>6, <3>3 DEF HonestInv, TypeOK, Row
      <4> QED
        BY <3>2, <3>4, <4>1 DEF TaskInv
    <3> QED
      BY <3>2, <3>5, <3>6 DEF TaskInv, PaymentOfTask
  <2> QED
    BY <2>1, <2>2
<1> QED
  BY <1>9, <1>10, <1>12 DEF HonestInv

LEMMA SaveHonest ==
    ASSUME HonestInv, NEW w \in Workers, Save(w)
    PROVE  HonestInv'
<1>1. PICK t \in job[w] :
        /\ t.posted
        /\ deliveries' = [deliveries EXCEPT
             ![t.sub][PaymentOfTask(t)] = Upsert(@, t.row)]
        /\ recorded' = [recorded EXCEPT ![t.sub] = @ \union {t.row.payload}]
        /\ job' = [job EXCEPT ![w] = @ \ {t}]
  BY DEF Save
<1>2. UNCHANGED <<active, runs, posts, accepted, cuts, retries, waits>>
  BY DEF Save
<1> DEFINE s == t.sub
           p == PaymentOfTask(t)
           old == deliveries[s][p]
           row == Upsert(old, t.row)
<1>3. /\ s \in Subscriptions /\ t.row \in Row
      /\ t.row.payload \in Events /\ p \in Payments
      /\ p = PaymentOf[t.row.payload] /\ TaskInv(t)
  BY TaskTypes DEF HonestInv, PaymentOfTask
<1>4. old \in Row /\ Owned(old, p)
  BY <1>3 DEF HonestInv, TypeOK
<1>5. /\ row \in Row /\ row.status = t.row.status
      /\ row.attempts = t.row.attempts
      /\ row.payload = IF old.status = "absent" THEN t.row.payload
                       ELSE old.payload
  BY <1>3, <1>4, UpsertType
<1> HIDE DEF row
<1>6. /\ deliveries' \in [Subscriptions -> [Payments -> Row]]
      /\ deliveries'[s][p] = row
      /\ \A u \in Subscriptions, q \in Payments :
           u # s \/ q # p => deliveries'[u][q] = deliveries[u][q]
  <2>1. deliveries \in [Subscriptions -> [Payments -> Row]]
    BY DEF HonestInv, TypeOK
  <2>2. deliveries' = [deliveries EXCEPT ![s][p] = row]
    BY <1>1, <1>3, <2>1 DEF row
  <2> QED
    BY <1>3, <1>5, <2>1, <2>2, TableType
<1>7. Honest(row, s, p) /\ Owned(row, p)
  <2>1. Honest(t.row, s, p)
    BY <1>1, <1>3 DEF TaskInv
  <2>2. Honest(row, s, p)
    BY <1>5, <2>1 DEF Honest
  <2> QED
    BY <1>1, <1>3, <1>4, <1>5, <2>2 DEF Owned, TaskInv
<1>8. TypeOK'
  BY <1>1, <1>2, <1>3, <1>6 DEF HonestInv, TypeOK
<1>9. \A u \in Subscriptions, q \in Payments :
        Honest(deliveries[u][q], u, q)' /\ Owned(deliveries[u][q], q)'
  <2> TAKE u \in Subscriptions, q \in Payments
  <2>1. Honest(deliveries[u][q], u, q) /\ Owned(deliveries[u][q], q)
    BY DEF HonestInv
  <2>2. Honest(deliveries'[u][q], u, q) /\ Owned(deliveries'[u][q], q)
    BY <1>6, <1>7, <2>1
  <2> QED
    BY <1>2, <2>2 DEF Honest, Owned
<1>10. \A v \in Workers : \A u \in job'[v] : TaskInv(u)'
  BY <1>1, <1>2 DEF HonestInv, TypeOK, TaskInv, Honest, PaymentOfTask
<1> QED
  BY <1>8, <1>9, <1>10 DEF HonestInv

\* A delay that passes is counted under its id.
LEMMA WaitsStep ==
    ASSUME HonestInv, NEW s \in Subscriptions, NEW p \in Payments,
           FallDue(s, p)
    PROVE  /\ waits' \in [Subscriptions -> [Payments -> Nat]]
           /\ waits'[s][p] = waits[s][p] + 1
           /\ \A u \in Subscriptions, q \in Payments :
                u # s \/ q # p => waits'[u][q] = waits[u][q]
<1>1. waits \in [Subscriptions -> [Payments -> Nat]]
  BY DEF HonestInv, TypeOK
<1>2. waits[s][p] + 1 \in Nat
  BY <1>1
<1>3. waits' = [waits EXCEPT ![s][p] = waits[s][p] + 1]
  BY <1>1 DEF FallDue
<1> QED
  BY <1>1, <1>2, <1>3, TableType

LEMMA FallDueHonest ==
    ASSUME HonestInv, NEW s \in Subscriptions, NEW p \in Payments,
           FallDue(s, p)
    PROVE  HonestInv'
<1> DEFINE row == [deliveries[s][p] EXCEPT !.due = TRUE]
<1>1. /\ deliveries' = [deliveries EXCEPT ![s][p].due = TRUE]
      /\ waits' = [waits EXCEPT ![s][p] = @ + 1]
      /\ UNCHANGED <<active, job, runs, posts, accepted, recorded, cuts,
                     retries>>
  BY DEF FallDue
<1>2. deliveries[s][p] \in Row
  BY DEF HonestInv, TypeOK
<1>3. /\ row \in Row /\ row.status = deliveries[s][p].status
      /\ row.attempts = deliveries[s][p].attempts
      /\ row.payload = deliveries[s][p].payload
  BY <1>2 DEF Row
<1> HIDE DEF row
<1>4. /\ deliveries' \in [Subscriptions -> [Payments -> Row]]
      /\ deliveries'[s][p] = row
      /\ \A u \in Subscriptions, q \in Payments :
           u # s \/ q # p => deliveries'[u][q] = deliveries[u][q]
  <2>1. deliveries \in [Subscriptions -> [Payments -> Row]]
    BY DEF HonestInv, TypeOK
  <2>2. deliveries' = [deliveries EXCEPT ![s][p] = row]
    BY <1>1, <2>1 DEF row
  <2> QED
    BY <1>3, <2>1, <2>2, TableType
<1>5. TypeOK'
  <2>1. waits' \in [Subscriptions -> [Payments -> Nat]]
    BY WaitsStep DEF HonestInv
  <2> QED
    BY <1>1, <1>4, <2>1 DEF HonestInv, TypeOK
<1>6. \A u \in Subscriptions, q \in Payments :
        Honest(deliveries[u][q], u, q)' /\ Owned(deliveries[u][q], q)'
  <2> TAKE u \in Subscriptions, q \in Payments
  <2>1. Honest(deliveries[u][q], u, q) /\ Owned(deliveries[u][q], q)
    BY DEF HonestInv
  <2>2. Honest(row, s, p) /\ Owned(row, p)
    BY <1>3 DEF HonestInv, Honest, Owned
  <2>3. Honest(deliveries'[u][q], u, q) /\ Owned(deliveries'[u][q], q)
    BY <1>4, <2>1, <2>2
  <2> QED
    BY <1>1, <2>3 DEF Honest, Owned
<1>7. \A w \in Workers : \A t \in job'[w] : TaskInv(t)'
  BY <1>1 DEF HonestInv, TaskInv, Honest, PaymentOfTask
<1> QED
  BY <1>5, <1>6, <1>7 DEF HonestInv

LEMMA HonestInvNext == HonestInv /\ [Next]_vars => HonestInv'
<1> SUFFICES ASSUME HonestInv, [Next]_vars
             PROVE  HonestInv'
  OBVIOUS
<1>1. ASSUME NEW s \in Subscriptions, Subscribe(s)
      PROVE  HonestInv'
  <2>1. /\ UNCHANGED <<deliveries, posts, accepted>>
        /\ \A w \in Workers : job'[w] \subseteq job[w]
    BY <1>1 DEF Subscribe
  <2>2. TypeOK'
    BY <1>1 DEF Subscribe, HonestInv, TypeOK
  <2> QED
    BY <2>1, <2>2, NothingSent
<1>2. ASSUME NEW w \in Workers, Cut(w)
      PROVE  HonestInv'
  <2>1. /\ UNCHANGED <<deliveries, posts, accepted>>
        /\ job' \in [Workers -> SUBSET Task]
        /\ \A v \in Workers : job'[v] \subseteq job[v]
    BY <1>2 DEF Cut, HonestInv, TypeOK
  <2>2. cuts' \in 0 .. MaxCuts
    BY <1>2, BoundsAssumption DEF Cut, HonestInv, TypeOK
  <2>3. TypeOK'
    BY <1>2, <2>1, <2>2 DEF Cut, HonestInv, TypeOK
  <2> QED
    BY <2>1, <2>3, NothingSent
<1>3. CASE UNCHANGED vars
  <2>1. TypeOK'
    BY <1>3 DEF vars, HonestInv, TypeOK
  <2> QED
    BY <1>3, <2>1, NothingSent DEF vars
<1> QED
  BY <1>1, <1>2, <1>3, DispatchHonest, FetchHonest, PostHonest, SaveHonest,
     FallDueHonest DEF Next

-----------------------------------------------------------------------------
\* The variables keep their types: a dispatch never outruns MaxRuns, and what
\* the workers hold are deliveries of registered subscriptions.
THEOREM Typing == Spec => []TypeOK
<1>1. HonestInv => TypeOK
  BY DEF HonestInv
<1> QED
  BY <1>1, HonestInvInit, HonestInvNext, PTL DEF Spec

\* RowsAreHonest: in whatever order dispatchers and pollers save over each
\* other's rows, delivered means that the endpoint has accepted an event of the
\* payment, failed that attempts are left, and exhausted that none is.
THEOREM HonestRows == Spec => []RowsAreHonest
<1>1. HonestInv => RowsAreHonest
  BY DEF HonestInv, RowsAreHonest, Honest
<1> QED
  BY <1>1, HonestInvInit, HonestInvNext, PTL DEF Spec

-----------------------------------------------------------------------------
(***************************************************************************)
(* No event is dropped, where a payment has one event of the type, as      *)
(* payment.completed: the row of the payment is the row of the event.      *)
(***************************************************************************)

\* An event recorded for a subscription has a row.
RecordedInv ==
    \A s \in Subscriptions : \A e \in recorded[s] :
        deliveries[s][PaymentOf[e]].status # "absent"

LEMMA RecordedInvInit == Init => RecordedInv
BY DEF Init, RecordedInv

LEMMA RecordedInvNext == HonestInv /\ RecordedInv /\ [Next]_vars => RecordedInv'
<1> SUFFICES ASSUME HonestInv, RecordedInv, [Next]_vars
             PROVE  RecordedInv'
  OBVIOUS
<1>1. ASSUME NEW w \in Workers, Save(w)
      PROVE  RecordedInv'
  <2>1. PICK t \in job[w] :
          /\ t.posted
          /\ deliveries' = [deliveries EXCEPT
               ![t.sub][PaymentOfTask(t)] = Upsert(@, t.row)]
          /\ recorded' = [recorded EXCEPT
               ![t.sub] = @ \union {t.row.payload}]
    BY <1>1 DEF Save
  <2> DEFINE s == t.sub
             p == PaymentOfTask(t)
             row == Upsert(deliveries[s][p], t.row)
  <2>2. /\ s \in Subscriptions /\ t.row \in Row /\ p \in Payments
        /\ p = PaymentOf[t.row.payload] /\ TaskInv(t)
    BY TaskTypes DEF HonestInv, PaymentOfTask
  <2>3. row \in Row /\ row.status = t.row.status
    <3>1. deliveries[s][p] \in Row
      BY <2>2 DEF HonestInv, TypeOK
    <3> QED
      BY <2>2, <3>1, UpsertType
  <2>4. row.status # "absent"
    BY <2>1, <2>2, <2>3 DEF TaskInv
  <2> HIDE DEF row
  <2>5. /\ deliveries'[s][p] = row
        /\ \A u \in Subscriptions, q \in Payments :
             u # s \/ q # p => deliveries'[u][q] = deliveries[u][q]
    <3>1. deliveries \in [Subscriptions -> [Payments -> Row]]
      BY DEF HonestInv, TypeOK
    <3>2. deliveries' = [deliveries EXCEPT ![s][p] = row]
      BY <2>1, <2>2, <3>1 DEF row
    <3> QED
      BY <2>2, <2>3, <3>1, <3>2, TableType
  <2>6. ASSUME NEW u \in Subscriptions, NEW e \in recorded'[u]
        PROVE  deliveries'[u][PaymentOf[e]].status # "absent"
    <3>1. CASE u = s /\ PaymentOf[e] = p
      BY <2>4, <2>5, <3>1
    <3>2. CASE u # s \/ PaymentOf[e] # p
      <4>1. e \in recorded[u] /\ e \in Events
        BY <2>1, <2>2, <2>6, <3>2 DEF HonestInv, TypeOK
      <4>2. PaymentOf[e] \in Payments
        BY <4>1, EventsAssumption
      <4> QED
        BY <2>5, <3>2, <4>1, <4>2 DEF RecordedInv
    <3> QED
      BY <3>1, <3>2
  <2> QED
    BY <2>6 DEF RecordedInv
<1>2. ASSUME NEW s \in Subscriptions, NEW p \in Payments, FallDue(s, p)
      PROVE  RecordedInv'
  <2>1. /\ deliveries' = [deliveries EXCEPT ![s][p].due = TRUE]
        /\ recorded' = recorded
    BY <1>2 DEF FallDue
  <2>2. \A u \in Subscriptions, q \in Payments :
          deliveries'[u][q].status = deliveries[u][q].status
    BY <2>1 DEF HonestInv, TypeOK, Row
  <2>3. \A u \in Subscriptions : \A e \in recorded[u] :
          PaymentOf[e] \in Payments
    BY EventsAssumption DEF HonestInv, TypeOK
  <2> QED
    BY <2>1, <2>2, <2>3 DEF RecordedInv
<1>3. CASE UNCHANGED <<deliveries, recorded>>
  BY <1>3 DEF RecordedInv
<1> QED
  BY <1>1, <1>2, <1>3 DEF Next, vars, Subscribe, Dispatch, FetchRetriable,
     Post, Cut

\* NoEventDropped: redeliveries, races of dispatcher and poller and crashes
\* never drop an event that was recorded, as long as no two events of a type
\* are about one payment (payment.refunded events are, see the README).
THEOREM NothingDropped ==
    ASSUME \A e, f \in Events : PaymentOf[e] = PaymentOf[f] => e = f
    PROVE  Spec => []NoEventDropped
<1>1. HonestInv /\ RecordedInv => NoEventDropped
  <2> SUFFICES ASSUME HonestInv, RecordedInv,
                      NEW s \in Subscriptions, NEW e \in recorded[s]
               PROVE  e \in accepted[s] \/ StillTrying(s, e)
    BY DEF NoEventDropped
  <2> DEFINE p == PaymentOf[e]
             row == deliveries[s][p]
  <2>1. e \in Events /\ p \in Payments
    BY EventsAssumption DEF HonestInv, TypeOK
  <2>2. Owned(row, p) /\ Honest(row, s, p) /\ row.status # "absent"
    BY <2>1 DEF HonestInv, RecordedInv
  <2>3. row.payload = e
    BY <2>1, <2>2 DEF Owned
  <2>4. CASE row.status = "delivered"
    <3>1. PICK f \in accepted[s] : PaymentOf[f] = p
      BY <2>2, <2>4 DEF Honest
    <3>2. f \in Events
      BY DEF HonestInv, TypeOK
    <3> QED
      BY <2>1, <3>1, <3>2
  <2>5. CASE row.status \in {"failed", "exhausted"}
    BY <2>3, <2>5 DEF StillTrying
  <2> QED
    BY <2>2, <2>4, <2>5 DEF Owned
<1> QED
  BY <1>1, HonestInvInit, HonestInvNext, RecordedInvInit, RecordedInvNext,
     PTL DEF Spec

-----------------------------------------------------------------------------
(***************************************************************************)
(* What a worker's step does to a task, its id and its row.                *)
(***************************************************************************)

\* w sends t, and has done to save.
PostedTask(w, t, done, success) ==
    LET s == t.sub
        p == PaymentOfTask(t) IN
    /\ s \in Subscriptions /\ p \in Payments
    /\ ~t.posted /\ t.row.attempts \in Nat /\ t.row.attempts < MaxAttempts
    /\ \A u \in job[w] : ~u.posted
    /\ done.sub = s /\ PaymentOfTask(done) = p /\ done.posted
    /\ done.row.attempts = t.row.attempts + 1
    /\ done.row.status = IF success THEN "delivered"
                         ELSE IF t.row.attempts + 1 >= MaxAttempts
                              THEN "exhausted" ELSE "failed"
    /\ ~done.row.due
    /\ posts'[s][p] = posts[s][p] + 1
    /\ \A u \in Subscriptions, q \in Payments :
         u # s \/ q # p => posts'[u][q] = posts[u][q]
    /\ retries'[s][p] =
         retries[s][p] + (IF w \in Retriers THEN 1 ELSE 0)
    /\ \A u \in Subscriptions, q \in Payments :
         u # s \/ q # p => retries'[u][q] = retries[u][q]
    /\ job'[w] = (job[w] \ {t}) \union {done}
    /\ \A v \in Workers : v # w => job'[v] = job[v]

LEMMA PostStep ==
    ASSUME HonestInv, NEW w \in Workers, Post(w)
    PROVE  \E t \in job[w], done \in Task, success \in BOOLEAN :
               PostedTask(w, t, done, success)
<1>1. PICK t \in job[w], success \in BOOLEAN :
        /\ ~Busy(w)
        /\ posts' = [posts EXCEPT ![t.sub][PaymentOfTask(t)] = @ + 1]
        /\ retries' = IF w \in Retriers
                      THEN [retries EXCEPT ![t.sub][PaymentOfTask(t)] = @ + 1]
                      ELSE retries
        /\ job' = [job EXCEPT ![w] = (@ \ {t}) \union
             {[t EXCEPT !.posted = TRUE, !.row = Outcome(@, success)]}]
  BY DEF Post
<1> DEFINE s == t.sub
           p == PaymentOfTask(t)
           row == Outcome(t.row, success)
           done == [t EXCEPT !.posted = TRUE, !.row = row]
<1>2. /\ t \in Task /\ s \in Subscriptions /\ t.row \in Row
      /\ p \in Payments /\ TaskInv(t) /\ t.row.attempts \in Nat
  BY TaskTypes DEF HonestInv, Row
<1>3. /\ row \in Row /\ row.payload = t.row.payload
      /\ row.attempts = t.row.attempts + 1 /\ ~row.due
      /\ row.status = IF success THEN "delivered"
                      ELSE IF t.row.attempts + 1 >= MaxAttempts
                           THEN "exhausted" ELSE "failed"
  BY <1>2, OutcomeType
<1>4. /\ retries'[s][p] = retries[s][p] + (IF w \in Retriers THEN 1 ELSE 0)
      /\ \A u \in Subscriptions, q \in Payments :
           u # s \/ q # p => retries'[u][q] = retries[u][q]
  BY <1>1, RetriesStep
<1> HIDE DEF row
<1>5. /\ done \in Task /\ done.posted /\ done.row = row /\ done.sub = s
      /\ PaymentOfTask(done) = p
  BY <1>2, <1>3 DEF Task, PaymentOfTask
<1>6. /\ posts'[s][p] = posts[s][p] + 1
      /\ \A u \in Subscriptions, q \in Payments :
           u # s \/ q # p => posts'[u][q] = posts[u][q]
  <2>1. posts \in [Subscriptions -> [Payments -> Nat]]
    BY DEF HonestInv, TypeOK
  <2>2. posts[s][p] + 1 \in Nat
    BY <1>2, <2>1
  <2>3. posts' = [posts EXCEPT ![s][p] = posts[s][p] + 1]
    BY <1>1, <1>2, <2>1
  <2> QED
    BY <1>2, <2>1, <2>2, <2>3, TableType
<1>7. /\ job'[w] = (job[w] \ {t}) \union {done}
      /\ \A v \in Workers : v # w => job'[v] = job[v]
  BY <1>1 DEF HonestInv, TypeOK, row
<1>8. \A u \in job[w] : ~u.posted
  BY <1>1 DEF Busy
<1>9. ~t.posted /\ t.row.attempts < MaxAttempts
  BY <1>2, <1>8 DEF TaskInv
<1> HIDE DEF done
<1>10. PostedTask(w, t, done, success)
  BY <1>2, <1>3, <1>4, <1>5, <1>6, <1>7, <1>8, <1>9 DEF PostedTask
<1> QED
  BY <1>5, <1>10

\* w saves t.
SavedTask(w, t) ==
    LET s == t.sub
        p == PaymentOfTask(t) IN
    /\ s \in Subscriptions /\ p \in Payments
    /\ t.posted /\ t.row.attempts \in Nat
    /\ deliveries'[s][p].status = t.row.status
    /\ deliveries'[s][p].attempts = t.row.attempts
    /\ deliveries'[s][p].due = t.row.due
    /\ \A u \in Subscriptions, q \in Payments :
         u # s \/ q # p => deliveries'[u][q] = deliveries[u][q]
    /\ job'[w] = job[w] \ {t}
    /\ \A v \in Workers : v # w => job'[v] = job[v]

LEMMA SaveStep ==
    ASSUME HonestInv, NEW w \in Workers, Save(w)
    PROVE  \E t \in job[w] : SavedTask(w, t)
<1>1. PICK t \in job[w] :
        /\ t.posted
        /\ deliveries' = [deliveries EXCEPT
             ![t.sub][PaymentOfTask(t)] = Upsert(@, t.row)]
        /\ job' = [job EXCEPT ![w] = @ \ {t}]
  BY DEF Save
<1> DEFINE s == t.sub
           p == PaymentOfTask(t)
           row == Upsert(deliveries[s][p], t.row)
<1>2. /\ s \in Subscriptions /\ t.row \in Row /\ p \in Payments
      /\ t.row.attempts \in Nat
  BY TaskTypes DEF Row
<1>3. deliveries[s][p] \in Row
  BY <1>2 DEF HonestInv, TypeOK
<1>4. /\ row \in Row /\ row.status = t.row.status
      /\ row.attempts = t.row.attempts
  BY <1>2, <1>3, UpsertType
<1>5. row.due = t.row.due
  BY <1>2 DEF Upsert, Row
<1> HIDE DEF row
<1>6. /\ deliveries'[s][p] = row
      /\ \A u \in Subscriptions, q \in Payments :
           u # s \/ q # p => deliveries'[u][q] = deliveries[u][q]
  <2>1. deliveries \in [Subscriptions -> [Payments -> Row]]
    BY DEF HonestInv, TypeOK
  <2>2. deliveries' = [deliveries EXCEPT ![s][p] = row]
    BY <1>1, <1>2, <2>1 DEF row
  <2> QED
    BY <1>2, <1>4, <2>1, <2>2, TableType
<1>7. /\ job'[w] = job[w] \ {t}
      /\ \A v \in Workers : v # w => job'[v] = job[v]
  BY <1>1 DEF HonestInv, TypeOK
<1> QED
  BY <1>1, <1>2, <1>4, <1>5, <1>6, <1>7 DEF SavedTask

-----------------------------------------------------------------------------
(***************************************************************************)
(* How many POSTs an id gets.  Every dispatch of an event pays for         *)
(* MaxAttempts POSTs under each subscription.  Room(s, p) is what is left  *)
(* of that after the POSTs sent, and after what the dispatchers at work    *)
(* may still cause: MaxAttempts for a task not sent yet, one less for a    *)
(* failure not saved yet.                                                  *)
(***************************************************************************)

\* The tasks of w with a payment's event for a subscription.
At(w, s, p) == {t \in job[w] : t.sub = s /\ PaymentOfTask(t) = p}

Unposted(s, p) == {d \in Dispatchers : \E t \in At(d, s, p) : ~t.posted}

Failed(s, p) ==
    {d \in Dispatchers : \E t \in At(d, s, p) :
        t.posted /\ t.row.status = "failed"}

\* What RunsOf counts.
Ran(p) ==
    {run \in Events \X (1 .. MaxRuns) :
        PaymentOf[run[1]] = p /\ run[2] <= runs[run[1]]}

Balance(cut, ran, sent, unposted, failed) ==
    cut + MaxAttempts * ran - sent
        - MaxAttempts * unposted - (MaxAttempts - 1) * failed

Room(s, p) ==
    Balance(cuts, Cardinality(Ran(p)), posts[s][p],
            Cardinality(Unposted(s, p)), Cardinality(Failed(s, p)))

\* No dispatch, and no batch of the poller, has two tasks for one id.
OneEach ==
    \A w \in Workers : \A t, u \in job[w] :
        t.sub = u.sub /\ PaymentOfTask(t) = PaymentOfTask(u) => t = u

\* A dispatcher starts to count from nothing, whatever the table says.
FirstTries ==
    \A d \in Dispatchers : \A t \in job[d] :
        t.row.attempts = IF t.posted THEN 1 ELSE 0

Finite ==
    \A p \in Payments :
        /\ IsFiniteSet(Ran(p))
        /\ \A s \in Subscriptions :
             IsFiniteSet(Unposted(s, p)) /\ IsFiniteSet(Failed(s, p))

\* A poller holds the outcome of a POST that the row does not show yet.
Ahead(s, p) == \E w \in Retriers : \E t \in At(w, s, p) : t.posted

\* There is room for the attempts that the poller's task and the row leave,
\* one of which may be the one just made.
Paid(s, p) ==
    /\ Room(s, p) >= 0
    /\ \A w \in Retriers : \A t \in At(w, s, p) :
         ~t.posted \/ t.row.status = "failed" =>
             MaxAttempts - t.row.attempts <= Room(s, p)
    /\ deliveries[s][p].status = "failed" =>
         MaxAttempts - deliveries[s][p].attempts
             <= Room(s, p) + (IF Ahead(s, p) THEN 1 ELSE 0)

PolicyInv ==
    /\ HonestInv /\ OneEach /\ FirstTries /\ Finite
    /\ \A s \in Subscriptions, p \in Payments : Paid(s, p)

\* The container of the webhook service has a fixed name in docker-compose.yml,
\* so there is one, and main starts one poller in it.
OnePoller == \A v, w \in Retriers : v = w

LEMMA OneEachNext == HonestInv /\ OneEach /\ [Next]_vars => OneEach'
<1> SUFFICES ASSUME HonestInv, OneEach, [Next]_vars
             PROVE  OneEach'
  OBVIOUS
<1>1. ASSUME NEW d \in Dispatchers, NEW e \in Events, Dispatch(d, e)
      PROVE  OneEach'
  <2>1. \A w \in Workers :
          \/ job'[w] = job[w]
          \/ job'[w] = {NewDelivery(s, e) : s \in active}
    BY <1>1 DEF Dispatch, HonestInv, TypeOK
  <2>2. \A t, u \in {NewDelivery(s, e) : s \in active} :
          t.sub = u.sub => t = u
    <3>1. \A t \in {NewDelivery(s, e) : s \in active} :
            t = NewDelivery(t.sub, e)
      BY DEF NewDelivery
    <3> QED
      BY <3>1
  <2> QED
    BY <2>1, <2>2 DEF OneEach, PaymentOfTask
<1>2. ASSUME NEW r \in Retriers, FetchRetriable(r)
      PROVE  OneEach'
  <2>1. PICK batch \in SUBSET Retriable : job' = [job EXCEPT ![r] = batch]
    BY <1>2 DEF FetchRetriable
  <2>2. \A w \in Workers : job'[w] = job[w] \/ job'[w] \subseteq Retriable
    BY <2>1 DEF HonestInv, TypeOK
  <2>3. ASSUME NEW t \in Retriable
        PROVE  /\ t.sub \in Subscriptions /\ PaymentOfTask(t) \in Payments
               /\ t = [sub |-> t.sub, posted |-> FALSE,
                       row |-> deliveries[t.sub][PaymentOfTask(t)]]
    <3>1. PICK s \in active, p \in Payments :
            /\ t = [sub |-> s, row |-> deliveries[s][p], posted |-> FALSE]
            /\ deliveries[s][p].status = "failed"
      BY DEF Retriable
    <3>2. s \in Subscriptions
      BY DEF HonestInv, TypeOK
    <3>3. Owned(deliveries[s][p], p)
      BY <3>2 DEF HonestInv
    <3>4. PaymentOfTask(t) = p
      BY <3>1, <3>3 DEF Owned, PaymentOfTask
    <3> QED
      BY <3>1, <3>2, <3>4
  <2>4. \A t, u \in Retriable :
          t.sub = u.sub /\ PaymentOfTask(t) = PaymentOfTask(u) => t = u
    BY <2>3, Zenon
  <2> QED
    BY <2>2, <2>4 DEF OneEach, PaymentOfTask
<1>3. ASSUME NEW w \in Workers, Post(w)
      PROVE  OneEach'
  <2>1. PICK t \in job[w], done \in Task, success \in BOOLEAN :
          PostedTask(w, t, done, success)
    BY <1>3, PostStep
  <2>2. \A v \in Workers : \A x \in job'[v] :
          \/ x = done /\ v = w
          \/ x \in job[v] /\ (v = w => x # t)
    BY <2>1 DEF PostedTask
  <2>3. done.sub = t.sub /\ PaymentOfTask(done) = PaymentOfTask(t)
    BY <2>1 DEF PostedTask
  <2>4. ASSUME NEW v \in Workers, NEW x \in job'[v], NEW y \in job'[v],
               x.sub = y.sub, PaymentOfTask(x) = PaymentOfTask(y)
        PROVE  x = y
    <3>1. CASE x \in job[v] /\ y \in job[v]
      BY <2>4, <3>1 DEF OneEach
    <3>2. x \notin job[v] => y = done
      BY <2>2, <2>3, <2>4 DEF OneEach
    <3>3. y \notin job[v] => x = done
      BY <2>2, <2>3, <2>4 DEF OneEach
    <3> QED
      BY <2>2, <3>1, <3>2, <3>3
  <2> QED
    BY <2>4 DEF OneEach, PaymentOfTask
<1>4. ASSUME \A w \in Workers : job'[w] \subseteq job[w]
      PROVE  OneEach'
  BY <1>4 DEF OneEach, PaymentOfTask
<1>5. ASSUME NEW w \in Workers, Save(w) \/ Cut(w)
      PROVE  OneEach'
  <2>1. job \in [Workers -> SUBSET Task]
    BY DEF HonestInv, TypeOK
  <2>2. \A v \in Workers : job'[v] \subseteq job[v]
    BY <1>5, <2>1 DEF Save, Cut
  <2> QED
    BY <1>4, <2>2
<1>6. CASE UNCHANGED job
  BY <1>4, <1>6
<1> QED
  BY <1>1, <1>2, <1>3, <1>5, <1>6 DEF Next, vars, Subscribe, FallDue

LEMMA FirstTriesNext == HonestInv /\ FirstTries /\ [Next]_vars => FirstTries'
<1> SUFFICES ASSUME HonestInv, FirstTries, [Next]_vars
             PROVE  FirstTries'
  OBVIOUS
<1>1. ASSUME NEW d \in Dispatchers, NEW e \in Events, Dispatch(d, e)
      PROVE  FirstTries'
  <2>1. \A v \in Dispatchers : \A t \in job'[v] :
          t \in job[v] \/ \E s \in active : t = NewDelivery(s, e)
    BY <1>1 DEF Dispatch, HonestInv, TypeOK
  <2> QED
    BY <2>1 DEF FirstTries, NewDelivery
<1>2. ASSUME NEW r \in Retriers, FetchRetriable(r)
      PROVE  FirstTries'
  <2>1. \A d \in Dispatchers : job'[d] = job[d]
    BY <1>2, WorkersAssumption DEF FetchRetriable, HonestInv, TypeOK, Workers
  <2> QED
    BY <2>1 DEF FirstTries
<1>3. ASSUME NEW w \in Workers, Post(w)
      PROVE  FirstTries'
  <2>1. PICK t \in job[w], done \in Task, success \in BOOLEAN :
          PostedTask(w, t, done, success)
    BY <1>3, PostStep
  <2>2. \A d \in Dispatchers : \A x \in job'[d] :
          \/ x = done /\ d = w
          \/ x \in job[d]
    BY <2>1 DEF PostedTask, Workers
  <2>3. w \in Dispatchers => done.posted /\ done.row.attempts = 1
    BY <2>1 DEF PostedTask, FirstTries
  <2> QED
    BY <2>2, <2>3 DEF FirstTries
<1>4. ASSUME \A w \in Workers : job'[w] \subseteq job[w]
      PROVE  FirstTries'
  BY <1>4 DEF FirstTries, Workers
<1>5. ASSUME NEW w \in Workers, Save(w) \/ Cut(w)
      PROVE  FirstTries'
  <2>1. job \in [Workers -> SUBSET Task]
    BY DEF HonestInv, TypeOK
  <2>2. \A v \in Workers : job'[v] \subseteq job[v]
    BY <1>5, <2>1 DEF Save, Cut
  <2> QED
    BY <1>4, <2>2
<1>6. CASE UNCHANGED job
  BY <1>4, <1>6
<1> QED
  BY <1>1, <1>2, <1>3, <1>5, <1>6 DEF Next, vars, Subscribe, FallDue

\* What a step adds for p: failed saves and crashes, dispatches of its events,
\* POSTs under s.
Added(s, p) ==
    Balance(cuts' - cuts, Cardinality(Ran(p)') - Cardinality(Ran(p)),
            posts'[s][p] - posts[s][p], 0, 0)

\* A step in which no dispatcher but w, if w is one, changes its tasks.
LEMMA RoomMoves ==
    ASSUME HonestInv, HonestInv', Finite,
           NEW s \in Subscriptions, NEW p \in Payments,
           NEW w, \A d \in Dispatchers : d # w => job'[d] = job[d],
           IsFiniteSet(Ran(p)')
    PROVE  /\ IsFiniteSet(Unposted(s, p)') /\ IsFiniteSet(Failed(s, p)')
           /\ Room(s, p) \in Int /\ Room(s, p)' \in Int
           /\ Room(s, p)' = Room(s, p) + Added(s, p)
                + (IF w \in Unposted(s, p) THEN MaxAttempts ELSE 0)
                - (IF w \in Unposted(s, p)' THEN MaxAttempts ELSE 0)
                + (IF w \in Failed(s, p) THEN MaxAttempts - 1 ELSE 0)
                - (IF w \in Failed(s, p)' THEN MaxAttempts - 1 ELSE 0)
<1> DEFINE U == Cardinality(Unposted(s, p))
           U2 == Cardinality(Unposted(s, p)')
           F == Cardinality(Failed(s, p))
           F2 == Cardinality(Failed(s, p)')
           du == (IF w \in Unposted(s, p)' THEN 1 ELSE 0)
                   - (IF w \in Unposted(s, p) THEN 1 ELSE 0)
           df == (IF w \in Failed(s, p)' THEN 1 ELSE 0)
                   - (IF w \in Failed(s, p) THEN 1 ELSE 0)
           R == Cardinality(Ran(p))
           R2 == Cardinality(Ran(p)')
           x == posts[s][p]
           x2 == posts'[s][p]
<1>1. \A d \in Dispatchers : d # w => At(d, s, p)' = At(d, s, p)
  BY DEF At, PaymentOfTask
<1>2. /\ IsFiniteSet(Unposted(s, p)') /\ U \in Nat /\ U2 \in Nat
      /\ U2 = U + du
  <2>1. Unposted(s, p) \ {w} = Unposted(s, p)' \ {w}
    BY <1>1 DEF Unposted
  <2>2. IsFiniteSet(Unposted(s, p))
    BY DEF Finite
  <2> QED
    BY <2>1, <2>2, OneMember
<1>3. /\ IsFiniteSet(Failed(s, p)') /\ F \in Nat /\ F2 \in Nat
      /\ F2 = F + df
  <2>1. Failed(s, p) \ {w} = Failed(s, p)' \ {w}
    BY <1>1 DEF Failed
  <2>2. IsFiniteSet(Failed(s, p))
    BY DEF Finite
  <2> QED
    BY <2>1, <2>2, OneMember
<1>4. /\ R \in Nat /\ R2 \in Nat /\ x \in Nat /\ x2 \in Nat
      /\ cuts \in Nat /\ cuts' \in Nat
  BY FS_CardinalityType, BoundsAssumption DEF Finite, HonestInv, TypeOK
<1>5. du \in -1 .. 1 /\ df \in -1 .. 1
  OBVIOUS
<1>6. /\ Room(s, p) = Balance(cuts, R, x, U, F)
      /\ Room(s, p)' = Balance(cuts', R2, x2, U2, F2)
  BY DEF Room
<1>7. /\ Room(s, p) \in Int /\ Room(s, p)' \in Int
      /\ Room(s, p)' = Room(s, p)
                         + Balance(cuts' - cuts, R2 - R, x2 - x, du, df)
  <2> HIDE DEF U, U2, F, F2, du, df, R, R2, x, x2
  <2>1. Balance(cuts, R, x, U, F) \in Int
    BY <1>2, <1>3, <1>4, BoundsAssumption DEF Balance
  <2>2. Balance(cuts', R2, x2, U2, F2) \in Int
    BY <1>2, <1>3, <1>4, BoundsAssumption DEF Balance
  <2>3. Balance(cuts', R2, x2, U + du, F + df) =
          Balance(cuts, R, x, U, F)
            + Balance(cuts' - cuts, R2 - R, x2 - x, du, df)
    BY <1>2, <1>3, <1>4, <1>5, BoundsAssumption DEF Balance
  <2> QED
    BY <1>2, <1>3, <1>6, <2>1, <2>2, <2>3, Zenon
<1>8. Balance(cuts' - cuts, R2 - R, x2 - x, du, df) =
        Added(s, p) - MaxAttempts * du - (MaxAttempts - 1) * df
  <2> HIDE DEF U, U2, F, F2, du, df, R, R2, x, x2
  <2>1. Added(s, p) = Balance(cuts' - cuts, R2 - R, x2 - x, 0, 0)
    BY DEF Added, R, R2, x, x2
  <2> QED
    BY <1>4, <1>5, <2>1, BoundsAssumption DEF Balance
<1>9. /\ MaxAttempts * du =
            (IF w \in Unposted(s, p)' THEN MaxAttempts ELSE 0)
              - (IF w \in Unposted(s, p) THEN MaxAttempts ELSE 0)
      /\ (MaxAttempts - 1) * df =
            (IF w \in Failed(s, p)' THEN MaxAttempts - 1 ELSE 0)
              - (IF w \in Failed(s, p) THEN MaxAttempts - 1 ELSE 0)
  BY BoundsAssumption
<1>10. Added(s, p) \in Int
  <2> HIDE DEF R, R2, x, x2
  <2>1. Added(s, p) = Balance(cuts' - cuts, R2 - R, x2 - x, 0, 0)
    BY DEF Added, R, R2, x, x2
  <2> QED
    BY <1>4, <2>1, BoundsAssumption DEF Balance
<1> DEFINE mu == MaxAttempts * du
           mf == (MaxAttempts - 1) * df
<1>11. mu \in Int /\ mf \in Int
  BY <1>5, BoundsAssumption
<1>12. Room(s, p)' = Room(s, p) + (Added(s, p) - mu - mf)
  BY <1>7, <1>8, Zenon
<1> HIDE DEF mu, mf
<1>13. Room(s, p)' = Room(s, p) + Added(s, p) - mu - mf
  BY <1>7, <1>10, <1>11, <1>12
<1>14. /\ mu = (IF w \in Unposted(s, p)' THEN MaxAttempts ELSE 0)
                - (IF w \in Unposted(s, p) THEN MaxAttempts ELSE 0)
       /\ mf = (IF w \in Failed(s, p)' THEN MaxAttempts - 1 ELSE 0)
                - (IF w \in Failed(s, p) THEN MaxAttempts - 1 ELSE 0)
  BY <1>9 DEF mu, mf
<1> HIDE DEF du, df, U, U2, F, F2, R, R2, x, x2
<1>15. Room(s, p)' = Room(s, p) + Added(s, p)
         + (IF w \in Unposted(s, p) THEN MaxAttempts ELSE 0)
         - (IF w \in Unposted(s, p)' THEN MaxAttempts ELSE 0)
         + (IF w \in Failed(s, p) THEN MaxAttempts - 1 ELSE 0)
         - (IF w \in Failed(s, p)' THEN MaxAttempts - 1 ELSE 0)
  BY <1>7, <1>10, <1>13, <1>14, BoundsAssumption
<1> QED
  BY <1>2, <1>3, <1>7, <1>15

\* A step that dispatches nothing.
LEMMA NothingRun ==
    ASSUME HonestInv, HonestInv', Finite, runs' = runs, NEW p \in Payments
    PROVE  /\ IsFiniteSet(Ran(p)')
           /\ \A s \in Subscriptions :
                Added(s, p) =
                    (cuts' - cuts) - (posts'[s][p] - posts[s][p])
<1>1. Ran(p)' = Ran(p)
  BY DEF Ran
<1>2. IsFiniteSet(Ran(p)) /\ Cardinality(Ran(p)) \in Nat
  BY FS_CardinalityType DEF Finite
<1>3. \A s \in Subscriptions :
        /\ posts[s][p] \in Nat /\ posts'[s][p] \in Nat
        /\ cuts \in Nat /\ cuts' \in Nat
  BY BoundsAssumption DEF HonestInv, TypeOK
<1> QED
  BY <1>1, <1>2, <1>3, BoundsAssumption DEF Added, Balance

\* Where there is no less room, and poller and row are as before.
LEMMA PaidKept ==
    ASSUME NEW s \in Subscriptions, NEW p \in Payments,
           HonestInv, Paid(s, p), Room(s, p) \in Int, Room(s, p)' \in Int,
           Room(s, p) <= Room(s, p)',
           \A w \in Retriers : At(w, s, p)' = At(w, s, p),
           deliveries'[s][p].status = deliveries[s][p].status,
           deliveries'[s][p].attempts = deliveries[s][p].attempts
    PROVE  Paid(s, p)'
<1>1. deliveries[s][p].attempts \in Nat
  BY DEF HonestInv, TypeOK, Row
<1>2. Ahead(s, p)' = Ahead(s, p)
  BY DEF Ahead
<1>3. ASSUME NEW w \in Retriers, NEW t \in At(w, s, p)
      PROVE  t.row.attempts \in Nat
  <2>1. w \in Workers /\ t \in job[w]
    BY DEF At, Workers
  <2> QED
    BY <2>1, TaskTypes DEF Row
<1> DEFINE one == IF Ahead(s, p) THEN 1 ELSE 0
<1>4. one \in 0 .. 1
  OBVIOUS
<1>5. deliveries[s][p].status = "failed" =>
        MaxAttempts - deliveries[s][p].attempts <= Room(s, p)' + one
  BY <1>1, <1>4, BoundsAssumption DEF Paid
<1>6. \A w \in Retriers : \A t \in At(w, s, p) :
        ~t.posted \/ t.row.status = "failed" =>
            MaxAttempts - t.row.attempts <= Room(s, p)'
  BY <1>3, BoundsAssumption DEF Paid
<1>7. Room(s, p)' >= 0
  BY DEF Paid
<1> QED
  BY <1>2, <1>5, <1>6, <1>7 DEF Paid

\* The tasks for an id before and after one of them is sent.
LEMMA PostedAt ==
    ASSUME OneEach, NEW w \in Workers, NEW t \in job[w], NEW done,
           NEW success, PostedTask(w, t, done, success)
    PROVE  /\ At(w, t.sub, PaymentOfTask(t)) = {t}
           /\ At(w, t.sub, PaymentOfTask(t))' = {done}
           /\ \A v \in Workers, u \in Subscriptions, q \in Payments :
                v # w \/ u # t.sub \/ q # PaymentOfTask(t)
                    => At(v, u, q)' = At(v, u, q)
<1> DEFINE s == t.sub
           p == PaymentOfTask(t)
<1>1. /\ done.sub = s /\ PaymentOfTask(done) = p
      /\ job'[w] = (job[w] \ {t}) \union {done}
      /\ \A v \in Workers : v # w => job'[v] = job[v]
  BY DEF PostedTask
<1>2. \A u \in job[w] : u.sub = s /\ PaymentOfTask(u) = p => u = t
  BY DEF OneEach
<1>3. At(w, s, p) = {t}
  BY <1>2 DEF At
<1>4. At(w, s, p)' = {x \in job'[w] : x.sub = s /\ PaymentOfTask(x) = p}
  BY DEF At, PaymentOfTask
<1>5. At(w, s, p)' = {done}
  BY <1>1, <1>2, <1>4
<1>6. ASSUME NEW v \in Workers, NEW u, NEW q, v # w \/ u # s \/ q # p
      PROVE  At(v, u, q)' = At(v, u, q)
  <2>1. At(v, u, q)' = {x \in job'[v] : x.sub = u /\ PaymentOfTask(x) = q}
    BY DEF At, PaymentOfTask
  <2>2. CASE v # w
    BY <1>1, <2>1, <2>2 DEF At
  <2>3. CASE v = w
    BY <1>1, <1>6, <2>1, <2>3 DEF At
  <2> QED
    BY <2>2, <2>3
<1> QED
  BY <1>3, <1>5, <1>6

\* The tasks for an id before and after one of them is saved.
LEMMA SavedAt ==
    ASSUME OneEach, NEW w \in Workers, NEW t \in job[w], SavedTask(w, t)
    PROVE  /\ At(w, t.sub, PaymentOfTask(t)) = {t}
           /\ At(w, t.sub, PaymentOfTask(t))' = {}
           /\ \A v \in Workers, u \in Subscriptions, q \in Payments :
                v # w \/ u # t.sub \/ q # PaymentOfTask(t)
                    => At(v, u, q)' = At(v, u, q)
<1> DEFINE s == t.sub
           p == PaymentOfTask(t)
<1>1. /\ job'[w] = job[w] \ {t}
      /\ \A v \in Workers : v # w => job'[v] = job[v]
  BY DEF SavedTask
<1>2. \A u \in job[w] : u.sub = s /\ PaymentOfTask(u) = p => u = t
  BY DEF OneEach
<1>3. At(w, s, p) = {t}
  BY <1>2 DEF At
<1>4. At(w, s, p)' = {x \in job'[w] : x.sub = s /\ PaymentOfTask(x) = p}
  BY DEF At, PaymentOfTask
<1>5. At(w, s, p)' = {}
  BY <1>1, <1>2, <1>4
<1>6. ASSUME NEW v \in Workers, NEW u, NEW q, v # w \/ u # s \/ q # p
      PROVE  At(v, u, q)' = At(v, u, q)
  <2>1. At(v, u, q)' = {x \in job'[v] : x.sub = u /\ PaymentOfTask(x) = q}
    BY DEF At, PaymentOfTask
  <2>2. CASE v # w
    BY <1>1, <2>1, <2>2 DEF At
  <2>3. CASE v = w
    BY <1>1, <1>6, <2>1, <2>3 DEF At
  <2> QED
    BY <2>2, <2>3
<1> QED
  BY <1>3, <1>5, <1>6

PaidInv == Finite /\ \A s \in Subscriptions, p \in Payments : Paid(s, p)

\* A dispatch pays for the attempts it may make.
LEMMA DispatchPaid ==
    ASSUME HonestInv, HonestInv', PaidInv,
           NEW d \in Dispatchers, NEW e \in Events, Dispatch(d, e)
    PROVE  PaidInv'
<1>1. /\ job[d] = {} /\ runs[e] < MaxRuns
      /\ runs' = [runs EXCEPT ![e] = @ + 1]
      /\ job' = [job EXCEPT ![d] = {NewDelivery(s, e) : s \in active}]
      /\ UNCHANGED <<deliveries, posts, cuts>>
  BY DEF Dispatch
<1>2. /\ runs \in [Events -> Nat] /\ MaxRuns \in Nat
      /\ runs'[e] = runs[e] + 1
      /\ \A f \in Events : f # e => runs'[f] = runs[f]
  BY <1>1, BoundsAssumption DEF HonestInv, TypeOK
<1>3. /\ job'[d] = {NewDelivery(s, e) : s \in active}
      /\ \A w \in Workers : w # d => job'[w] = job[w]
  BY <1>1 DEF HonestInv, TypeOK, Workers
<1>4. ASSUME NEW p \in Payments
      PROVE  /\ IsFiniteSet(Ran(p)') /\ Cardinality(Ran(p)) \in Nat
             /\ Cardinality(Ran(p)') = Cardinality(Ran(p))
                  + (IF PaymentOf[e] = p THEN 1 ELSE 0)
  <2>1. IsFiniteSet(Ran(p)) /\ Cardinality(Ran(p)) \in Nat
    BY FS_CardinalityType DEF PaidInv, Finite
  <2>2. Ran(p)' = {run \in Events \X (1 .. MaxRuns) :
                     PaymentOf[run[1]] = p /\ run[2] <= runs'[run[1]]}
    BY DEF Ran
  <2>3. CASE PaymentOf[e] = p
    <3> DEFINE last == <<e, runs[e] + 1>>
    <3>1. last \in Events \X (1 .. MaxRuns) /\ last \notin Ran(p)
      BY <1>1, <1>2 DEF Ran
    <3>2. Ran(p)' = Ran(p) \union {last}
      <4>1. last \in Ran(p)'
        BY <1>2, <2>2, <2>3, <3>1
      <4>2. ASSUME NEW run \in Events \X (1 .. MaxRuns), run # last
            PROVE  run[2] <= runs'[run[1]] <=> run[2] <= runs[run[1]]
        <5>1. PICK f \in Events, n \in 1 .. MaxRuns : run = <<f, n>>
          BY <4>2
        <5>2. CASE f = e
          <6>1. n # runs[e] + 1
            BY <4>2, <5>1, <5>2
          <6> QED
            BY <1>2, <5>1, <5>2, <6>1
        <5>3. CASE f # e
          BY <1>2, <5>1, <5>3
        <5> QED
          BY <5>2, <5>3
      <4> QED
        BY <2>2, <4>1, <4>2 DEF Ran
    <3> QED
      BY <2>1, <2>3, <3>1, <3>2, FS_AddElement
  <2>4. CASE PaymentOf[e] # p
    <3>1. Ran(p)' = Ran(p)
      BY <1>2, <2>2, <2>4 DEF Ran
    <3> QED
      BY <2>1, <2>4, <3>1
  <2> QED
    BY <2>3, <2>4
<1>5. ASSUME NEW s \in Subscriptions, NEW p \in Payments
      PROVE  /\ IsFiniteSet(Unposted(s, p)') /\ IsFiniteSet(Failed(s, p)')
             /\ Paid(s, p)'
  <2>1. \A w \in Workers : w # d => At(w, s, p)' = At(w, s, p)
    BY <1>3 DEF At, PaymentOfTask
  <2>2. d \notin Unposted(s, p) /\ d \notin Failed(s, p)
    BY <1>1 DEF Unposted, Failed, At
  <2>3. \A t \in At(d, s, p)' :
          ~t.posted /\ PaymentOf[e] = p
    BY <1>3 DEF At, PaymentOfTask, NewDelivery
  <2>4. d \notin Failed(s, p)'
    BY <2>3 DEF Failed
  <2>5. d \in Unposted(s, p)' => PaymentOf[e] = p
    BY <2>3 DEF Unposted
  <2>6. Added(s, p) = IF PaymentOf[e] = p THEN MaxAttempts ELSE 0
    <3>1. posts[s][p] \in Nat /\ cuts \in Nat
      BY BoundsAssumption DEF HonestInv, TypeOK
    <3>2. cuts' - cuts = 0 /\ posts'[s][p] - posts[s][p] = 0
      BY <1>1, <3>1
    <3>3. Cardinality(Ran(p)') - Cardinality(Ran(p)) =
            IF PaymentOf[e] = p THEN 1 ELSE 0
      BY <1>4
    <3> QED
      BY <3>2, <3>3, BoundsAssumption DEF Added, Balance
  <2>7. /\ IsFiniteSet(Unposted(s, p)') /\ IsFiniteSet(Failed(s, p)')
        /\ Room(s, p) \in Int /\ Room(s, p)' \in Int
        /\ Room(s, p)' = Room(s, p) + Added(s, p)
             + (IF d \in Unposted(s, p) THEN MaxAttempts ELSE 0)
             - (IF d \in Unposted(s, p)' THEN MaxAttempts ELSE 0)
             + (IF d \in Failed(s, p) THEN MaxAttempts - 1 ELSE 0)
             - (IF d \in Failed(s, p)' THEN MaxAttempts - 1 ELSE 0)
    BY <1>3, <1>4, RoomMoves DEF PaidInv, Workers
  <2>8. Room(s, p) <= Room(s, p)'
    BY <2>2, <2>4, <2>5, <2>6, <2>7, BoundsAssumption
  <2>9. \A w \in Retriers : At(w, s, p)' = At(w, s, p)
    BY <2>1, WorkersAssumption DEF Workers
  <2>10. Paid(s, p)'
    BY <1>1, <2>7, <2>8, <2>9, PaidKept DEF PaidInv
  <2> QED
    BY <2>7, <2>10
<1> QED
  BY <1>4, <1>5 DEF PaidInv, Finite

\* A batch asks for no more than the rows left: the poller has saved what it
\* sent before.
LEMMA FetchPaid ==
    ASSUME HonestInv, HonestInv', PaidInv, OnePoller,
           NEW r \in Retriers, FetchRetriable(r)
    PROVE  PaidInv'
<1>1. PICK batch \in SUBSET Retriable :
        job[r] = {} /\ job' = [job EXCEPT ![r] = batch]
  BY DEF FetchRetriable
<1>2. /\ UNCHANGED <<deliveries, posts, runs, cuts>>
      /\ job'[r] \subseteq Retriable
      /\ \A w \in Workers : w # r => job'[w] = job[w]
  BY <1>1 DEF FetchRetriable, HonestInv, TypeOK, Workers
<1>3. ASSUME NEW s \in Subscriptions, NEW p \in Payments
      PROVE  /\ IsFiniteSet(Ran(p)')
             /\ IsFiniteSet(Unposted(s, p)') /\ IsFiniteSet(Failed(s, p)')
             /\ Paid(s, p)'
  <2>1. r \notin Dispatchers /\ \A d \in Dispatchers : job'[d] = job[d]
    BY <1>2, WorkersAssumption DEF Workers
  <2>2. /\ r \notin Unposted(s, p) /\ r \notin Unposted(s, p)'
        /\ r \notin Failed(s, p) /\ r \notin Failed(s, p)'
    BY <2>1 DEF Unposted, Failed
  <2>3. IsFiniteSet(Ran(p)') /\ Added(s, p) = 0
    <3>1. posts[s][p] \in Nat /\ cuts \in Nat
      BY BoundsAssumption DEF HonestInv, TypeOK
    <3> QED
      BY <1>2, <3>1, NothingRun DEF PaidInv
  <2>4. /\ IsFiniteSet(Unposted(s, p)') /\ IsFiniteSet(Failed(s, p)')
        /\ Room(s, p) \in Int /\ Room(s, p)' \in Int
        /\ Room(s, p)' = Room(s, p) + Added(s, p)
             + (IF r \in Unposted(s, p) THEN MaxAttempts ELSE 0)
             - (IF r \in Unposted(s, p)' THEN MaxAttempts ELSE 0)
             + (IF r \in Failed(s, p) THEN MaxAttempts - 1 ELSE 0)
             - (IF r \in Failed(s, p)' THEN MaxAttempts - 1 ELSE 0)
    BY <2>1, <2>3, RoomMoves DEF PaidInv
  <2>5. Room(s, p)' = Room(s, p)
    BY <2>2, <2>3, <2>4
  <2>6. ~Ahead(s, p)
    BY <1>1 DEF OnePoller, Ahead, At
  <2>7. Paid(s, p)
    BY DEF PaidInv
  <2>8. ASSUME NEW w \in Retriers, NEW t \in At(w, s, p)'
        PROVE  ~t.posted /\ MaxAttempts - t.row.attempts <= Room(s, p)'
    <3>1. w = r /\ t \in Retriable /\ t.sub = s /\ PaymentOfTask(t) = p
      BY <1>2 DEF OnePoller, At, PaymentOfTask
    <3>2. PICK u \in active, q \in Payments :
            /\ t = [sub |-> u, row |-> deliveries[u][q], posted |-> FALSE]
            /\ deliveries[u][q].status = "failed"
      BY <3>1 DEF Retriable
    <3>3. u = s /\ q = p
      <4>1. u \in Subscriptions
        BY DEF HonestInv, TypeOK
      <4>2. Owned(deliveries[u][q], q)
        BY <4>1 DEF HonestInv
      <4> QED
        BY <3>1, <3>2, <4>2 DEF Owned, PaymentOfTask
    <3>4. t.row = deliveries[s][p] /\ ~t.posted
      BY <3>2, <3>3
    <3>5. MaxAttempts - deliveries[s][p].attempts <= Room(s, p)
      <4>1. deliveries[s][p].attempts \in Nat
        BY DEF HonestInv, TypeOK, Row
      <4> QED
        BY <2>4, <2>6, <2>7, <3>2, <3>3, <4>1, BoundsAssumption DEF Paid
    <3> QED
      BY <2>5, <3>4, <3>5
  <2>9. ~Ahead(s, p)'
    BY <2>8 DEF Ahead
  <2>10. Paid(s, p)'
    BY <1>2, <2>5, <2>6, <2>7, <2>8, <2>9 DEF Paid
  <2> QED
    BY <2>3, <2>4, <2>10
<1>4. \A p \in Payments : IsFiniteSet(Ran(p)')
  BY <1>2, NothingRun DEF PaidInv
<1> QED
  BY <1>3, <1>4 DEF PaidInv, Finite

\* A POST uses up one of the attempts that are left for it.
LEMMA PostPaid ==
    ASSUME HonestInv, HonestInv', OneEach, PaidInv, OnePoller,
           NEW w \in Workers, Post(w)
    PROVE  PaidInv'
<1>1. PICK t \in job[w], done \in Task, success \in BOOLEAN :
        PostedTask(w, t, done, success)
  BY PostStep
<1> DEFINE s == t.sub
           p == PaymentOfTask(t)
<1>2. UNCHANGED <<deliveries, runs, cuts>>
  BY DEF Post
<1>3. /\ s \in Subscriptions /\ p \in Payments
      /\ ~t.posted /\ t.row.attempts \in Nat /\ t.row.attempts < MaxAttempts
      /\ done.posted /\ done.row.attempts = t.row.attempts + 1
      /\ \A u \in job[w] : ~u.posted
      /\ posts'[s][p] = posts[s][p] + 1
      /\ \A v \in Workers : v # w => job'[v] = job[v]
  BY <1>1 DEF PostedTask
<1>4. /\ At(w, s, p) = {t} /\ At(w, s, p)' = {done}
      /\ \A v \in Workers, u \in Subscriptions, q \in Payments :
           v # w \/ u # s \/ q # p => At(v, u, q)' = At(v, u, q)
  BY <1>1, PostedAt
<1>5. ASSUME NEW u \in Subscriptions, NEW q \in Payments
      PROVE  /\ IsFiniteSet(Ran(q)')
             /\ IsFiniteSet(Unposted(u, q)') /\ IsFiniteSet(Failed(u, q)')
             /\ Paid(u, q)'
  <2>1. /\ IsFiniteSet(Ran(q)')
        /\ Added(u, q) = - (posts'[u][q] - posts[u][q])
        /\ posts[u][q] \in Nat
    <3>1. posts[u][q] \in Nat /\ posts'[u][q] \in Nat /\ cuts \in Nat
      BY BoundsAssumption DEF HonestInv, TypeOK
    <3>2. /\ IsFiniteSet(Ran(q)')
          /\ Added(u, q) = (cuts' - cuts) - (posts'[u][q] - posts[u][q])
      BY <1>2, NothingRun DEF PaidInv
    <3> QED
      BY <1>2, <3>1, <3>2
  <2>2. /\ IsFiniteSet(Unposted(u, q)') /\ IsFiniteSet(Failed(u, q)')
        /\ Room(u, q) \in Int /\ Room(u, q)' \in Int
        /\ Room(u, q)' = Room(u, q) + Added(u, q)
             + (IF w \in Unposted(u, q) THEN MaxAttempts ELSE 0)
             - (IF w \in Unposted(u, q)' THEN MaxAttempts ELSE 0)
             + (IF w \in Failed(u, q) THEN MaxAttempts - 1 ELSE 0)
             - (IF w \in Failed(u, q)' THEN MaxAttempts - 1 ELSE 0)
    BY <1>3, <2>1, RoomMoves DEF PaidInv, Workers
  <2>3. Paid(u, q)
    BY DEF PaidInv
  <2>4. CASE u # s \/ q # p
    <3>1. \A v \in Workers : At(v, u, q)' = At(v, u, q)
      BY <1>4, <2>4
    <3>2. /\ w \in Unposted(u, q)' <=> w \in Unposted(u, q)
          /\ w \in Failed(u, q)' <=> w \in Failed(u, q)
      BY <3>1 DEF Unposted, Failed
    <3>3. posts'[u][q] = posts[u][q]
      BY <1>1, <2>4 DEF PostedTask
    <3>4. Room(u, q)' = Room(u, q)
      BY <2>1, <2>2, <3>2, <3>3, BoundsAssumption
    <3>5. Paid(u, q)'
      BY <1>2, <2>2, <2>3, <3>1, <3>4, PaidKept DEF Workers
    <3> QED
      BY <2>1, <2>2, <3>5
  <2>5. CASE u = s /\ q = p /\ w \in Dispatchers
    <3>1. /\ w \in Unposted(u, q) /\ w \notin Unposted(u, q)'
          /\ w \notin Failed(u, q)
      BY <1>3, <1>4, <2>5 DEF Unposted, Failed
    <3>2. Room(u, q) <= Room(u, q)'
      BY <1>3, <2>1, <2>2, <2>5, <3>1, BoundsAssumption
    <3>3. \A v \in Retriers : At(v, u, q)' = At(v, u, q)
      BY <1>4, <2>5, WorkersAssumption DEF Workers
    <3>4. Paid(u, q)'
      BY <1>2, <2>2, <2>3, <3>2, <3>3, PaidKept
    <3> QED
      BY <2>1, <2>2, <3>4
  <2>6. CASE u = s /\ q = p /\ w \in Retriers
    <3>1. w \notin Dispatchers
      BY <2>6, WorkersAssumption
    <3>2. /\ w \notin Unposted(u, q) /\ w \notin Unposted(u, q)'
          /\ w \notin Failed(u, q) /\ w \notin Failed(u, q)'
      BY <3>1 DEF Unposted, Failed
    <3>3. Room(u, q)' = Room(u, q) - 1
      BY <1>3, <2>1, <2>2, <2>6, <3>2
    <3>4. MaxAttempts - t.row.attempts <= Room(u, q)
      BY <1>3, <1>4, <2>3, <2>6 DEF Paid
    <3>5. Room(u, q)' >= 0
      BY <1>3, <2>2, <3>3, <3>4, BoundsAssumption
    <3>6. MaxAttempts - done.row.attempts <= Room(u, q)'
      BY <1>3, <2>2, <3>3, <3>4, BoundsAssumption
    <3>7. \A v \in Retriers : \A x \in At(v, u, q)' : x = done
      BY <1>4, <2>6 DEF OnePoller
    <3>8. Ahead(u, q)' /\ ~Ahead(u, q)
      BY <1>3, <1>4, <2>6 DEF OnePoller, Ahead
    <3>9. deliveries'[u][q].status = "failed" =>
            MaxAttempts - deliveries'[u][q].attempts <= Room(u, q)' + 1
      <4>1. deliveries[u][q].attempts \in Nat
        BY DEF HonestInv, TypeOK, Row
      <4> QED
        BY <1>2, <2>2, <2>3, <3>3, <3>8, <4>1, BoundsAssumption DEF Paid
    <3>10. Paid(u, q)'
      BY <3>5, <3>6, <3>7, <3>8, <3>9 DEF Paid
    <3> QED
      BY <2>1, <2>2, <3>10
  <2> QED
    BY <2>4, <2>5, <2>6 DEF Workers
<1>6. \A q \in Payments : IsFiniteSet(Ran(q)')
  BY <1>2, NothingRun DEF PaidInv
<1> QED
  BY <1>5, <1>6 DEF PaidInv, Finite

\* A saved failure leaves the row what its worker had left.
LEMMA SavePaid ==
    ASSUME HonestInv, HonestInv', OneEach, FirstTries, PaidInv, OnePoller,
           NEW w \in Workers, Save(w)
    PROVE  PaidInv'
<1>1. PICK t \in job[w] : SavedTask(w, t)
  BY SaveStep
<1> DEFINE s == t.sub
           p == PaymentOfTask(t)
<1>2. UNCHANGED <<posts, runs, cuts>>
  BY DEF Save
<1>3. /\ s \in Subscriptions /\ p \in Payments
      /\ t.posted /\ t.row.attempts \in Nat
      /\ deliveries'[s][p].status = t.row.status
      /\ deliveries'[s][p].attempts = t.row.attempts
      /\ \A v \in Workers : v # w => job'[v] = job[v]
  BY <1>1 DEF SavedTask
<1>4. /\ At(w, s, p) = {t} /\ At(w, s, p)' = {}
      /\ \A v \in Workers, u \in Subscriptions, q \in Payments :
           v # w \/ u # s \/ q # p => At(v, u, q)' = At(v, u, q)
  BY <1>1, SavedAt
<1>5. ASSUME NEW u \in Subscriptions, NEW q \in Payments
      PROVE  /\ IsFiniteSet(Ran(q)')
             /\ IsFiniteSet(Unposted(u, q)') /\ IsFiniteSet(Failed(u, q)')
             /\ Paid(u, q)'
  <2>1. IsFiniteSet(Ran(q)') /\ Added(u, q) = 0
    <3>1. posts[u][q] \in Nat /\ cuts \in Nat
      BY BoundsAssumption DEF HonestInv, TypeOK
    <3> QED
      BY <1>2, <3>1, NothingRun DEF PaidInv
  <2>2. /\ IsFiniteSet(Unposted(u, q)') /\ IsFiniteSet(Failed(u, q)')
        /\ Room(u, q) \in Int /\ Room(u, q)' \in Int
        /\ Room(u, q)' = Room(u, q) + Added(u, q)
             + (IF w \in Unposted(u, q) THEN MaxAttempts ELSE 0)
             - (IF w \in Unposted(u, q)' THEN MaxAttempts ELSE 0)
             + (IF w \in Failed(u, q) THEN MaxAttempts - 1 ELSE 0)
             - (IF w \in Failed(u, q)' THEN MaxAttempts - 1 ELSE 0)
    BY <1>3, <2>1, RoomMoves DEF PaidInv, Workers
  <2>3. Paid(u, q)
    BY DEF PaidInv
  <2>4. CASE u # s \/ q # p
    <3>1. \A v \in Workers : At(v, u, q)' = At(v, u, q)
      BY <1>4, <2>4
    <3>2. /\ w \in Unposted(u, q)' <=> w \in Unposted(u, q)
          /\ w \in Failed(u, q)' <=> w \in Failed(u, q)
      BY <3>1 DEF Unposted, Failed
    <3>3. deliveries'[u][q] = deliveries[u][q]
      BY <1>1, <2>4 DEF SavedTask
    <3>4. Room(u, q)' = Room(u, q)
      BY <2>1, <2>2, <3>2, BoundsAssumption
    <3>5. Paid(u, q)'
      BY <2>2, <2>3, <3>1, <3>3, <3>4, PaidKept DEF Workers
    <3> QED
      BY <2>1, <2>2, <3>5
  <2>5. CASE u = s /\ q = p /\ w \in Dispatchers
    <3>1. /\ w \notin Unposted(u, q) /\ w \notin Unposted(u, q)'
          /\ w \notin Failed(u, q)'
          /\ t.row.status = "failed" => w \in Failed(u, q)
      BY <1>3, <1>4, <2>5 DEF Unposted, Failed
    <3>2. /\ Room(u, q) <= Room(u, q)' /\ Room(u, q) >= 0
          /\ t.row.status = "failed" =>
               Room(u, q)' = Room(u, q) + MaxAttempts - 1
      BY <2>1, <2>2, <2>3, <3>1, BoundsAssumption DEF Paid
    <3>3. \A v \in Retriers : At(v, u, q)' = At(v, u, q)
      BY <1>4, <2>5, WorkersAssumption DEF Workers
    <3>4. t.row.attempts = 1
      BY <1>3, <2>5 DEF FirstTries
    <3>5. deliveries'[u][q].status = "failed" =>
            MaxAttempts - deliveries'[u][q].attempts <= Room(u, q)'
      BY <1>3, <2>2, <2>5, <3>2, <3>4, BoundsAssumption
    <3>6. \A v \in Retriers : \A x \in At(v, u, q)' :
            ~x.posted \/ x.row.status = "failed" =>
                MaxAttempts - x.row.attempts <= Room(u, q)'
      <4>1. \A v \in Retriers : \A x \in At(v, u, q) : x.row.attempts \in Nat
        BY TaskTypes DEF At, Workers, Row
      <4> QED
        BY <2>2, <2>3, <3>2, <3>3, <4>1, BoundsAssumption DEF Paid
    <3>7. Paid(u, q)'
      <4>1. deliveries'[u][q].attempts \in Nat
        BY <1>3, <2>5
      <4>2. Room(u, q)' >= 0
        BY <2>2, <3>2
      <4> QED
        BY <2>2, <3>5, <3>6, <4>1, <4>2, BoundsAssumption DEF Paid
    <3> QED
      BY <2>1, <2>2, <3>7
  <2>6. CASE u = s /\ q = p /\ w \in Retriers
    <3>1. w \notin Dispatchers
      BY <2>6, WorkersAssumption
    <3>2. /\ w \notin Unposted(u, q) /\ w \notin Unposted(u, q)'
          /\ w \notin Failed(u, q) /\ w \notin Failed(u, q)'
      BY <3>1 DEF Unposted, Failed
    <3>3. Room(u, q)' = Room(u, q) /\ Room(u, q)' >= 0
      BY <2>1, <2>2, <2>3, <3>2 DEF Paid
    <3>4. t.row.status = "failed" =>
            MaxAttempts - t.row.attempts <= Room(u, q)'
      BY <1>4, <2>3, <2>6, <3>3 DEF Paid
    <3>5. \A v \in Retriers : At(v, u, q)' = {}
      BY <1>4, <2>6 DEF OnePoller
    <3>6. ~Ahead(u, q)'
      BY <3>5 DEF Ahead
    <3>7. deliveries'[u][q].status = "failed" =>
            MaxAttempts - deliveries'[u][q].attempts <= Room(u, q)' + 0
      BY <1>3, <2>2, <2>6, <3>4, BoundsAssumption
    <3>8. Paid(u, q)'
      BY <3>3, <3>5, <3>6, <3>7 DEF Paid
    <3> QED
      BY <2>1, <2>2, <3>8
  <2> QED
    BY <2>4, <2>5, <2>6 DEF Workers
<1>6. \A q \in Payments : IsFiniteSet(Ran(q)')
  BY <1>2, NothingRun DEF PaidInv
<1> QED
  BY <1>5, <1>6 DEF PaidInv, Finite

\* A crash costs what it drops: at most the POST that was not saved.
LEMMA CutPaid ==
    ASSUME HonestInv, HonestInv', PaidInv, OnePoller,
           NEW w \in Workers, Cut(w)
    PROVE  PaidInv'
<1>1. /\ job' = [job EXCEPT ![w] = {}] /\ cuts' = cuts + 1
      /\ UNCHANGED <<deliveries, posts, runs>>
  BY DEF Cut
<1>2. job'[w] = {} /\ \A v \in Workers : v # w => job'[v] = job[v]
  BY <1>1 DEF HonestInv, TypeOK
<1>3. ASSUME NEW s \in Subscriptions, NEW p \in Payments
      PROVE  /\ IsFiniteSet(Ran(p)')
             /\ IsFiniteSet(Unposted(s, p)') /\ IsFiniteSet(Failed(s, p)')
             /\ Paid(s, p)'
  <2>1. IsFiniteSet(Ran(p)') /\ Added(s, p) = 1
    <3>1. posts[s][p] \in Nat /\ cuts \in Nat
      BY BoundsAssumption DEF HonestInv, TypeOK
    <3> QED
      BY <1>1, <3>1, NothingRun DEF PaidInv
  <2>2. /\ At(w, s, p)' = {}
        /\ \A v \in Workers : v # w => At(v, s, p)' = At(v, s, p)
    BY <1>2 DEF At, PaymentOfTask
  <2>3. w \notin Unposted(s, p)' /\ w \notin Failed(s, p)'
    BY <2>2 DEF Unposted, Failed
  <2>4. /\ IsFiniteSet(Unposted(s, p)') /\ IsFiniteSet(Failed(s, p)')
        /\ Room(s, p) \in Int /\ Room(s, p)' \in Int
        /\ Room(s, p)' = Room(s, p) + Added(s, p)
             + (IF w \in Unposted(s, p) THEN MaxAttempts ELSE 0)
             - (IF w \in Unposted(s, p)' THEN MaxAttempts ELSE 0)
             + (IF w \in Failed(s, p) THEN MaxAttempts - 1 ELSE 0)
             - (IF w \in Failed(s, p)' THEN MaxAttempts - 1 ELSE 0)
    BY <1>2, <2>1, RoomMoves DEF PaidInv, Workers
  <2>5. Room(s, p) + 1 <= Room(s, p)'
    BY <2>1, <2>3, <2>4, BoundsAssumption
  <2>6. Paid(s, p)
    BY DEF PaidInv
  <2>7. Room(s, p)' >= 0
    BY <2>4, <2>5, <2>6 DEF Paid
  <2>8. ASSUME NEW v \in Retriers, NEW x \in At(v, s, p)',
               ~x.posted \/ x.row.status = "failed"
        PROVE  MaxAttempts - x.row.attempts <= Room(s, p)'
    <3>1. x \in At(v, s, p) /\ v \in Workers
      BY <2>2, <2>8 DEF Workers
    <3>2. x.row.attempts \in Nat
      BY <3>1, TaskTypes DEF At, Row
    <3> QED
      BY <2>4, <2>5, <2>6, <2>8, <3>1, <3>2, BoundsAssumption DEF Paid
  <2>9. deliveries'[s][p].status = "failed" =>
          MaxAttempts - deliveries'[s][p].attempts <= Room(s, p)'
    <3>1. deliveries[s][p].attempts \in Nat
      BY DEF HonestInv, TypeOK, Row
    <3> QED
      BY <1>1, <2>4, <2>5, <2>6, <3>1, BoundsAssumption DEF Paid
  <2>10. Paid(s, p)'
    <3>1. deliveries'[s][p].attempts \in Nat
      BY DEF HonestInv, TypeOK, Row
    <3> QED
      BY <2>4, <2>7, <2>8, <2>9, <3>1, BoundsAssumption DEF Paid
  <2> QED
    BY <2>1, <2>4, <2>10
<1>4. \A p \in Payments : IsFiniteSet(Ran(p)')
  BY <1>1, NothingRun DEF PaidInv
<1> QED
  BY <1>3, <1>4 DEF PaidInv, Finite

\* A step that changes neither tasks nor attempts.
LEMMA StillPaid ==
    ASSUME HonestInv, HonestInv', PaidInv,
           UNCHANGED <<job, runs, posts, cuts>>,
           \A s \in Subscriptions, p \in Payments :
             /\ deliveries'[s][p].status = deliveries[s][p].status
             /\ deliveries'[s][p].attempts = deliveries[s][p].attempts
    PROVE  PaidInv'
<1>1. \A s \in Subscriptions, p \in Payments, w \in Workers :
        At(w, s, p)' = At(w, s, p)
  BY DEF At, PaymentOfTask
<1>2. \A s \in Subscriptions, p \in Payments :
        /\ Unposted(s, p)' = Unposted(s, p) /\ Failed(s, p)' = Failed(s, p)
  BY <1>1 DEF Unposted, Failed, Workers
<1>3. \A p \in Payments : Ran(p)' = Ran(p)
  BY DEF Ran
<1>4. Finite'
  BY <1>2, <1>3 DEF PaidInv, Finite
<1>5. \A s \in Subscriptions, p \in Payments : Room(s, p)' = Room(s, p)
  BY <1>2, <1>3 DEF Room
<1>6. \A s \in Subscriptions, p \in Payments :
        Ahead(s, p)' = Ahead(s, p)
  BY <1>1 DEF Ahead, Workers
<1>7. ASSUME NEW s \in Subscriptions, NEW p \in Payments
      PROVE  Paid(s, p)'
  <2>1. Paid(s, p)
    BY DEF PaidInv
  <2> QED
    BY <1>1, <1>5, <1>6, <2>1 DEF Paid, Workers
<1> QED
  BY <1>4, <1>7 DEF PaidInv

LEMMA PolicyInvInit == Init => PolicyInv
<1> SUFFICES ASSUME Init
             PROVE  PolicyInv
  OBVIOUS
<1>1. HonestInv /\ OneEach /\ FirstTries
  BY HonestInvInit DEF Init, OneEach, FirstTries, Workers
<1>2. ASSUME NEW p \in Payments
      PROVE  Ran(p) = {}
  BY DEF Init, Ran
<1>3. ASSUME NEW s \in Subscriptions, NEW p \in Payments
      PROVE  /\ Unposted(s, p) = {} /\ Failed(s, p) = {}
             /\ \A w \in Workers : At(w, s, p) = {}
  BY DEF Init, Unposted, Failed, At, Workers
<1>4. Finite
  BY <1>2, <1>3, FS_EmptySet DEF Finite
<1>5. ASSUME NEW s \in Subscriptions, NEW p \in Payments
      PROVE  Paid(s, p)
  <2>1. posts[s][p] = 0 /\ cuts = 0 /\ deliveries[s][p].status = "absent"
    BY DEF Init, NoRow
  <2>2. Room(s, p) = Balance(0, 0, 0, 0, 0)
    BY <1>2, <1>3, <2>1, FS_EmptySet, Zenon DEF Room
  <2>3. Room(s, p) = 0
    BY <2>2, BoundsAssumption DEF Balance
  <2> QED
    BY <1>3, <2>1, <2>3 DEF Paid, Workers
<1> QED
  BY <1>1, <1>4, <1>5 DEF PolicyInv

LEMMA PolicyInvNext == OnePoller /\ PolicyInv /\ [Next]_vars => PolicyInv'
<1> SUFFICES ASSUME OnePoller, PolicyInv, [Next]_vars
             PROVE  PolicyInv'
  OBVIOUS
<1>1. HonestInv /\ OneEach /\ FirstTries /\ PaidInv
  BY DEF PolicyInv, PaidInv
<1>2. HonestInv' /\ OneEach' /\ FirstTries'
  BY <1>1, HonestInvNext, OneEachNext, FirstTriesNext
<1>3. ASSUME NEW s \in Subscriptions, NEW p \in Payments, FallDue(s, p)
      PROVE  PaidInv'
  <2>1. \A u \in Subscriptions, q \in Payments :
          /\ deliveries'[u][q].status = deliveries[u][q].status
          /\ deliveries'[u][q].attempts = deliveries[u][q].attempts
    BY <1>1, <1>3 DEF FallDue, HonestInv, TypeOK, Row
  <2> QED
    BY <1>1, <1>2, <1>3, <2>1, StillPaid DEF FallDue
<1>4. ASSUME UNCHANGED <<deliveries, job, runs, posts, cuts>>
      PROVE  PaidInv'
  <2>1. \A s \in Subscriptions, p \in Payments :
          deliveries'[s][p] = deliveries[s][p]
    BY <1>4
  <2>2. UNCHANGED <<job, runs, posts, cuts>>
    BY <1>4
  <2> QED
    BY <1>1, <1>2, <2>1, <2>2, StillPaid
<1>5. ASSUME NEW d \in Dispatchers, NEW e \in Events, Dispatch(d, e)
      PROVE  PaidInv'
  BY <1>1, <1>2, <1>5, DispatchPaid
<1>6. ASSUME NEW r \in Retriers, FetchRetriable(r)
      PROVE  PaidInv'
  BY <1>1, <1>2, <1>6, FetchPaid
<1>7. ASSUME NEW w \in Workers, Post(w) \/ Save(w) \/ Cut(w)
      PROVE  PaidInv'
  BY <1>1, <1>2, <1>7, PostPaid, SavePaid, CutPaid
<1>8. PaidInv'
  BY <1>3, <1>4, <1>5, <1>6, <1>7 DEF Next, Subscribe, vars
<1> QED
  BY <1>2, <1>8 DEF PolicyInv, PaidInv

\* PostsWithinPolicy: however dispatchers and the poller save over each other's
\* count of attempts, a merchant gets no more POSTs of a payment than the
\* dispatches of its events and the outcomes lost account for.  A second poller
\* would send what the first has not saved yet.
THEOREM PolicyKept ==
    ASSUME OnePoller
    PROVE  Spec => []PostsWithinPolicy
<1>1. PolicyInv => PostsWithinPolicy
  <2> SUFFICES ASSUME PolicyInv, NEW s \in Subscriptions, NEW p \in Payments
               PROVE  posts[s][p] <= cuts + MaxAttempts * RunsOf(p)
    BY DEF PostsWithinPolicy
  <2> DEFINE R == Cardinality(Ran(p))
             U == Cardinality(Unposted(s, p))
             F == Cardinality(Failed(s, p))
  <2>1. R \in Nat /\ U \in Nat /\ F \in Nat
    BY FS_CardinalityType DEF PolicyInv, Finite
  <2>2. posts[s][p] \in Nat /\ cuts \in Nat
    BY BoundsAssumption DEF PolicyInv, HonestInv, TypeOK
  <2>3. Balance(cuts, R, posts[s][p], U, F) >= 0
    BY DEF PolicyInv, Paid, Room
  <2>4. RunsOf(p) = R
    BY DEF RunsOf, Ran
  <2> HIDE DEF R, U, F
  <2> DEFINE allowed == MaxAttempts * R
             kept == MaxAttempts * U
             failing == (MaxAttempts - 1) * F
  <2>5. allowed \in Nat /\ kept \in Nat /\ failing \in Nat
    <3>1. MaxAttempts \in Nat /\ MaxAttempts - 1 \in Nat
      BY BoundsAssumption
    <3> QED
      BY <2>1, <3>1
  <2>6. cuts + allowed - posts[s][p] - kept - failing >= 0
    BY <2>3 DEF Balance
  <2>7. MaxAttempts * RunsOf(p) = allowed
    BY <2>4
  <2> HIDE DEF allowed, kept, failing
  <2>8. posts[s][p] <= cuts + allowed
    BY <2>2, <2>5, <2>6
  <2> QED
    BY <2>7, <2>8
<1> QED
  BY <1>1, PolicyInvInit, PolicyInvNext, PTL DEF Spec

-----------------------------------------------------------------------------
(***************************************************************************)
(* A delivery that failed waits.                                           *)
(***************************************************************************)

\* A poller is about to send the delivery, and no other can be: its batch has
\* been read, or the row is due and the poller holds no outcome that would make
\* it wait again.
MayRetry(r, s, p) ==
    \/ \E t \in At(r, s, p) : ~t.posted
    \/ deliveries[s][p].due /\ ~\E t \in At(r, s, p) : t.posted

\* An outcome that is to be saved is not due, and a POST to come has been
\* waited for, or is paid for by an outcome that was lost.
WaitInv ==
    /\ HonestInv /\ OneEach
    /\ \A w \in Workers : \A t \in job[w] : t.posted => ~t.row.due
    /\ \A s \in Subscriptions, p \in Payments :
         /\ retries[s][p] <= waits[s][p] + cuts
         /\ \A r \in Retriers :
              MayRetry(r, s, p) => retries[s][p] + 1 <= waits[s][p] + cuts

LEMMA WaitInvInit == Init => WaitInv
<1> SUFFICES ASSUME Init
             PROVE  WaitInv
  OBVIOUS
<1>1. HonestInv
  BY HonestInvInit
<1>2. \A w \in Workers : job[w] = {}
  BY DEF Init
<1>3. \A s \in Subscriptions, p \in Payments :
        /\ retries[s][p] = 0 /\ waits[s][p] = 0 /\ cuts = 0
        /\ ~deliveries[s][p].due
  BY DEF Init, NoRow
<1>4. \A s \in Subscriptions, p \in Payments :
        \A r \in Retriers : ~MayRetry(r, s, p)
  BY <1>2, <1>3 DEF MayRetry, At, Workers
<1> QED
  BY <1>1, <1>2, <1>3, <1>4 DEF WaitInv, OneEach

LEMMA SumsGrow ==
    ASSUME NEW sent \in Nat, NEW old \in Nat, NEW new \in Nat,
           NEW cut \in Nat, NEW more \in Nat,
           sent <= old + cut, old <= new, cut <= more
    PROVE  /\ sent <= new + more
           /\ sent + 1 <= old + cut \/ old + cut + 1 <= new + more =>
                sent + 1 <= new + more
OBVIOUS

\* A step that sends nothing lets a poller send a delivery only if it waits or
\* is cut off.
LEMMA NothingRetried ==
    ASSUME WaitInv, HonestInv', OneEach',
           \A w \in Workers : \A t \in job'[w] :
               t.posted => t \in job[w] \/ ~t.row.due,
           retries' = retries, cuts' \in Nat, cuts <= cuts',
           \A s \in Subscriptions, p \in Payments :
               /\ waits[s][p] <= waits'[s][p]
               /\ \A r \in Retriers :
                    MayRetry(r, s, p)' =>
                        \/ MayRetry(r, s, p)
                        \/ waits[s][p] + cuts + 1 <= waits'[s][p] + cuts'
    PROVE  WaitInv'
<1>1. \A w \in Workers : \A t \in job'[w] : t.posted => ~t.row.due
  BY DEF WaitInv
<1>2. ASSUME NEW s \in Subscriptions, NEW p \in Payments
      PROVE  /\ retries'[s][p] <= waits'[s][p] + cuts'
             /\ \A r \in Retriers :
                  MayRetry(r, s, p)' =>
                      retries'[s][p] + 1 <= waits'[s][p] + cuts'
  <2> DEFINE sent == retries[s][p]
             old == waits[s][p]
             new == waits'[s][p]
  <2>1. sent \in Nat /\ old \in Nat /\ new \in Nat /\ cuts \in Nat
    <3>1. TypeOK /\ TypeOK'
      BY DEF WaitInv, HonestInv
    <3> QED
      BY <3>1, BoundsAssumption DEF TypeOK
  <2>2. /\ sent <= old + cuts /\ old <= new
        /\ \A r \in Retriers : MayRetry(r, s, p) => sent + 1 <= old + cuts
    BY DEF WaitInv
  <2>3. ASSUME NEW r \in Retriers, MayRetry(r, s, p)'
        PROVE  \/ sent + 1 <= old + cuts
               \/ old + cuts + 1 <= new + cuts'
    BY <2>2, <2>3
  <2>4. retries'[s][p] = sent
    OBVIOUS
  <2> HIDE DEF sent, old, new
  <2>5. /\ sent <= new + cuts'
        /\ sent + 1 <= old + cuts \/ old + cuts + 1 <= new + cuts' =>
             sent + 1 <= new + cuts'
    BY <2>1, <2>2, SumsGrow, Zenon
  <2> QED
    BY <2>3, <2>4, <2>5, Zenon DEF new
<1> QED
  BY <1>1, <1>2 DEF WaitInv

\* The one poller sends t: t was the only task of its id, and is now an outcome.
LEMMA PollerPosts ==
    ASSUME OnePoller, WaitInv, HonestInv', OneEach',
           NEW w \in Retriers, Post(w)
    PROVE  WaitInv'
<1>1. PICK t \in job[w], done \in Task, success \in BOOLEAN :
        PostedTask(w, t, done, success)
  BY PostStep DEF WaitInv, Workers
<1>2. UNCHANGED <<deliveries, waits, cuts>>
  BY DEF Post
<1> DEFINE s == t.sub
           p == PaymentOfTask(t)
<1>3. /\ s \in Subscriptions /\ p \in Payments /\ ~t.posted
      /\ done.sub = s /\ PaymentOfTask(done) = p
      /\ done.posted /\ ~done.row.due
      /\ retries'[s][p] = retries[s][p] + 1
      /\ \A u \in Subscriptions, q \in Payments :
           u # s \/ q # p => retries'[u][q] = retries[u][q]
      /\ job'[w] = (job[w] \ {t}) \union {done}
      /\ \A v \in Workers : v # w => job'[v] = job[v]
  BY <1>1 DEF PostedTask
<1>4. \A v \in Workers : \A x \in job'[v] : x.posted => ~x.row.due
  BY <1>3 DEF WaitInv
<1>5. MayRetry(w, s, p)
  BY <1>3 DEF MayRetry, At
<1>6. ~MayRetry(w, s, p)'
  <2>1. done \in At(w, s, p)'
    BY <1>3 DEF At, PaymentOfTask
  <2>2. ASSUME NEW x \in At(w, s, p)', ~x.posted
        PROVE  FALSE
    <3>1. x \in job[w] /\ x # t /\ x.sub = s /\ PaymentOfTask(x) = p
      BY <1>3, <2>2 DEF At, PaymentOfTask
    <3> QED
      BY <3>1 DEF WaitInv, OneEach, Workers
  <2> QED
    BY <1>3, <2>1, <2>2 DEF MayRetry
<1>7. ASSUME NEW u \in Subscriptions, NEW q \in Payments, u # s \/ q # p
      PROVE  MayRetry(w, u, q)' => MayRetry(w, u, q)
  <2>1. At(w, u, q)' = At(w, u, q)
    BY <1>3, <1>7 DEF At, PaymentOfTask
  <2> QED
    BY <1>2, <2>1 DEF MayRetry
<1>8. ASSUME NEW u \in Subscriptions, NEW q \in Payments
      PROVE  /\ retries'[u][q] <= waits'[u][q] + cuts'
             /\ \A r \in Retriers :
                  MayRetry(r, u, q)' =>
                      retries'[u][q] + 1 <= waits'[u][q] + cuts'
  <2>1. /\ retries[u][q] <= waits[u][q] + cuts
        /\ MayRetry(w, u, q) => retries[u][q] + 1 <= waits[u][q] + cuts
    BY DEF WaitInv
  <2>2. \A r \in Retriers : r = w
    BY DEF OnePoller
  <2>3. CASE u = s /\ q = p
    BY <1>2, <1>3, <1>5, <1>6, <2>1, <2>2, <2>3
  <2>4. CASE u # s \/ q # p
    BY <1>2, <1>3, <1>7, <2>1, <2>2, <2>4
  <2> QED
    BY <2>3, <2>4
<1> QED
  BY <1>4, <1>8 DEF WaitInv

LEMMA WaitInvNext ==
    ASSUME OnePoller
    PROVE  WaitInv /\ [Next]_vars => WaitInv'
<1> SUFFICES ASSUME WaitInv, [Next]_vars
             PROVE  WaitInv'
  OBVIOUS
<1>1. /\ HonestInv /\ HonestInv' /\ OneEach'
      /\ job \in [Workers -> SUBSET Task] /\ cuts \in Nat
      /\ \A s \in Subscriptions, p \in Payments : waits[s][p] \in Nat
  <2>1. HonestInv /\ HonestInv' /\ OneEach'
    BY HonestInvNext, OneEachNext DEF WaitInv
  <2> QED
    BY <2>1, BoundsAssumption DEF HonestInv, TypeOK
<1>2. ASSUME NEW w \in Workers, Post(w)
      PROVE  WaitInv'
  <2>1. CASE w \in Retriers
    BY <1>1, <1>2, <2>1, PollerPosts
  <2>2. CASE w \notin Retriers
    <3>1. PICK t \in job[w], done \in Task, success \in BOOLEAN :
            PostedTask(w, t, done, success)
      BY <1>1, <1>2, PostStep
    <3>2. /\ \A v \in Workers : \A x \in job'[v] :
               x \in job[v] \/ x = done
          /\ ~done.row.due
          /\ \A r \in Retriers : job'[r] = job[r]
      BY <2>2, <3>1 DEF PostedTask, Workers
    <3>3. retries' = retries /\ UNCHANGED <<deliveries, waits, cuts>>
      BY <1>2, <2>2 DEF Post
    <3>4. \A s \in Subscriptions, p \in Payments : \A r \in Retriers :
            MayRetry(r, s, p)' => MayRetry(r, s, p)
      BY <3>2, <3>3 DEF MayRetry, At, PaymentOfTask
    <3> QED
      BY <1>1, <3>2, <3>3, <3>4, NothingRetried
  <2> QED
    BY <2>1, <2>2
<1>3. ASSUME NEW w \in Workers, Save(w)
      PROVE  WaitInv'
  <2>1. PICK t \in job[w] : SavedTask(w, t)
    BY <1>1, <1>3, SaveStep
  <2>2. ~t.row.due
    BY <2>1 DEF WaitInv, SavedTask
  <2>3. UNCHANGED <<retries, waits, cuts>>
    BY <1>3 DEF Save
  <2>4. \A v \in Workers : job'[v] \subseteq job[v]
    BY <2>1 DEF SavedTask
  <2>5. ASSUME NEW u \in Subscriptions, NEW q \in Payments, NEW r \in Retriers,
               MayRetry(r, u, q)'
        PROVE  MayRetry(r, u, q)
    <3>1. CASE u = t.sub /\ q = PaymentOfTask(t)
      <4>1. ~deliveries'[u][q].due
        BY <2>1, <2>2, <3>1 DEF SavedTask
      <4> QED
        BY <2>4, <2>5, <4>1 DEF MayRetry, At, PaymentOfTask, Workers
    <3>2. CASE u # t.sub \/ q # PaymentOfTask(t)
      <4>1. deliveries'[u][q] = deliveries[u][q]
        BY <2>1, <3>2 DEF SavedTask
      <4>2. At(r, u, q)' = At(r, u, q)
        BY <2>1, <3>2 DEF SavedTask, At, PaymentOfTask, Workers
      <4> QED
        BY <2>5, <4>1, <4>2 DEF MayRetry
    <3> QED
      BY <3>1, <3>2
  <2> QED
    BY <1>1, <2>3, <2>4, <2>5, NothingRetried
<1>4. ASSUME NEW d \in Dispatchers, NEW e \in Events, Dispatch(d, e)
      PROVE  WaitInv'
  <2>1. UNCHANGED <<deliveries, retries, waits, cuts>>
    BY <1>4 DEF Dispatch
  <2>2. \A w \in Workers : \A t \in job'[w] : t \in job[w] \/ ~t.posted
    BY <1>1, <1>4 DEF Dispatch, NewDelivery
  <2>3. \A r \in Retriers : job'[r] = job[r]
    BY <1>1, <1>4, WorkersAssumption DEF Dispatch, Workers
  <2>4. \A s \in Subscriptions, p \in Payments : \A r \in Retriers :
          MayRetry(r, s, p)' => MayRetry(r, s, p)
    BY <2>1, <2>3 DEF MayRetry, At, PaymentOfTask
  <2> QED
    BY <1>1, <2>1, <2>2, <2>4, NothingRetried
<1>5. ASSUME NEW r \in Retriers, FetchRetriable(r)
      PROVE  WaitInv'
  <2>1. PICK batch \in SUBSET Retriable : job' = [job EXCEPT ![r] = batch]
    BY <1>5 DEF FetchRetriable
  <2>2. job[r] = {} /\ UNCHANGED <<deliveries, retries, waits, cuts>>
    BY <1>5 DEF FetchRetriable
  <2>3. ASSUME NEW t \in Retriable
        PROVE  ~t.posted /\ deliveries[t.sub][PaymentOfTask(t)].due
    <3>1. PICK s \in active, p \in Payments :
            /\ t = [sub |-> s, row |-> deliveries[s][p], posted |-> FALSE]
            /\ deliveries[s][p].status = "failed" /\ deliveries[s][p].due
      BY DEF Retriable
    <3>2. s \in Subscriptions
      BY <1>1 DEF HonestInv, TypeOK
    <3>3. Owned(deliveries[s][p], p)
      BY <1>1, <3>2 DEF HonestInv
    <3> QED
      BY <3>1, <3>3 DEF Owned, PaymentOfTask
  <2>4. /\ job'[r] = batch
        /\ \A w \in Workers : w # r => job'[w] = job[w]
    BY <1>1, <2>1 DEF Workers
  <2>5. \A w \in Workers : \A t \in job'[w] : t \in job[w] \/ ~t.posted
    BY <2>3, <2>4
  <2>6. ASSUME NEW s \in Subscriptions, NEW p \in Payments,
               NEW v \in Retriers, MayRetry(v, s, p)'
        PROVE  MayRetry(v, s, p)
    <3>1. CASE v = r
      <4>1. deliveries[s][p].due
        BY <2>2, <2>3, <2>4, <2>6, <3>1 DEF MayRetry, At, PaymentOfTask
      <4> QED
        BY <2>2, <3>1, <4>1 DEF MayRetry, At
    <3>2. CASE v # r
      BY <2>2, <2>4, <2>6, <3>2 DEF MayRetry, At, PaymentOfTask, Workers
    <3> QED
      BY <3>1, <3>2
  <2> QED
    BY <1>1, <2>2, <2>5, <2>6, NothingRetried
<1>6. ASSUME NEW w \in Workers, Cut(w)
      PROVE  WaitInv'
  <2>1. cuts' = cuts + 1 /\ UNCHANGED <<retries, waits>>
    BY <1>6 DEF Cut
  <2>2. \A v \in Workers : job'[v] \subseteq job[v]
    BY <1>1, <1>6 DEF Cut
  <2> QED
    BY <1>1, <2>1, <2>2, NothingRetried
<1>7. ASSUME NEW s \in Subscriptions, NEW p \in Payments, FallDue(s, p)
      PROVE  WaitInv'
  <2>1. /\ UNCHANGED <<job, retries, cuts>>
        /\ deliveries' = [deliveries EXCEPT ![s][p].due = TRUE]
    BY <1>7 DEF FallDue
  <2>2. /\ waits'[s][p] = waits[s][p] + 1
        /\ \A u \in Subscriptions, q \in Payments :
             u # s \/ q # p => waits'[u][q] = waits[u][q]
    BY <1>1, <1>7, WaitsStep
  <2>3. \A u \in Subscriptions, q \in Payments :
          u # s \/ q # p => deliveries'[u][q] = deliveries[u][q]
    BY <1>1, <2>1 DEF HonestInv, TypeOK
  <2>4. ASSUME NEW u \in Subscriptions, NEW q \in Payments
        PROVE  /\ waits[u][q] <= waits'[u][q]
               /\ \A r \in Retriers :
                    MayRetry(r, u, q)' =>
                        \/ MayRetry(r, u, q)
                        \/ waits[u][q] + cuts + 1 <= waits'[u][q] + cuts'
    <3>1. CASE u = s /\ q = p
      BY <1>1, <2>1, <2>2, <3>1
    <3>2. CASE u # s \/ q # p
      <4>1. waits'[u][q] = waits[u][q] /\ waits[u][q] <= waits[u][q]
        BY <1>1, <2>2, <3>2
      <4>2. \A r \in Retriers : MayRetry(r, u, q)' => MayRetry(r, u, q)
        BY <2>1, <2>3, <3>2 DEF MayRetry, At, PaymentOfTask
      <4> QED
        BY <4>1, <4>2
    <3> QED
      BY <3>1, <3>2
  <2> QED
    BY <1>1, <2>1, <2>4, NothingRetried
<1>8. CASE UNCHANGED <<job, deliveries, retries, waits, cuts>>
  <2>1. \A s \in Subscriptions, p \in Payments : \A r \in Retriers :
          MayRetry(r, s, p)' => MayRetry(r, s, p)
    BY <1>8 DEF MayRetry, At, PaymentOfTask
  <2> QED
    BY <1>1, <1>8, <2>1, NothingRetried
<1> QED
  BY <1>2, <1>3, <1>4, <1>5, <1>6, <1>7, <1>8 DEF Next, Subscribe, vars

\* RetriesWait: whichever workers save over a row, and although the poller sends
\* from a copy it read earlier, it sends a delivery again at most once for each
\* delay that has passed and each outcome that was lost.
THEOREM FailedDeliveriesWait ==
    ASSUME OnePoller
    PROVE  Spec => []RetriesWait
<1>1. WaitInv => RetriesWait
  BY DEF WaitInv, RetriesWait
<1>2. WaitInv /\ [Next]_vars => WaitInv'
  BY WaitInvNext
<1> QED
  BY <1>1, <1>2, WaitInvInit, PTL DEF Spec
=============================================================================
