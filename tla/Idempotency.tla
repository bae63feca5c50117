----------------------------- MODULE Idempotency -----------------------------
(***************************************************************************)
(* POST /api/v1/payments under the Idempotency-Key header: the service of  *)
(* internal/application/idempotency over its two Redis keys, a lock and a  *)
(* cached response, with one process per HTTP request.                     *)
(*                                                                         *)
(* A request runs Find, Lock, the creation of the payment, Save and the    *)
(* deferred Unlock, each a call to another server.  Find is not repeated   *)
(* once the lock is taken, and the lock does not say who holds it.  A      *)
(* payment is named by the request that created it.                        *)
(***************************************************************************)
EXTENDS Integers

CONSTANTS
    Keys,            \* values of the Idempotency-Key header
    Bodies,          \* hashes of request bodies
    Requests,        \* HTTP requests, a client's retries among them
    None,            \* no response cached, no payment answered
    SlowHandlers,    \* TRUE: a handler may outlast the TTL of its lock
    DataExpires,     \* TRUE: the TTL of a cached response may pass
    Faults           \* TRUE: Redis and database calls fail, handlers die

ASSUME ModesAssumption ==
    {SlowHandlers, DataExpires, Faults} \subseteq BOOLEAN

VARIABLES
    lock,       \* lock[k]: the key idempotency:lock:k exists
    data,       \* data[k]: the response under idempotency:data:k
    created,    \* requests whose payment is in the payments table
    call,       \* call[r]: the key and the body hash r carries
    pc,         \* pc[r]: the call r makes next
    answer,     \* answer[r]: what r answers, its result once pc[r] = "done"
    known,      \* known[r]: a 201 under r's key had been answered before r
    overrun,    \* keys whose lock expired while a handler relied on it
    expired     \* keys whose response has expired

ttls == <<overrun, expired>>
vars == <<lock, data, created, call, pc, answer, known, ttls>>

Cached == [body : Bodies, payment : Requests]

ASSUME NoneAssumption == None \notin Cached

\* 201 with a payment, a replay included; 409 in two forms; any other error.
Answers ==
    [status : {"created"}, payment : Requests]
        \union [status : {"none", "conflict", "processing", "error"},
                payment : {None}]

Refusal(status) == [status |-> status, payment |-> None]

Steps == {"waiting", "find", "lock", "refind", "execute", "save", "unlock",
          "done"}

TypeOK ==
    /\ lock \in [Keys -> BOOLEAN]
    /\ data \in [Keys -> Cached \union {None}]
    /\ created \in SUBSET Requests
    /\ call \in [Requests -> [key : Keys, body : Bodies]]
    /\ pc \in [Requests -> Steps]
    /\ answer \in [Requests -> Answers]
    /\ known \in [Requests -> BOOLEAN]
    /\ overrun \in SUBSET Keys
    /\ expired \in SUBSET Keys

Init ==
    /\ lock = [k \in Keys |-> FALSE]
    /\ data = [k \in Keys |-> None]
    /\ created = {}
    /\ call \in [Requests -> [key : Keys, body : Bodies]]
    /\ pc = [r \in Requests |-> "waiting"]
    /\ answer = [r \in Requests |-> Refusal("none")]
    /\ known = [r \in Requests |-> FALSE]
    /\ overrun = {}
    /\ expired = {}

Key(r) == call[r].key

Goto(r, step) == pc' = [pc EXCEPT ![r] = step]

\* The result of Execute is fixed; step says what is still to be run.
Answer(r, result, step) ==
    /\ answer' = [answer EXCEPT ![r] = result]
    /\ Goto(r, step)

Answered(r) == pc[r] = "done" /\ answer[r].status = "created"

\* The requests that run between Lock and Unlock.
InSection(r) == pc[r] \in {"execute", "save", "unlock"}

-----------------------------------------------------------------------------

\* The request reaches the service, its key checked by middleware.Idempotency.
Arrive(r) ==
    /\ pc[r] = "waiting"
    /\ known' = [known EXCEPT ![r] =
                   \E q \in Requests : Key(q) = Key(r) /\ Answered(q)]
    /\ Goto(r, "find")
    /\ UNCHANGED <<lock, data, created, call, answer, ttls>>

\* Mutant of Match: the conflict shows the payment.
MatchLeaking(r, cached) ==
    [status |-> IF cached.body = call[r].body THEN "created" ELSE "conflict",
     payment |-> cached.payment]

\* Mutant of Match: the body is not compared.
MatchAnyBody(r, cached) == [status |-> "created", payment |-> cached.payment]

\* matchOrConflict, on a response that was found.
Match(r, cached) ==
    IF cached.body = call[r].body
    THEN [status |-> "created", payment |-> cached.payment]
    ELSE Refusal("conflict")

\* The first Find.
Find(r) ==
    /\ pc[r] = "find"
    /\ \/ /\ data[Key(r)] # None
          /\ Answer(r, Match(r, data[Key(r)]), "done")
       \/ /\ data[Key(r)] = None
          /\ Goto(r, "lock")
          /\ UNCHANGED answer
    /\ UNCHANGED <<lock, data, created, call, known, ttls>>

\* SETNX of the lock key.
Lock(r) ==
    /\ pc[r] = "lock"
    /\ \/ /\ ~lock[Key(r)]
          /\ lock' = [lock EXCEPT ![Key(r)] = TRUE]
          /\ Goto(r, "execute")
       \/ /\ lock[Key(r)]
          /\ Goto(r, "refind")
          /\ UNCHANGED lock
    /\ UNCHANGED <<data, created, call, answer, known, ttls>>

\* Mutant of Refind: the deferred Unlock runs without the lock.
RefindUnlocking(r) ==
    /\ pc[r] = "refind"
    /\ Answer(r, IF data[Key(r)] # None THEN Match(r, data[Key(r)])
                 ELSE Refusal("processing"), "done")
    /\ lock' = [lock EXCEPT ![Key(r)] = FALSE]
    /\ UNCHANGED <<data, created, call, known, ttls>>

\* The Find of a request that did not get the lock.
Refind(r) ==
    /\ pc[r] = "refind"
    /\ Answer(r, IF data[Key(r)] # None THEN Match(r, data[Key(r)])
                 ELSE Refusal("processing"), "done")
    /\ UNCHANGED <<lock, data, created, call, known, ttls>>

\* fn: CreatePayment.Execute commits.
Create(r) ==
    /\ pc[r] = "execute"
    /\ created' = created \union {r}
    /\ Goto(r, "save")
    /\ UNCHANGED <<lock, data, call, answer, known, ttls>>

\* fn returns an error: the body is not valid.  Nothing is cached.
Reject(r) ==
    /\ pc[r] = "execute"
    /\ Answer(r, Refusal("error"), "unlock")
    /\ UNCHANGED <<lock, data, created, call, known, ttls>>

\* Mutant of Save: an error of Redis is ignored.
SaveIgnoringErrors(r) ==
    /\ pc[r] = "save"
    /\ Answer(r, [status |-> "created", payment |-> r], "unlock")
    /\ UNCHANGED <<lock, data, created, call, known, ttls>>

\* SET of the data key: the 201 is cached with the hash of this request.
Save(r) ==
    /\ pc[r] = "save"
    /\ data' = [data EXCEPT ![Key(r)] =
                  [body |-> call[r].body, payment |-> r]]
    /\ Answer(r, [status |-> "created", payment |-> r], "unlock")
    /\ UNCHANGED <<lock, created, call, known, ttls>>

\* The deferred DEL of the lock key, whoever holds the lock by now.
Unlock(r) ==
    /\ pc[r] = "unlock"
    /\ lock' = [lock EXCEPT ![Key(r)] = FALSE]
    /\ Goto(r, "done")
    /\ UNCHANGED <<data, created, call, answer, known, ttls>>

-----------------------------------------------------------------------------

\* A call to Redis or to the database returns an error, the request's context
\* being cancelled for one.  After Lock the deferred Unlock still runs.
Fail(r) ==
    /\ Faults
    /\ \/ /\ pc[r] \in {"find", "lock", "refind"}
          /\ Answer(r, Refusal("error"), "done")
       \/ /\ pc[r] \in {"execute", "save"}
          /\ Answer(r, Refusal("error"), "unlock")
       \/ /\ pc[r] = "unlock"
          /\ Goto(r, "done")
          /\ UNCHANGED answer
    /\ UNCHANGED <<lock, data, created, call, known, ttls>>

\* The process dies, and nothing is answered.
Crash(r) ==
    /\ Faults
    /\ pc[r] \notin {"waiting", "done"}
    /\ Answer(r, Refusal("error"), "done")
    /\ UNCHANGED <<lock, data, created, call, known, ttls>>

\* The TTL of the lock passes, before its handler ends or after it died.
ExpireLock(k) ==
    LET reliedOn == \E r \in Requests : InSection(r) /\ Key(r) = k IN
    /\ lock[k]
    /\ reliedOn => SlowHandlers
    /\ lock' = [lock EXCEPT ![k] = FALSE]
    /\ overrun' = IF reliedOn THEN overrun \union {k} ELSE overrun
    /\ UNCHANGED <<data, created, call, pc, answer, known, expired>>

\* The TTL of the cached response passes.
ExpireData(k) ==
    /\ DataExpires
    /\ data[k] # None
    /\ data' = [data EXCEPT ![k] = None]
    /\ expired' = expired \union {k}
    /\ UNCHANGED <<lock, created, call, pc, answer, known, overrun>>

\* The steps of a request once it has arrived.
Serve(r) ==
    \/ Find(r)
    \/ Lock(r)
    \/ Refind(r)
    \/ Create(r)
    \/ Reject(r)
    \/ Save(r)
    \/ Unlock(r)

Next ==
    \/ \E r \in Requests : Arrive(r)
    \/ \E r \in Requests : Serve(r)
    \/ \E r \in Requests : Fail(r)
    \/ \E r \in Requests : Crash(r)
    \/ \E k \in Keys : ExpireLock(k)
    \/ \E k \in Keys : ExpireData(k)

Spec == Init /\ [][Next]_vars

-----------------------------------------------------------------------------
(***************************************************************************)
(* Properties.                                                             *)
(***************************************************************************)

\* Two requests never create payments under one key at the same time, unless
\* the lock of the key expired under a handler that was still running: until
\* then Unlock only ever removes the lock of the request that runs it.
MutualExclusion ==
    \A q, r \in Requests :
        /\ InSection(q) /\ InSection(r)
        /\ Key(q) = Key(r) /\ Key(q) \notin overrun
        => q = r

\* A 201, replayed or not, shows a payment that is in the table and that was
\* created by a request with the same key and the same body, also when locks
\* and responses expire, calls fail and requests race (matchOrConflict).
AnswersAreGenuine ==
    \A r \in Requests : answer[r].status = "created" =>
        /\ answer[r].payment \in created
        /\ call[answer[r].payment] = call[r]

\* Once a client has seen a 201, sending the key again creates nothing, until
\* the response expires, however many requests are still running under it and
\* even if they outlast their lock.
NoCreateAfterAnswer ==
    \A r \in Requests :
        known[r] /\ Key(r) \notin expired => r \notin created

\* README, Idempotencia: a repeated key never creates a second payment.
OnePaymentPerKey ==
    \A q, r \in created : Key(q) = Key(r) => q = r
=============================================================================
