------------------------------- MODULE Listing -------------------------------
(***************************************************************************)
(* GET /api/v1/payments (ListPayment, PaymentRepository.FindAll) while     *)
(* payments are created, change their status and are seeded.               *)
(*                                                                         *)
(* The answer to one page is two queries, a COUNT and a SELECT with LIMIT  *)
(* and OFFSET, each on the table as it is by then.  A client either asks   *)
(* for one page or walks from page 1 until a page is not full.             *)
(*                                                                         *)
(* The rows come in the order of one column, and nothing but id tells two  *)
(* rows with the same value apart: each query may return them in any order *)
(* of its own.  Payments join the table anywhere in the order: ids are     *)
(* random, the seeder makes up its dates, and overlapping requests commit  *)
(* against the order of theirs.                                            *)
(*                                                                         *)
(* A save changes of a row its status and its refunded amount.  Whether a  *)
(* search finds the row, and where it stands when the rows are sorted by   *)
(* status, change with it in any way and any number of times: '%n%' finds  *)
(* pending, not completed and refunded, and a stale copy may be saved over *)
(* a newer row.                                                            *)
(***************************************************************************)
EXTENDS Integers, Sequences, FiniteSetsExt

CONSTANTS
    Payments,   \* payments that may exist
    Keys,       \* values of the sort column, as numbers
    Pages,      \* page parameters a client may send; 0: any that is no int
    Requests,   \* the parameters it may send with each page it asks for
    SeedCount,  \* payments to seed (-count)
    IntBits,    \* width of int
    MaxJoined   \* bound on what joins a listing by changes

Ints == -2^(IntBits - 1) .. 2^(IntBits - 1) - 1

\* byStatus: the sort column is status, the only one whose values change.
\* limit: 0 stands for any that is no int.  walking: the client reads on.
AllRequests == [byStatus : BOOLEAN, order : {"ASC", "DESC"}, search : BOOLEAN,
                limit : Ints, walking : BOOLEAN]

\* An int is wide enough for the default limit.
ASSUME ParametersAssumption ==
    /\ IsFiniteSet(Payments) /\ Keys \subseteq Nat
    /\ SeedCount \in Nat /\ IntBits \in Nat \ {0}
    /\ Pages \subseteq Ints /\ Requests \subseteq AllRequests /\ 10 \in Ints
    /\ MaxJoined \in Nat

VARIABLES
    table,     \* payments in the table
    ever,      \* payments that were ever in it
    found,     \* payments the client's search finds
    key,       \* key[p]: the value p has in the sort column
    seed,      \* what the seeder does next
    seeds,     \* payments it has inserted
    request,   \* the parameters of the client
    page,      \* the page it is at
    phase,     \* what the API does next for it
    total,     \* the COUNT behind the last answer
    seen,      \* payments in the answers, in order
    steady,    \* payments that have matched since the walk began
    unsure,    \* payments that shared their key, or changed it, since then
    joined,    \* rows that joined the listing, or moved in it, since then
    left       \* rows that left it, or moved in it, since then

rows == <<table, ever, found, key>>
seeding == <<seed, seeds>>
client == <<request, page, phase, total, seen>>
watch == <<steady, unsure, joined, left>>
vars == <<rows, seeding, client, watch>>

TypeOK ==
    /\ table \in SUBSET ever /\ ever \in SUBSET Payments
    /\ found \in SUBSET Payments
    /\ key \in [Payments -> Nat]
    /\ seed \in {"off", "truncate", "insert", "done", "failed"}
    /\ seeds \in SUBSET ever
    /\ request \in Requests
    /\ page \in Int
    /\ phase \in {"idle", "count", "select", "done", "error"}
    /\ total \in 0 .. Cardinality(ever)
    /\ seen \in Seq(ever)
    /\ steady \in SUBSET ever /\ unsure \in SUBSET ever
    /\ joined \in Nat /\ left \in Nat

-----------------------------------------------------------------------------
(***************************************************************************)
(* The query.                                                              *)
(***************************************************************************)

\* parsePositiveInt: what is not a positive number stands for the default.
Positive(value, fallback) == IF value < 1 THEN fallback ELSE value

PageNum == Positive(page, 1)
LimitNum == Positive(request.limit, 10)

\* A product that leaves int comes back modulo 2^IntBits.
Wrap(n) == ((n + 2^(IntBits - 1)) % 2^IntBits) - 2^(IntBits - 1)

\* Mutant of Offset: pages counted from 0.
OffsetFromZero == Wrap(PageNum * LimitNum)

\* Mutant of Offset: in pages, not in rows.
OffsetInPages == Wrap(PageNum - 1)

Offset == Wrap((PageNum - 1) * LimitNum)

\* The WHERE clause.
Listed == table \intersect found

\* ORDER BY, which leaves rows with the same key where they happen to be.
Before(p, q) ==
    IF request.order = "ASC" THEN key[p] < key[q] ELSE key[p] > key[q]

\* The orders in which a query may return the rows it finds.
Sortings ==
    {f \in [1 .. Cardinality(Listed) -> Listed] :
       \A i, j \in 1 .. Cardinality(Listed) :
           i < j => f[i] # f[j] /\ ~Before(f[j], f[i])}

\* LIMIT and OFFSET.
Slice(f) == SubSeq(f, Offset + 1, Min({Offset + LimitNum, Len(f)}))

\* Mutant of TotalPages: the division is not rounded up.
TotalPagesFloor == total \div LimitNum

\* ListPayment.Execute: math.Ceil of the quotient.
TotalPages == (total + LimitNum - 1) \div LimitNum

-----------------------------------------------------------------------------
(***************************************************************************)
(* The client.                                                             *)
(***************************************************************************)

Init ==
    /\ table = {} /\ ever = {}
    /\ found = {} /\ key = [p \in Payments |-> 0]
    /\ seed = "off" /\ seeds = {}
    /\ request \in Requests
    /\ page \in IF request.walking THEN {1} ELSE Pages
    /\ phase = "idle"
    /\ total = 0
    /\ seen = << >>
    /\ steady = {} /\ unsure = {} /\ joined = 0 /\ left = 0

\* Payments of the listing that nothing but chance puts in their place.
Tied == {p \in Listed : \E q \in Listed \ {p} : key[q] = key[p]}

\* PaymentHandler.List, and FindAll up to its queries.
Ask ==
    /\ phase = "idle"
    /\ phase' = "count"
    /\ steady' = Listed
    /\ unsure' = Tied
    /\ UNCHANGED <<rows, seeding, request, page, total, seen, joined, left>>

\* Mutant of Count: the total of the page before is still there.
CountOnTop ==
    /\ phase = "count"
    /\ total' = total + Cardinality(Listed)
    /\ phase' = "select"
    /\ UNCHANGED <<rows, seeding, request, page, seen, watch>>

\* Mutant of Count: the COUNT has no WHERE clause.
CountOfAll ==
    /\ phase = "count"
    /\ total' = Cardinality(table)
    /\ phase' = "select"
    /\ UNCHANGED <<rows, seeding, request, page, seen, watch>>

Count ==
    /\ phase = "count"
    /\ total' = Cardinality(Listed)
    /\ phase' = "select"
    /\ UNCHANGED <<rows, seeding, request, page, seen, watch>>

\* The answer.  PostgreSQL refuses a negative OFFSET.
Select ==
    /\ phase = "select"
    /\ IF Offset < 0
       THEN /\ phase' = "error"
            /\ UNCHANGED <<page, seen>>
       ELSE \E f \in Sortings :
                /\ seen' = seen \o Slice(f)
                /\ IF request.walking /\ Len(Slice(f)) = LimitNum
                   THEN page' = page + 1 /\ phase' = "count"
                   ELSE phase' = "done" /\ UNCHANGED page
    /\ UNCHANGED <<rows, seeding, request, total, watch>>

-----------------------------------------------------------------------------
(***************************************************************************)
(* What happens to the table meanwhile.                                    *)
(***************************************************************************)

\* Rows that are in the listing after a step and were not, or not there.
Coming == {p \in Listed' : p \notin Listed \/ key'[p] # key[p]}

\* Rows that were in the listing and no longer are, or not there.
Going == {p \in Listed : p \notin Listed' \/ key'[p] # key[p]}

\* How a step changes what the client is listing.
Watch ==
    IF phase # "idle"
    THEN /\ steady' = steady \intersect Listed'
         /\ unsure' = unsure \union Tied' \union {p \in ever : key'[p] # key[p]}
         /\ joined' = joined + Cardinality(Coming)
         /\ left' = left + Cardinality(Going)
    ELSE UNCHANGED watch

\* The search finds a row as it is saved, or does not; "" finds them all.
Find(p) ==
    \/ found' = found \union {p}
    \/ request.search /\ found' = found \ {p}

\* A row is inserted.
Insert(p) ==
    /\ p \notin ever
    /\ table' = table \union {p}
    /\ ever' = ever \union {p}
    /\ Find(p)
    /\ \E k \in Keys : key' = [key EXCEPT ![p] = k]

\* CreatePayment.
Create(p) ==
    /\ Insert(p)
    /\ UNCHANGED <<seeding, client>>
    /\ Watch

\* A use case saves a row with another status.
Change(p) ==
    /\ p \in table
    /\ joined < MaxJoined
    /\ Find(p)
    /\ IF request.byStatus
       THEN \E k \in Keys : key' = [key EXCEPT ![p] = k]
       ELSE UNCHANGED key
    /\ UNCHANGED <<table, ever, seeding, client>>
    /\ Watch

\* cmd/seed starts, with -fresh or without.
Seed ==
    /\ seed = "off"
    /\ seed' = "truncate" \/ seed' = "insert"
    /\ UNCHANGED <<rows, seeds, client, watch>>

Truncate ==
    /\ seed = "truncate"
    /\ table' = {}
    /\ seed' = "insert"
    /\ UNCHANGED <<ever, found, key, seeds, client>>
    /\ Watch

\* The seeder saves its next payment, in a transaction of its own; the factory
\* has drawn its date and its status.
SeedOne(p) ==
    /\ seed = "insert"
    /\ Cardinality(seeds) < SeedCount
    /\ Insert(p)
    /\ seeds' = seeds \union {p}
    /\ UNCHANGED <<seed, client>>
    /\ Watch

SeedEnds ==
    /\ seed = "insert"
    /\ Cardinality(seeds) = SeedCount
    /\ seed' = "done"
    /\ UNCHANGED <<rows, seeds, client, watch>>

\* An error of TRUNCATE or of an INSERT ends it: what it has done stays done.
SeedFails ==
    /\ seed \in {"truncate", "insert"}
    /\ seed' = "failed"
    /\ UNCHANGED <<rows, seeds, client, watch>>

\* With its last answer the client is done, and so is a behaviour.
Next ==
    /\ phase \notin {"done", "error"}
    /\ \/ Ask
       \/ Count
       \/ Select
       \/ \E p \in Payments : Create(p)
       \/ \E p \in Payments : Change(p)
       \/ Seed
       \/ Truncate
       \/ \E p \in Payments : SeedOne(p)
       \/ SeedEnds
       \/ SeedFails

Spec == Init /\ [][Next]_vars

-----------------------------------------------------------------------------
(***************************************************************************)
(* Properties.                                                             *)
(***************************************************************************)

\* The client has walked to the end.
Walked == phase = "done" /\ request.walking

Shown == {seen[i] : i \in 1 .. Len(seen)}

\* However many payments are created during a walk, it misses none of those
\* that matched from its beginning to its end, except one for each row that left
\* or moved and so pulled the others to pages the client had left behind, and
\* rows that shared their place in the order with others.
MissesNeedLeavers ==
    Walked => Cardinality((steady \ unsure) \ Shown) <= left

\* A walk shows a payment again only for rows that joined or moved, each of
\* which may push one over the end of a page, or if it shared its place with
\* another; also a payment that left the listing and came back.
RepeatsNeedArrivals ==
    Walked => \A i, j \in 1 .. Len(seen) :
                  seen[i] = seen[j] /\ seen[i] \notin unsure => i - j <= joined

\* The total of an answer is counted before its rows are read, and those before
\* it were read earlier still: what a walk has shown differs from the last total
\* by no more rows than joined and left.  Ties change nothing about it.
TotalsNeedMoves ==
    Walked => total - left <= Len(seen) /\ Len(seen) <= total + joined + left

\* Nothing joined or left the listing, or moved in it, while the client was
\* reading it.
Quiet == joined = 0 /\ left = 0

\* A listing that stays as it is is shown in order, rows with the same key
\* aside.  A walk shows as many rows as there are, total_pages is the number of
\* pages there were to show, and each payment that shares its key with no other
\* is shown once; a page that is asked for by its number, the first and the last
\* included, holds those of them with its places, as long as its offset fits an
\* int.
QuietIsExact ==
    LET first == (PageNum - 1) * LimitNum
        sure == steady \ unsure IN
    phase = "done" /\ Quiet =>
        IF request.walking
        THEN /\ \A i, j \in 1 .. Len(seen) :
                  i < j => /\ ~Before(seen[j], seen[i])
                           /\ seen[i] \in sure => seen[i] # seen[j]
             /\ sure \subseteq Shown /\ Shown \subseteq steady
             /\ Len(seen) = Cardinality(steady)
             /\ TotalPages * LimitNum >= Len(seen)
             /\ (TotalPages - 1) * LimitNum < Len(seen)
        ELSE first < 2^(IntBits - 1) =>
             Shown \intersect sure =
               {p \in sure : Cardinality({q \in steady : Before(q, p)})
                               \in first .. first + LimitNum - 1}
=============================================================================
