----------------------------- MODULE ListingProofs -----------------------------
(***************************************************************************)
(* Proofs about the listing: for any payments, any values of the sort      *)
(* column and any number of rows that share one, any page and limit a      *)
(* client may send, and any width of int that holds the default limit.     *)
(*                                                                         *)
(* The argument is about places.  The place of a payment is the number of  *)
(* rows before it.  A query returns a row at its place at the earliest; a  *)
(* row that shares its key with no other it returns there exactly.  A row  *)
(* that joins, leaves or moves changes the place of each other by one.     *)
(***************************************************************************)
EXTENDS Listing, TLAPS, BasicFacts

-----------------------------------------------------------------------------
(***************************************************************************)
(* Places.                                                                 *)
(***************************************************************************)

\* How many of the rows of a set come before p, and how many after.
Place(rowset, p) == Cardinality({q \in rowset : Before(q, p)})
After(rowset, p) == Cardinality({q \in rowset : Before(p, q)})

KeyType == key \in [Payments -> Nat]

LEMMA BeforeIsAnOrder ==
    ASSUME KeyType, NEW p \in Payments, NEW q \in Payments
    PROVE  /\ ~Before(p, p)
           /\ Before(p, q) => ~Before(q, p)
           /\ key[p] # key[q] => Before(p, q) \/ Before(q, p)
           /\ \A r \in Payments : Before(p, q) /\ Before(q, r) => Before(p, r)
           /\ \A r \in Payments : Before(p, q) => Before(p, r) \/ Before(r, q)
BY DEF Before, KeyType

LEMMA PlaceType ==
    ASSUME KeyType, NEW S \in SUBSET Payments, NEW p \in Payments
    PROVE  /\ IsFiniteSet(S) /\ Cardinality(S) \in Nat
           /\ IsFiniteSet({q \in S : Before(q, p)})
           /\ IsFiniteSet({q \in S : Before(p, q)})
           /\ Place(S, p) \in Nat /\ Place(S, p) <= Cardinality(S)
           /\ After(S, p) \in Nat
           /\ p \in S => Place(S, p) < Cardinality(S)
<1> DEFINE ahead == {q \in S : Before(q, p)}
           behind == {q \in S : Before(p, q)}
<1>1. IsFiniteSet(S) /\ Cardinality(S) \in Nat
  BY ParametersAssumption, FS_Subset, FS_CardinalityType
<1>2. IsFiniteSet(ahead) /\ Cardinality(ahead) <= Cardinality(S)
      /\ (Cardinality(S) = Cardinality(ahead) => S = ahead)
      /\ IsFiniteSet(behind)
  <2>1. ahead \in SUBSET S /\ behind \in SUBSET S
    OBVIOUS
  <2> QED
    BY <1>1, <2>1, FS_Subset
<1>3. Cardinality(ahead) \in Nat /\ Cardinality(behind) \in Nat
  BY <1>2, FS_CardinalityType
<1>4. p \notin ahead
  BY BeforeIsAnOrder
<1>5. Place(S, p) = Cardinality(ahead) /\ After(S, p) = Cardinality(behind)
  BY DEF Place, After
<1> HIDE DEF ahead, behind
<1> QED
  BY <1>1, <1>2, <1>3, <1>4, <1>5 DEF ahead, behind

\* Places follow the order.
LEMMA PlacesFollow ==
    ASSUME KeyType, NEW S \in SUBSET Payments, NEW p \in S, NEW q \in Payments,
           Before(p, q)
    PROVE  Place(S, p) < Place(S, q)
<1> DEFINE A == {x \in S : Before(x, p)}
           B == {x \in S : Before(x, q)}
<1>1. A \in SUBSET B /\ p \in B /\ p \notin A
  BY BeforeIsAnOrder
<1>2. IsFiniteSet(B) /\ Place(S, p) \in Nat /\ Place(S, q) \in Nat
  <2>1. p \in Payments
    OBVIOUS
  <2> QED
    BY <2>1, PlaceType, Zenon
<1>3. Cardinality(A) <= Cardinality(B) /\ Cardinality(A) # Cardinality(B)
  <2> HIDE DEF A, B
  <2> QED
    BY <1>1, <1>2, FS_Subset
<1>4. Place(S, p) = Cardinality(A) /\ Place(S, q) = Cardinality(B)
  BY DEF Place
<1> HIDE DEF A, B
<1> QED
  BY <1>2, <1>3, <1>4

\* Rows with the same place share their key.
LEMMA SamePlace ==
    ASSUME KeyType, NEW S \in SUBSET Payments, NEW p \in S, NEW q \in S,
           Place(S, p) = Place(S, q)
    PROVE  key[p] = key[q]
<1>1. p \in Payments /\ q \in Payments
  OBVIOUS
<1>2. Place(S, p) \in Nat /\ Place(S, q) \in Nat
  BY <1>1, PlaceType, Zenon
<1>3. ~Before(p, q)
  <2>1. ASSUME Before(p, q)
        PROVE  FALSE
    <3>1. Place(S, p) < Place(S, q)
      BY <1>1, <2>1, PlacesFollow
    <3> QED
      BY <1>2, <3>1
  <2> QED
    BY <2>1
<1>4. ~Before(q, p)
  <2>1. ASSUME Before(q, p)
        PROVE  FALSE
    <3>1. Place(S, q) < Place(S, p)
      BY <1>1, <2>1, PlacesFollow
    <3> QED
      BY <1>2, <3>1
  <2> QED
    BY <2>1
<1> QED
  BY <1>1, <1>3, <1>4, BeforeIsAnOrder

\* Of two rows in the wrong order, the one has all rows before it that the
\* other has not behind it.
LEMMA PlacesCover ==
    ASSUME KeyType, NEW S \in SUBSET Payments, NEW p \in S, NEW q \in S,
           Before(q, p)
    PROVE  Place(S, p) + After(S, q) >= Cardinality(S)
<1> DEFINE A == {x \in S : Before(x, p)}
           B == {x \in S : Before(q, x)}
<1>1. p \in Payments /\ q \in Payments
  OBVIOUS
<1>2. A \union B = S
  BY BeforeIsAnOrder
<1>3. /\ IsFiniteSet(A) /\ IsFiniteSet(B)
      /\ Cardinality(A) \in Nat /\ Cardinality(B) \in Nat
      /\ Place(S, p) = Cardinality(A) /\ After(S, q) = Cardinality(B)
  <2>1. IsFiniteSet(A) /\ IsFiniteSet(B)
    BY <1>1, PlaceType
  <2> QED
    BY <2>1, FS_CardinalityType DEF Place, After
<1> HIDE DEF A, B
<1>4. Cardinality(A \intersect B) \in Nat
  BY <1>3, FS_Intersection, FS_CardinalityType
<1>5. Cardinality(S)
        = Cardinality(A) + Cardinality(B) - Cardinality(A \intersect B)
  BY <1>2, <1>3, FS_Union
<1> QED
  BY <1>3, <1>4, <1>5

\* A row that shares its key with no other has all others before it or behind.
LEMMA AloneCovers ==
    ASSUME KeyType, Listed \in SUBSET Payments, NEW p \in Listed, p \notin Tied
    PROVE  Place(Listed, p) + After(Listed, p) = Cardinality(Listed) - 1
<1> DEFINE A == {x \in Listed : Before(x, p)}
           B == {x \in Listed : Before(p, x)}
<1>1. p \in Payments
  OBVIOUS
<1>2. A \union B = Listed \ {p} /\ A \intersect B = {}
  BY <1>1, BeforeIsAnOrder DEF Tied
<1>3. /\ IsFiniteSet(A) /\ IsFiniteSet(B) /\ IsFiniteSet(Listed)
      /\ Cardinality(A) \in Nat /\ Cardinality(B) \in Nat
      /\ Cardinality(Listed) \in Nat
      /\ Place(Listed, p) = Cardinality(A) /\ After(Listed, p) = Cardinality(B)
  <2>1. IsFiniteSet(A) /\ IsFiniteSet(B) /\ IsFiniteSet(Listed)
    BY <1>1, PlaceType
  <2> QED
    BY <2>1, FS_CardinalityType DEF Place, After
<1> HIDE DEF A, B
<1>4. Cardinality(A \union B) = Cardinality(A) + Cardinality(B)
  <2>1. Cardinality(A \intersect B) = 0
    BY <1>2, FS_EmptySet
  <2>2. Cardinality(A \union B)
          = Cardinality(A) + Cardinality(B) - Cardinality(A \intersect B)
    BY <1>3, FS_Union, Zenon
  <2> QED
    BY <1>3, <2>1, <2>2
<1>5. Cardinality(Listed \ {p}) = Cardinality(Listed) - 1
  BY <1>3, FS_RemoveElement
<1> QED
  BY <1>2, <1>3, <1>4, <1>5

\* No more rows than there are indexes that hold them.
LEMMA HeldBy ==
    ASSUME NEW A, NEW f, NEW a \in Int, NEW b \in Int, b >= a - 1,
           \A q \in A : \E j \in a .. b : f[j] = q
    PROVE  IsFiniteSet(A) /\ Cardinality(A) <= b - a + 1
<1> DEFINE E == a .. b
           g == [q \in A |-> CHOOSE j \in E : f[j] = q]
<1>1. \A q \in A : g[q] \in E /\ f[g[q]] = q
  OBVIOUS
<1>2. IsFiniteSet(E) /\ Cardinality(E) = b - a + 1
  <2>1. IsFiniteSet(E) /\ Cardinality(E) = IF a > b THEN 0 ELSE b - a + 1
    BY FS_Interval
  <2> QED
    BY <2>1
<1>3. g \in [A -> E]
  OBVIOUS
<1> HIDE DEF g, E
<1>4. g \in Injection(A, E)
  BY <1>1, <1>3 DEF Injection, IsInjective
<1> QED
  BY <1>2, <1>4, FS_Injection

\* Where a query may return a row.
LEMMA SortedByPlace ==
    ASSUME KeyType, Listed \in SUBSET Payments, NEW f \in Sortings
    PROVE  LET n == Cardinality(Listed) IN
           /\ n \in Nat
           /\ f \in Seq(Listed) /\ Len(f) = n
           /\ \A p \in Listed : \E i \in 1 .. n : f[i] = p
           /\ \A i \in 1 .. n :
                /\ Place(Listed, f[i]) \in Nat /\ Place(Listed, f[i]) <= i - 1
                /\ After(Listed, f[i]) \in Nat /\ After(Listed, f[i]) <= n - i
                /\ f[i] \notin Tied => Place(Listed, f[i]) = i - 1
<1> DEFINE n == Cardinality(Listed)
           D == 1 .. n
<1>1. IsFiniteSet(Listed) /\ n \in Nat
  BY ParametersAssumption, FS_Subset, FS_CardinalityType
<1>2. f \in [D -> Listed]
  BY DEF Sortings
<1>3. \A i, j \in D : i < j => f[i] # f[j] /\ ~Before(f[j], f[i])
  BY DEF Sortings
<1>4. IsFiniteSet(D) /\ Cardinality(D) = n
  BY <1>1, FS_Interval
<1>5. f \in Injection(D, Listed)
  <2>1. \A i, j \in D : f[i] = f[j] => i = j
    <3> SUFFICES ASSUME NEW i \in D, NEW j \in D, f[i] = f[j], i # j
                 PROVE  FALSE
      OBVIOUS
    <3>1. i < j \/ j < i
      BY <1>1
    <3> QED
      BY <1>3, <3>1
  <2> HIDE DEF D
  <2> QED
    BY <1>2, <2>1 DEF Injection, IsInjective
<1>6. \A p \in Listed : \E i \in D : f[i] = p
  <2>1. f \in Surjection(D, Listed)
    <3> HIDE DEF D, n
    <3> QED
      BY <1>1, <1>4, <1>5, FS_Injection DEF n
  <2> QED
    BY <2>1 DEF Surjection
<1>7. ASSUME NEW i \in D
      PROVE  /\ Place(Listed, f[i]) \in Nat /\ Place(Listed, f[i]) <= i - 1
             /\ After(Listed, f[i]) \in Nat /\ After(Listed, f[i]) <= n - i
             /\ f[i] \notin Tied => Place(Listed, f[i]) = i - 1
  <2> DEFINE p == f[i]
             A == {q \in Listed : Before(q, p)}
             B == {q \in Listed : Before(p, q)}
  <2>1. p \in Listed /\ p \in Payments
    BY <1>2
  <2> DEFINE a == 1
             b == i - 1
             c == i + 1
  <2>2. ASSUME NEW q \in A
        PROVE  \E j \in a .. b : f[j] = q
    <3>1. PICK j \in D : f[j] = q
      BY <1>6
    <3>2. ~(i < j) /\ i # j
      BY <1>3, <2>1, <3>1, BeforeIsAnOrder
    <3> QED
      BY <1>1, <3>1, <3>2
  <2>3. ASSUME NEW q \in B
        PROVE  \E j \in c .. n : f[j] = q
    <3>1. PICK j \in D : f[j] = q
      BY <1>6
    <3>2. ~(j < i) /\ i # j
      BY <1>3, <2>1, <3>1, BeforeIsAnOrder
    <3> QED
      BY <1>1, <3>1, <3>2
  <2>4. /\ a \in Int /\ b \in Int /\ c \in Int /\ n \in Int
        /\ b >= a - 1 /\ n >= c - 1
        /\ b - a + 1 = i - 1 /\ n - c + 1 = n - i
    BY <1>1
  <2>5. Place(Listed, p) = Cardinality(A) /\ After(Listed, p) = Cardinality(B)
    BY DEF Place, After
  <2>6. Cardinality(A) <= i - 1 /\ Cardinality(B) <= n - i
    <3> HIDE DEF A, B, n, D, p, a, b, c
    <3>1. Cardinality(A) <= b - a + 1
      BY <2>2, <2>4, HeldBy
    <3>2. Cardinality(B) <= n - c + 1
      BY <2>3, <2>4, HeldBy
    <3> QED
      BY <2>4, <3>1, <3>2
  <2>7. Place(Listed, p) \in Nat /\ After(Listed, p) \in Nat
    BY <2>1, PlaceType, Zenon
  <2>8. p \notin Tied => Place(Listed, p) + After(Listed, p) = n - 1
    BY <2>1, AloneCovers
  <2> HIDE DEF A, B, p, n
  <2> QED
    BY <2>4, <2>5, <2>6, <2>7, <2>8 DEF p
<1>8. f \in Seq(Listed) /\ Len(f) = n
  BY <1>1, <1>2
<1> QED
  BY <1>1, <1>6, <1>7, <1>8

\* LIMIT and OFFSET take rows with the places from Offset on.
LEMMA SliceByPlace ==
    ASSUME KeyType, Listed \in SUBSET Payments, Offset \in Nat,
           LimitNum \in Nat, NEW f \in Sortings
    PROVE  LET n == Cardinality(Listed)
               slice == Slice(f) IN
           /\ slice \in Seq(Listed) /\ Len(slice) \in 0 .. LimitNum
           /\ \A i \in 1 .. Len(slice) :
                /\ slice[i] \in Listed
                /\ Place(Listed, slice[i]) <= Offset + i - 1
                /\ After(Listed, slice[i]) <= n - (Offset + i)
                /\ slice[i] \notin Tied =>
                     Place(Listed, slice[i]) = Offset + i - 1
           /\ \A p \in Listed \ Tied :
                Place(Listed, p) \in Offset .. Offset + LimitNum - 1 =>
                    \E i \in 1 .. Len(slice) : slice[i] = p
           /\ Len(slice) < LimitNum => n < Offset + LimitNum
           /\ Len(slice) < LimitNum /\ Offset <= n => Offset + Len(slice) = n
           /\ Len(slice) > 0 => Offset + Len(slice) <= n
<1> DEFINE n == Cardinality(Listed)
           last == IF Offset + LimitNum <= n THEN Offset + LimitNum ELSE n
           size == IF Offset + 1 <= last THEN last - Offset ELSE 0
           slice == Slice(f)
<1>1. n \in Nat /\ f \in Seq(Listed) /\ Len(f) = n
  BY SortedByPlace
<1>2. /\ \A p \in Listed : \E i \in 1 .. n : f[i] = p
      /\ \A i \in 1 .. n :
           /\ Place(Listed, f[i]) \in Nat /\ Place(Listed, f[i]) <= i - 1
           /\ After(Listed, f[i]) \in Nat /\ After(Listed, f[i]) <= n - i
           /\ f[i] \notin Tied => Place(Listed, f[i]) = i - 1
  BY SortedByPlace
<1>4. Min({Offset + LimitNum, Len(f)}) = last
  <2> DEFINE a == Offset + LimitNum
             b == Len(f)
  <2>1. a \in Int /\ b \in Int /\ last \in {a, b}
        /\ \A y \in {a, b} : last <= y
    BY <1>1
  <2>2. \A x \in {a, b} : (\A y \in {a, b} : x <= y) => x = last
    BY <2>1
  <2> HIDE DEF a, b, last
  <2> QED
    BY <2>1, <2>2 DEF Min, a, b
<1>5. slice = SubSeq(f, Offset + 1, last)
  BY <1>4, Zenon DEF Slice
<1>6. last \in Nat /\ last <= n
  BY <1>1
<1> HIDE DEF last, slice, n
<1>7. /\ slice \in Seq(Listed) /\ Len(slice) = size
      /\ \A i \in 1 .. size : slice[i] = f[Offset + i]
  BY <1>1, <1>5, <1>6
<1>8. \A i \in 1 .. size : Offset + i \in 1 .. n
  BY <1>1, <1>6
<1>9. size \in 0 .. LimitNum
  BY <1>1, <1>6 DEF last
<1>10. ASSUME NEW i \in 1 .. size
       PROVE  /\ slice[i] \in Listed
              /\ Place(Listed, slice[i]) <= Offset + i - 1
              /\ After(Listed, slice[i]) <= n - (Offset + i)
              /\ slice[i] \notin Tied =>
                   Place(Listed, slice[i]) = Offset + i - 1
  <2>1. Offset + i \in 1 .. n /\ slice[i] = f[Offset + i]
    BY <1>7, <1>8
  <2>2. f[Offset + i] \in Listed
    BY <1>1, <2>1
  <2> QED
    BY <1>2, <2>1, <2>2
<1>11. ASSUME NEW p \in Listed \ Tied,
              Place(Listed, p) \in Offset .. Offset + LimitNum - 1
       PROVE  \E i \in 1 .. size : slice[i] = p
  <2>1. PICK j \in 1 .. n : f[j] = p
    BY <1>2
  <2>2. Place(Listed, p) = j - 1
    BY <1>2, <2>1
  <2>3. j - Offset \in 1 .. size /\ j = Offset + (j - Offset)
    BY <1>1, <1>11, <2>2 DEF last
  <2> QED
    BY <1>7, <2>1, <2>3
<1>12. size < LimitNum => n < Offset + LimitNum
  BY <1>1 DEF last
<1>13. size < LimitNum /\ Offset <= n => Offset + size = n
  BY <1>1 DEF last
<1>14. size > 0 => Offset + size <= n
  BY <1>1 DEF last
<1> QED
  BY <1>7, <1>9, <1>10, <1>11, <1>12, <1>13, <1>14 DEF n, slice

-----------------------------------------------------------------------------
(***************************************************************************)
(* Parameters and offsets.                                                 *)
(***************************************************************************)

\* The least number too large for an int.
Half == 2^(IntBits - 1)

LEMMA HalfType == Half \in Nat /\ Half > 10 /\ 2^IntBits = 2 * Half
<1>1. IntBits - 1 \in Nat /\ (IntBits - 1) + 1 = IntBits
  BY ParametersAssumption
<1>2. 2^IntBits = 2 * Half
  BY <1>1, PowersDouble, Zenon DEF Half
<1>3. Half \in Nat
  BY <1>1, PowerOfTwo, Zenon DEF Half
<1>4. Ints = -Half .. Half - 1
  BY Zenon DEF Ints, Half
<1>5. Half > 10
  BY <1>3, <1>4, ParametersAssumption
<1> QED
  BY <1>2, <1>3, <1>5, Zenon

LEMMA LimitType ==
    ASSUME request \in Requests
    PROVE  LimitNum \in Nat \ {0} /\ LimitNum < Half
<1>1. Ints = -Half .. Half - 1
  BY Zenon DEF Ints, Half
<1>2. request.limit \in Ints
  BY ParametersAssumption DEF AllRequests
<1> QED
  BY <1>1, <1>2, HalfType DEF LimitNum, Positive

LEMMA OffsetType ==
    ASSUME request \in Requests, page \in Int
    PROVE  Offset \in Int
<1> DEFINE n == (PageNum - 1) * LimitNum
           full == 2^IntBits
<1>1. n \in Int
  <2>1. PageNum \in Int /\ LimitNum \in Int
    BY LimitType DEF PageNum, Positive
  <2> QED
    BY <2>1
<1>2. full \in Nat /\ full > 0 /\ Half \in Nat
  BY HalfType
<1>3. Offset = ((n + Half) % full) - Half
  BY Zenon DEF Offset, Wrap, Half
<1> HIDE DEF n, full
<1> QED
  BY <1>1, <1>2, <1>3

\* The offset of a page is the number of rows on the pages before, or negative
\* where that number just leaves an int.
LEMMA OffsetOf ==
    ASSUME request \in Requests, page \in Int
    PROVE  LET first == (PageNum - 1) * LimitNum IN
           /\ PageNum \in Nat \ {0} /\ first \in Nat
           /\ first < Half => Offset = first
           /\ Half <= first /\ first < 2 * Half => Offset < 0
<1> DEFINE first == (PageNum - 1) * LimitNum
<1>1. PageNum \in Nat \ {0} /\ first \in Nat
  <2>1. PageNum \in Nat \ {0} /\ LimitNum \in Nat
    BY LimitType DEF PageNum, Positive
  <2> QED
    BY <2>1
<1>2. Offset = ((first + 2^(IntBits - 1)) % 2^IntBits) - 2^(IntBits - 1)
  BY Zenon DEF Offset, Wrap
<1> HIDE DEF first
<1>3. IntBits \in Nat \ {0}
  BY ParametersAssumption
<1>4. ASSUME first < Half
      PROVE  Offset = first
  <2>1. first < 2^(IntBits - 1)
    BY <1>4, Zenon DEF Half
  <2> QED
    BY <1>1, <1>2, <1>3, <2>1, FitsTheWidth, Zenon
<1>5. ASSUME Half <= first, first < 2 * Half
      PROVE  Offset < 0
  <2>1. 2^(IntBits - 1) <= first /\ first < 2^IntBits
    BY <1>5, HalfType, Zenon DEF Half
  <2> QED
    BY <1>1, <1>2, <1>3, <2>1, LeavesTheWidth, Zenon
<1> QED
  BY <1>1, <1>4, <1>5 DEF first

-----------------------------------------------------------------------------
(***************************************************************************)
(* What every proof below needs to know of a step.                         *)
(***************************************************************************)

Reading == phase \in {"count", "select"}

\* Rows that share their key in the listing are known to.  A walk has read
\* whole pages, and its next offset is no further beyond an int than one page.
BaseInv ==
    /\ TypeOK
    /\ phase = "idle" => seen = << >> /\ Quiet
    /\ Reading =>
         /\ steady \subseteq Listed /\ (Quiet => steady = Listed)
         /\ Tied \subseteq unsure
         /\ ~request.walking => seen = << >>
    /\ request.walking /\ (phase = "idle" \/ Reading) =>
         /\ page \in Nat \ {0}
         /\ Len(seen) = (page - 1) * LimitNum
         /\ Len(seen) < Half + LimitNum

\* Nothing happens to any row but x.
Touches(x) ==
    /\ Listed' \ {x} = Listed \ {x}
    /\ \A q \in Payments \ {x} : key'[q] = key[q]

\* The table changes around the client by one row, or is emptied.
Around ==
    /\ UNCHANGED client
    /\ phase \in {"idle", "count", "select"}
    /\ Watch
    /\ Listed' \in SUBSET Payments
    /\ \/ Listed' = Listed /\ key' = key
       \/ \E x \in Payments : Touches(x)
       \/ Listed' = {} /\ key' = key

LEMMA ListedType ==
    ASSUME TypeOK
    PROVE  /\ Listed \in SUBSET Payments /\ Listed \in SUBSET ever
           /\ IsFiniteSet(Listed) /\ Cardinality(Listed) \in Nat
           /\ Shown \in SUBSET ever /\ Tied \in SUBSET ever
           /\ KeyType
<1>1. Listed \in SUBSET Payments /\ Listed \in SUBSET ever /\ KeyType
  BY DEF TypeOK, Listed, KeyType
<1>2. Shown \in SUBSET ever
  BY DEF TypeOK, Shown
<1>3. Tied \in SUBSET ever
  BY <1>1 DEF Tied
<1> QED
  BY <1>1, <1>2, <1>3, ParametersAssumption, FS_Subset, FS_CardinalityType

\* The same of the next state.
LEMMA ListedTypeNext ==
    ASSUME TypeOK'
    PROVE  /\ Listed' \in SUBSET Payments /\ Listed' \in SUBSET ever'
           /\ IsFiniteSet(Listed') /\ Cardinality(Listed') \in Nat
           /\ Shown' \in SUBSET ever' /\ Tied' \in SUBSET ever'
           /\ KeyType'
<1>1. Listed' \in SUBSET Payments /\ Listed' \in SUBSET ever' /\ KeyType'
  BY DEF TypeOK, Listed, KeyType
<1>2. Shown' \in SUBSET ever'
  BY DEF TypeOK, Shown
<1>3. Tied' \in SUBSET ever'
  BY <1>1 DEF Tied
<1> QED
  BY <1>1, <1>2, <1>3, ParametersAssumption, FS_Subset, FS_CardinalityType

\* A row that is inserted changes no other.
LEMMA InsertTouches ==
    ASSUME TypeOK, NEW p \in Payments, Insert(p)
    PROVE  /\ table' \in SUBSET ever' /\ ever' \in SUBSET Payments
           /\ ever \subseteq ever' /\ p \in ever'
           /\ found' \in SUBSET Payments /\ key' \in [Payments -> Nat]
           /\ Touches(p)
<1>1. PICK k \in Keys :
        /\ p \notin ever /\ table' = table \union {p}
        /\ ever' = ever \union {p} /\ Find(p)
        /\ key' = [key EXCEPT ![p] = k]
  BY DEF Insert
<1>2. found' \ {p} = found \ {p} /\ found' \in SUBSET Payments
  BY <1>1 DEF TypeOK, Find
<1>3. k \in Nat
  BY ParametersAssumption
<1>4. Touches(p)
  BY <1>1, <1>2 DEF TypeOK, Touches, Listed
<1> QED
  BY <1>1, <1>2, <1>3, <1>4 DEF TypeOK

\* Watch when nothing happens to the listing.
LEMMA NothingMoves ==
    ASSUME BaseInv, UNCHANGED <<rows, client, watch>>,
           phase \in {"idle", "count", "select"}
    PROVE  Around
<1>1. /\ Listed' = Listed /\ key' = key /\ TypeOK /\ Tied' = Tied
      /\ ever' = ever
  BY DEF BaseInv, rows, Listed, Tied
<1>2. Coming = {} /\ Going = {}
  BY <1>1 DEF Coming, Going
<1>3. Cardinality(Coming) = 0 /\ Cardinality(Going) = 0
  BY <1>2, FS_EmptySet
<1>4. joined \in Nat /\ left \in Nat
  BY <1>1 DEF TypeOK
<1>5. Watch
  <2>1. CASE phase = "idle"
    BY <2>1 DEF Watch
  <2>2. CASE Reading
    <3>1. steady \intersect Listed' = steady /\ Tied \subseteq unsure
      BY <1>1, <2>2 DEF BaseInv
    <3>2. {p \in ever : key'[p] # key[p]} = {}
      BY <1>1
    <3>3. unsure \union Tied' \union {p \in ever : key'[p] # key[p]} = unsure
      BY <1>1, <3>1, <3>2
    <3> QED
      BY <1>3, <1>4, <2>2, <3>1, <3>3 DEF Watch, watch, Reading
  <2> QED
    BY <2>1, <2>2 DEF Reading
<1> QED
  BY <1>1, <1>5, ListedType DEF Around

LEMMA StepKinds ==
    ASSUME BaseInv, [Next]_vars
    PROVE  Ask \/ Count \/ Select \/ Around \/ UNCHANGED vars
<1>1. TypeOK /\ Listed \in SUBSET Payments
  BY ListedType DEF BaseInv
<1> SUFFICES ASSUME Next
             PROVE  Ask \/ Count \/ Select \/ Around
  OBVIOUS
<1>2. phase \in {"idle", "count", "select"}
  BY <1>1 DEF Next, TypeOK
<1>3. ASSUME NEW p \in Payments, Create(p) \/ SeedOne(p)
      PROVE  Around
  <2>1. Insert(p) /\ UNCHANGED client /\ Watch
    BY <1>3 DEF Create, SeedOne
  <2>2. Touches(p) /\ Listed' \in SUBSET Payments
    BY <1>1, <2>1, InsertTouches DEF Touches
  <2> QED
    BY <1>2, <2>1, <2>2 DEF Around
<1>4. ASSUME NEW p \in Payments, Change(p)
      PROVE  Around
  <2>1. found' \ {p} = found \ {p} /\ table' = table
    BY <1>4 DEF Change, Find
  <2>2. \A q \in Payments \ {p} : key'[q] = key[q]
    BY <1>1, <1>4 DEF Change, TypeOK
  <2>3. Touches(p) /\ Listed' \in SUBSET Payments
    BY <1>1, <2>1, <2>2 DEF Touches, Listed
  <2> QED
    BY <1>2, <1>4, <2>3 DEF Around, Change
<1>5. ASSUME Truncate
      PROVE  Around
  <2>1. Listed' = {} /\ key' = key
    BY <1>5 DEF Truncate, Listed
  <2> QED
    BY <1>2, <1>5, <2>1 DEF Around, Truncate
<1>6. ASSUME Seed \/ SeedEnds \/ SeedFails
      PROVE  Around
  <2>1. UNCHANGED <<rows, client, watch>>
    BY <1>6 DEF Seed, SeedEnds, SeedFails
  <2> QED
    BY <1>2, <2>1, NothingMoves
<1> QED
  BY <1>3, <1>4, <1>5, <1>6 DEF Next

\* What the client's watch makes of it.
LEMMA WatchCounts ==
    ASSUME BaseInv, Around
    PROVE  /\ joined' \in Nat /\ left' \in Nat
           /\ joined <= joined' /\ left <= left'
           /\ ~Reading => UNCHANGED watch
           /\ Reading =>
                /\ steady' = steady \intersect Listed'
                /\ unsure' = unsure \union Tied'
                               \union {p \in ever : key'[p] # key[p]}
                /\ IsFiniteSet(Coming) /\ IsFiniteSet(Going)
                /\ joined' = joined + Cardinality(Coming)
                /\ left' = left + Cardinality(Going)
                /\ Coming # {} => joined' >= joined + 1
                /\ Going # {} => left' >= left + 1
                /\ Quiet' => /\ Quiet /\ Listed' = Listed
                             /\ \A p \in Listed : key'[p] = key[p]
<1>1. /\ TypeOK /\ Listed \in SUBSET Payments /\ IsFiniteSet(Listed)
      /\ joined \in Nat /\ left \in Nat
  BY ListedType DEF BaseInv, TypeOK
<1>2. Watch /\ phase \in {"idle", "count", "select"}
  BY DEF Around
<1>3. CASE ~Reading
  <2>1. UNCHANGED watch
    BY <1>2, <1>3 DEF Watch, Reading
  <2> QED
    BY <1>1, <1>3, <2>1 DEF watch
<1>4. CASE Reading
  <2>1. /\ steady' = steady \intersect Listed'
        /\ unsure' = unsure \union Tied'
                       \union {p \in ever : key'[p] # key[p]}
        /\ joined' = joined + Cardinality(Coming)
        /\ left' = left + Cardinality(Going)
    BY <1>2, <1>4 DEF Watch, Reading
  <2>2. IsFiniteSet(Coming) /\ IsFiniteSet(Going)
    <3>1. Coming \in SUBSET Payments
      BY DEF Coming, Around
    <3>2. Going \in SUBSET Payments
      BY <1>1 DEF Going
    <3> QED
      BY <3>1, <3>2, ParametersAssumption, FS_Subset
  <2>3. /\ Cardinality(Coming) \in Nat /\ Cardinality(Going) \in Nat
        /\ Cardinality(Coming) = 0 <=> Coming = {}
        /\ Cardinality(Going) = 0 <=> Going = {}
    BY <2>2, FS_CardinalityType, FS_EmptySet
  <2>4. ASSUME Quiet'
        PROVE  /\ Quiet /\ Listed' = Listed
               /\ \A p \in Listed : key'[p] = key[p]
    <3>1. joined' = 0 /\ left' = 0
      BY <2>4 DEF Quiet
    <3>2. /\ joined = 0 /\ Cardinality(Coming) = 0
          /\ left = 0 /\ Cardinality(Going) = 0
      BY <1>1, <2>1, <2>3, <3>1
    <3>3. Coming = {} /\ Going = {}
      BY <2>3, <3>2
    <3> QED
      BY <3>2, <3>3 DEF Quiet, Coming, Going
  <2>5. Coming # {} => joined' >= joined + 1
    BY <1>1, <2>1, <2>3
  <2>6. Going # {} => left' >= left + 1
    BY <1>1, <2>1, <2>3
  <2> QED
    BY <1>1, <1>4, <2>1, <2>2, <2>3, <2>4, <2>5, <2>6
<1> QED
  BY <1>3, <1>4

\* The place of a payment that keeps its key moves by one at most, and only for
\* a row that comes or goes.
LEMMA PlaceMoves ==
    ASSUME TypeOK, UNCHANGED request, Listed' \in SUBSET Payments,
           NEW x \in Payments, Touches(x),
           NEW p \in Payments, key'[p] = key[p]
    PROVE  /\ Place(Listed, p) \in Nat /\ Place(Listed, p)' \in Nat
           /\ \/ Place(Listed, p)' = Place(Listed, p)
              \/ Place(Listed, p)' = Place(Listed, p) + 1 /\ x \in Coming
              \/ Place(Listed, p)' = Place(Listed, p) - 1 /\ x \in Going
<1> DEFINE A == {q \in Listed : Before(q, p)}
           B == {q \in Listed' : Before(q, p)'}
<1>1. Listed \in SUBSET Payments /\ KeyType
  BY ListedType
<1>2. \A q \in Payments \ {x} : Before(q, p)' <=> Before(q, p)
  BY DEF Touches, Before
<1>3. A \ {x} = B \ {x}
  BY <1>1, <1>2 DEF Touches
<1>4. IsFiniteSet(A)
  BY <1>1, PlaceType
<1>5. x \in B /\ x \notin A => x \in Coming
  BY DEF Coming, Before
<1>6. x \in A /\ x \notin B => x \in Going
  BY DEF Going, Before
<1>7. Place(Listed, p) = Cardinality(A) /\ Place(Listed, p)' = Cardinality(B)
  BY DEF Place
<1> HIDE DEF A, B
<1>8. /\ Cardinality(A) \in Nat /\ Cardinality(B) \in Nat
      /\ Cardinality(B) = Cardinality(A)
           + (IF x \in B THEN 1 ELSE 0) - (IF x \in A THEN 1 ELSE 0)
  BY <1>3, <1>4, OneMember
<1> QED
  BY <1>5, <1>6, <1>7, <1>8

\* The types.
LEMMA TypeOKNext ==
    ASSUME BaseInv, [Next]_vars
    PROVE  TypeOK'
<1>1. TypeOK
  BY DEF BaseInv
<1>2. /\ Listed \in SUBSET ever /\ Cardinality(Listed) \in Nat
      /\ IsFiniteSet(ever) /\ Cardinality(ever) \in Nat
      /\ Cardinality(Listed) <= Cardinality(ever)
  <2>1. IsFiniteSet(ever) /\ Cardinality(ever) \in Nat
    BY <1>1, ParametersAssumption, FS_Subset, FS_CardinalityType DEF TypeOK
  <2> QED
    BY <1>1, <2>1, ListedType, FS_Subset
<1>3. CASE Ask
  <2>1. Tied \in SUBSET ever
    BY <1>1, ListedType
  <2> QED
    BY <1>1, <1>2, <1>3, <2>1 DEF Ask, TypeOK, rows, seeding
<1>4. CASE Count
  BY <1>1, <1>2, <1>4 DEF Count, TypeOK, rows, seeding, watch
<1>5. CASE Select
  <2>1. /\ UNCHANGED <<rows, seeding, request, total, watch>>
        /\ \/ phase' = "error" /\ UNCHANGED <<page, seen>>
           \/ /\ Offset \in Nat
              /\ \E f \in Sortings : seen' = seen \o Slice(f)
              /\ \/ page' = page + 1 /\ phase' = "count"
                 \/ phase' = "done" /\ UNCHANGED page
    <3>1. Offset \in Int
      BY <1>1, OffsetType DEF TypeOK
    <3>2. CASE Offset < 0
      BY <1>5, <3>2 DEF Select
    <3>3. CASE ~(Offset < 0)
      <4>1. Offset \in Nat
        BY <3>1, <3>3
      <4>2. UNCHANGED <<rows, seeding, request, total, watch>>
        BY <1>5 DEF Select
      <4>3. PICK f \in Sortings :
              /\ seen' = seen \o Slice(f)
              /\ IF request.walking /\ Len(Slice(f)) = LimitNum
                 THEN page' = page + 1 /\ phase' = "count"
                 ELSE phase' = "done" /\ UNCHANGED page
        BY <1>5, <3>3 DEF Select
      <4> QED
        BY <4>1, <4>2, <4>3
    <3> QED
      BY <3>2, <3>3
  <2>2. seen' \in Seq(ever)
    <3>1. seen \in Seq(ever)
      BY <1>1 DEF TypeOK
    <3>2. ASSUME Offset \in Nat, NEW f \in Sortings, seen' = seen \o Slice(f)
          PROVE  seen' \in Seq(ever)
      <4>1. Slice(f) \in Seq(Listed)
        BY <1>1, <3>2, ListedType, LimitType, SliceByPlace DEF TypeOK
      <4>2. Slice(f) \in Seq(ever)
        BY <1>2, <4>1
      <4> QED
        BY <3>1, <3>2, <4>2
    <3> QED
      BY <2>1, <3>1, <3>2
  <2>3. page' \in Int /\ phase' \in {"idle", "count", "select", "done", "error"}
    BY <1>1, <2>1 DEF TypeOK
  <2> QED
    BY <1>1, <2>1, <2>2, <2>3 DEF TypeOK, rows, seeding, watch
<1>6. ASSUME Around, ever \subseteq ever', ever' \in SUBSET Payments,
             table' \in SUBSET ever', found' \in SUBSET Payments,
             key' \in [Payments -> Nat],
             seed' \in {"off", "truncate", "insert", "done", "failed"},
             seeds' \in SUBSET ever'
      PROVE  TypeOK'
  <2>1. UNCHANGED client /\ joined' \in Nat /\ left' \in Nat
    BY <1>6, WatchCounts DEF Around
  <2>2. Cardinality(ever) <= Cardinality(ever') /\ Cardinality(ever') \in Nat
    <3>1. IsFiniteSet(ever')
      BY <1>6, ParametersAssumption, FS_Subset
    <3> QED
      BY <1>6, <3>1, FS_Subset, FS_CardinalityType
  <2>3. steady' \in SUBSET ever' /\ unsure' \in SUBSET ever'
    <3>1. Tied' \in SUBSET ever'
      BY <1>6 DEF Tied, Listed
    <3>2. CASE Reading
      BY <1>1, <1>6, <3>1, <3>2, WatchCounts DEF TypeOK
    <3>3. CASE ~Reading
      BY <1>1, <1>6, <3>3, WatchCounts DEF TypeOK, watch
    <3> QED
      BY <3>2, <3>3
  <2>4. total' \in 0 .. Cardinality(ever')
    BY <1>1, <1>2, <2>1, <2>2 DEF TypeOK, client
  <2>5. seen' \in Seq(ever')
    BY <1>1, <1>6, <2>1 DEF TypeOK, client
  <2> QED
    BY <1>1, <1>6, <2>1, <2>3, <2>4, <2>5 DEF TypeOK, client
<1>7. CASE Around /\ Next /\ ~Ask /\ ~Count /\ ~Select
  <2>1. ASSUME NEW p \in Payments, Create(p) \/ SeedOne(p)
        PROVE  TypeOK'
    <3>1. Insert(p)
      BY <2>1 DEF Create, SeedOne
    <3>2. /\ table' \in SUBSET ever' /\ ever' \in SUBSET Payments
          /\ ever \subseteq ever' /\ p \in ever'
          /\ found' \in SUBSET Payments /\ key' \in [Payments -> Nat]
      BY <1>1, <3>1, InsertTouches
    <3>3. /\ seeds' \in SUBSET ever'
          /\ seed' \in {"off", "truncate", "insert", "done", "failed"}
      BY <1>1, <2>1, <3>2 DEF Create, SeedOne, TypeOK, seeding
    <3> QED
      BY <1>6, <1>7, <3>2, <3>3
  <2>2. ASSUME NEW p \in Payments, Change(p)
        PROVE  TypeOK'
    <3>1. found' \in SUBSET Payments /\ UNCHANGED <<table, ever, seeding>>
      BY <1>1, <2>2 DEF Change, Find, TypeOK
    <3>2. key' \in [Payments -> Nat]
      BY <1>1, <2>2, ParametersAssumption DEF Change, TypeOK
    <3> QED
      BY <1>1, <1>6, <1>7, <3>1, <3>2 DEF TypeOK, seeding
  <2>3. CASE Truncate
    BY <1>1, <1>6, <1>7, <2>3 DEF Truncate, TypeOK
  <2>4. CASE Seed \/ SeedEnds \/ SeedFails
    BY <1>1, <1>6, <1>7, <2>4 DEF Seed, SeedEnds, SeedFails, rows, TypeOK
  <2> QED
    BY <1>7, <2>1, <2>2, <2>3, <2>4 DEF Next
<1>8. CASE UNCHANGED vars
  BY <1>1, <1>8 DEF TypeOK, vars, rows, seeding, client, watch
<1> QED
  BY <1>3, <1>4, <1>5, <1>7, <1>8, StepKinds

\* A walk reads on where it stopped, or has left the int.
LEMMA WalkOffset ==
    ASSUME BaseInv, Reading, request.walking
    PROVE  (Offset = Len(seen) /\ Len(seen) < Half) \/ Offset < 0
<1>1. /\ request \in Requests /\ page \in Int /\ page \in Nat \ {0}
      /\ Len(seen) = (page - 1) * LimitNum /\ Len(seen) < Half + LimitNum
  BY DEF BaseInv, TypeOK
<1>2. PageNum = page
  BY <1>1 DEF PageNum, Positive
<1>3. LimitNum < Half /\ LimitNum \in Nat /\ Half \in Nat
  BY <1>1, LimitType, HalfType
<1>4. Len(seen) = (PageNum - 1) * LimitNum
  BY <1>1, <1>2
<1> DEFINE first == (PageNum - 1) * LimitNum
<1>5. /\ first \in Nat
      /\ first < Half => Offset = first
      /\ Half <= first /\ first < 2 * Half => Offset < 0
  BY <1>1, OffsetOf
<1>6. Len(seen) = first
  BY <1>4
<1> HIDE DEF first
<1> QED
  BY <1>1, <1>3, <1>5, <1>6

\* A page that is answered: the rows with the places from Offset on are put at
\* A page that is answered: rows with the places from Offset on are put at the
\* end of what was seen.
PageRead(slice) ==
    /\ UNCHANGED <<rows, request, total, watch>> /\ Listed' = Listed
    /\ Offset \in Nat
    /\ slice \in Seq(Listed) /\ Len(slice) \in 0 .. LimitNum
    /\ seen' = seen \o slice
    /\ Len(seen') = Len(seen) + Len(slice)
    /\ \A i \in 1 .. Len(seen) : seen'[i] = seen[i]
    /\ \A i \in 1 .. Len(slice) :
         /\ seen'[Len(seen) + i] = slice[i] /\ slice[i] \in Listed
         /\ Place(Listed, slice[i]) <= Offset + i - 1
         /\ After(Listed, slice[i]) <= Cardinality(Listed) - (Offset + i)
         /\ slice[i] \notin Tied => Place(Listed, slice[i]) = Offset + i - 1
    /\ \A p \in Listed \ Tied :
         Place(Listed, p) \in Offset .. Offset + LimitNum - 1 =>
             \E i \in 1 .. Len(slice) : slice[i] = p
    /\ Len(slice) < LimitNum =>
         /\ Cardinality(Listed) < Offset + LimitNum
         /\ Offset <= Cardinality(Listed) =>
              Offset + Len(slice) = Cardinality(Listed)
    /\ Len(slice) > 0 => Offset + Len(slice) <= Cardinality(Listed)
    /\ \/ /\ request.walking /\ Len(slice) = LimitNum
          /\ page' = page + 1 /\ phase' = "count"
       \/ /\ ~request.walking \/ Len(slice) < LimitNum
          /\ page' = page /\ phase' = "done"
    /\ request.walking => Offset = Len(seen) /\ Len(seen) < Half

LEMMA SelectStep ==
    ASSUME BaseInv, Select
    PROVE  \/ \E slice \in Seq(Listed) : PageRead(slice)
           \/ /\ phase' = "error" /\ Listed' = Listed
              /\ UNCHANGED <<rows, request, page, total, seen, watch>>
<1>1. /\ TypeOK /\ phase = "select" /\ Listed' = Listed
      /\ UNCHANGED <<rows, request, total, watch>>
  BY DEF BaseInv, Select, rows, Listed
<1>2. CASE Offset < 0
  BY <1>1, <1>2 DEF Select
<1>3. CASE ~(Offset < 0)
  <2>1. Offset \in Nat
    BY <1>1, <1>3, OffsetType DEF TypeOK
  <2>2. /\ LimitNum \in Nat /\ Listed \in SUBSET Payments
        /\ Listed \in SUBSET ever /\ KeyType
    BY <1>1, LimitType, ListedType DEF TypeOK
  <2>3. PICK f \in Sortings :
          /\ seen' = seen \o Slice(f)
          /\ \/ /\ request.walking /\ Len(Slice(f)) = LimitNum
                /\ page' = page + 1 /\ phase' = "count"
             \/ /\ ~(request.walking /\ Len(Slice(f)) = LimitNum)
                /\ page' = page /\ phase' = "done"
    BY <1>3 DEF Select
  <2> DEFINE slice == Slice(f)
  <2>4. /\ slice \in Seq(Listed) /\ Len(slice) \in 0 .. LimitNum
        /\ \A i \in 1 .. Len(slice) :
             /\ slice[i] \in Listed
             /\ Place(Listed, slice[i]) <= Offset + i - 1
             /\ After(Listed, slice[i]) <= Cardinality(Listed) - (Offset + i)
             /\ slice[i] \notin Tied =>
                  Place(Listed, slice[i]) = Offset + i - 1
        /\ \A p \in Listed \ Tied :
             Place(Listed, p) \in Offset .. Offset + LimitNum - 1 =>
                 \E i \in 1 .. Len(slice) : slice[i] = p
        /\ Len(slice) < LimitNum => Cardinality(Listed) < Offset + LimitNum
        /\ Len(slice) < LimitNum /\ Offset <= Cardinality(Listed) =>
             Offset + Len(slice) = Cardinality(Listed)
        /\ Len(slice) > 0 => Offset + Len(slice) <= Cardinality(Listed)
    BY <2>1, <2>2, SliceByPlace
  <2>5. /\ seen' = seen \o slice
        /\ \/ /\ request.walking /\ Len(slice) = LimitNum
              /\ page' = page + 1 /\ phase' = "count"
           \/ /\ ~(request.walking /\ Len(slice) = LimitNum)
              /\ page' = page /\ phase' = "done"
    BY <2>3
  <2> HIDE DEF slice
  <2>6. /\ Len(seen') = Len(seen) + Len(slice)
        /\ \A i \in 1 .. Len(seen) : seen'[i] = seen[i]
        /\ \A i \in 1 .. Len(slice) : seen'[Len(seen) + i] = slice[i]
    <3>1. seen \in Seq(ever) /\ slice \in Seq(ever)
      BY <1>1, <2>2, <2>4 DEF TypeOK
    <3> QED
      BY <2>5, <3>1
  <2>7. request.walking => Offset = Len(seen) /\ Len(seen) < Half
    BY <1>1, <1>3, WalkOffset DEF Reading
  <2>8. Len(slice) < LimitNum \/ Len(slice) = LimitNum
    BY <2>2, <2>4
  <2>9. PageRead(slice)
    BY <1>1, <2>1, <2>4, <2>5, <2>6, <2>7, <2>8, Zenon DEF PageRead
  <2> QED
    BY <2>4, <2>9
<1> QED
  BY <1>2, <1>3

LEMMA BaseInvInit == Init => BaseInv
<1> SUFFICES ASSUME Init
             PROVE  BaseInv
  OBVIOUS
<1>1. /\ Len(seen) = 0 /\ phase = "idle" /\ Quiet
      /\ request.walking => page = 1
  BY DEF Init, Quiet
<1>2. request \in Requests /\ page \in Int
  <2>1. Ints \subseteq Int
    BY HalfType DEF Ints, Half
  <2> QED
    BY <2>1, ParametersAssumption DEF Init
<1>3. TypeOK
  <2>1. IsFiniteSet({}) /\ Cardinality({}) = 0
    BY FS_EmptySet
  <2>2. total \in 0 .. Cardinality(ever)
    BY <2>1 DEF Init
  <2> QED
    BY <1>2, <2>2 DEF Init, TypeOK
<1>4. LimitNum \in Nat \ {0} /\ Half \in Nat
  BY <1>2, LimitType, HalfType
<1>5. request.walking => Len(seen) = (page - 1) * LimitNum
  BY <1>1, <1>4
<1>6. Len(seen) < Half + LimitNum
  BY <1>1, <1>4
<1> QED
  BY <1>1, <1>3, <1>5, <1>6 DEF BaseInv, Reading, Init

LEMMA BaseInvNext == BaseInv /\ [Next]_vars => BaseInv'
<1> SUFFICES ASSUME BaseInv, [Next]_vars
             PROVE  BaseInv'
  OBVIOUS
<1>1. TypeOK /\ TypeOK'
  BY TypeOKNext DEF BaseInv
<1>2. CASE Ask
  <2>1. Listed' = Listed /\ Tied' = Tied
    BY <1>2 DEF Ask, rows, Listed, Tied
  <2>2. LimitNum' = LimitNum
    BY <1>2 DEF Ask, LimitNum
  <2> QED
    BY <1>1, <1>2, <2>1, <2>2 DEF Ask, BaseInv, Reading, Quiet
<1>3. CASE Count
  <2>1. Listed' = Listed /\ Tied' = Tied
    BY <1>3 DEF Count, rows, Listed, Tied
  <2>2. LimitNum' = LimitNum
    BY <1>3 DEF Count, LimitNum
  <2> QED
    BY <1>1, <1>3, <2>1, <2>2 DEF Count, BaseInv, Reading, Quiet, watch
<1>4. ASSUME NEW slice \in Seq(Listed), PageRead(slice), phase = "select"
      PROVE  BaseInv'
  <2>1. /\ LimitNum' = LimitNum /\ request' = request /\ Listed' = Listed
        /\ Tied' = Tied
    BY <1>4 DEF PageRead, LimitNum, rows, Tied
  <2>2. Reading' => request.walking
    BY <1>4 DEF PageRead, Reading
  <2>3. UNCHANGED watch /\ (Quiet' <=> Quiet)
    BY <1>4 DEF PageRead, watch, Quiet
  <2>4. Reading' => /\ steady' \subseteq Listed'
                    /\ Quiet' => steady' = Listed'
                    /\ Tied' \subseteq unsure'
    BY <1>4, <2>1, <2>3 DEF BaseInv, Reading, watch
  <2>5. phase' # "idle"
    BY <1>4 DEF PageRead
  <2>6. ASSUME request.walking, Reading'
        PROVE  /\ page' \in Nat \ {0}
               /\ Len(seen') = (page' - 1) * LimitNum
               /\ Len(seen') < Half + LimitNum
    <3>1. /\ page \in Nat \ {0} /\ Len(seen) = (page - 1) * LimitNum
      BY <1>4, <2>6 DEF BaseInv, Reading
    <3>2. /\ page' = page + 1 /\ Len(seen') = Len(seen) + LimitNum
          /\ Len(seen) < Half
      BY <1>4, <2>6 DEF PageRead, Reading
    <3>3. LimitNum \in Nat /\ Half \in Nat /\ Len(seen) \in Nat
      BY <1>1, LimitType, HalfType DEF TypeOK
    <3>4. (page' - 1) * LimitNum = (page - 1) * LimitNum + LimitNum
      BY <3>1, <3>2, <3>3
    <3> QED
      BY <3>1, <3>2, <3>3, <3>4
  <2> QED
    BY <1>1, <2>1, <2>2, <2>4, <2>5, <2>6 DEF BaseInv
<1>5. CASE phase' = "error"
  BY <1>1, <1>5 DEF BaseInv, Reading
<1>6. CASE Around
  <2>1. /\ UNCHANGED <<request, page, phase, seen>>
        /\ LimitNum' = LimitNum /\ (Reading' <=> Reading)
    BY <1>6 DEF Around, client, LimitNum, Reading
  <2>2. phase' = "idle" => seen' = << >> /\ Quiet'
    <3> SUFFICES ASSUME phase = "idle"
                 PROVE  seen' = << >> /\ Quiet'
      BY <2>1
    <3>1. UNCHANGED watch
      BY <1>6, WatchCounts DEF Reading
    <3> QED
      BY <2>1, <3>1 DEF BaseInv, Quiet, watch
  <2>3. ASSUME Reading
        PROVE  /\ steady' \subseteq Listed' /\ (Quiet' => steady' = Listed')
               /\ Tied' \subseteq unsure'
               /\ ~request.walking => seen = << >>
    <3>1. /\ steady' = steady \intersect Listed'
          /\ Tied' \subseteq unsure'
          /\ Quiet' => Quiet /\ Listed' = Listed
      BY <1>6, <2>3, WatchCounts
    <3> QED
      BY <2>3, <3>1 DEF BaseInv
  <2>4. request'.walking /\ (phase' = "idle" \/ Reading') =>
          /\ page' \in Nat \ {0}
          /\ Len(seen') = (page' - 1) * LimitNum'
          /\ Len(seen') < Half + LimitNum'
    BY <2>1 DEF BaseInv
  <2> QED
    BY <1>1, <2>1, <2>2, <2>3, <2>4 DEF BaseInv
<1>7. CASE UNCHANGED vars
  <2>1. /\ Listed' = Listed /\ Tied' = Tied /\ LimitNum' = LimitNum
        /\ UNCHANGED <<client, watch>>
    BY <1>7 DEF vars, rows, client, Listed, Tied, LimitNum
  <2> QED
    BY <1>1, <2>1 DEF BaseInv, Reading, Quiet, client, watch
<1>8. Select => phase = "select"
  BY DEF Select
<1> QED
  BY <1>2, <1>3, <1>4, <1>5, <1>6, <1>7, <1>8, StepKinds, SelectStep

\* The variables keep their types: in particular what is shown, counted and
\* watched are payments that were in the table.
THEOREM Typing == Spec => []TypeOK
<1>1. BaseInv => TypeOK
  BY DEF BaseInv
<1> QED
  BY <1>1, BaseInvInit, BaseInvNext, PTL DEF Spec

-----------------------------------------------------------------------------
(***************************************************************************)
(* What a walk misses.                                                     *)
(***************************************************************************)

\* Payments that have matched all along, with a place of their own, are on a
\* page the client has left behind, and were not shown.
Missed ==
    {p \in steady \ unsure : Place(Listed, p) < Len(seen) /\ p \notin Shown}

MissInv ==
    request.walking =>
        /\ Reading => Cardinality(Missed) <= left
        /\ phase = "done" => Cardinality((steady \ unsure) \ Shown) <= left

LEMMA MissedType ==
    ASSUME TypeOK
    PROVE  IsFiniteSet(Missed) /\ Cardinality(Missed) \in Nat
<1>1. Missed \in SUBSET Payments
  BY DEF Missed, TypeOK
<1> QED
  BY <1>1, ParametersAssumption, FS_Subset, FS_CardinalityType

\* The same of the next state.
LEMMA MissedTypeNext ==
    ASSUME TypeOK'
    PROVE  IsFiniteSet(Missed') /\ Cardinality(Missed') \in Nat
<1>1. Missed' \in SUBSET Payments
  BY DEF Missed, TypeOK
<1> QED
  BY <1>1, ParametersAssumption, FS_Subset, FS_CardinalityType

\* A row that leaves, or moves, pulls one other back over the end of the last
\* page.
LEMMA MissedMoves ==
    ASSUME BaseInv, BaseInv', Around, Reading
    PROVE  Cardinality(Missed') <= Cardinality(Missed) + (left' - left)
<1>1. /\ TypeOK /\ TypeOK' /\ KeyType /\ Listed \in SUBSET Payments
      /\ steady \subseteq Listed /\ Tied \subseteq unsure
      /\ steady' \subseteq steady /\ steady' \subseteq Listed'
      /\ unsure' = unsure \union Tied' \union {p \in ever : key'[p] # key[p]}
      /\ left \in Nat /\ left' \in Nat /\ left <= left'
      /\ Len(seen) \in Nat /\ Listed' \in SUBSET Payments
  <2>1. /\ TypeOK /\ TypeOK' /\ steady \subseteq Listed
        /\ Tied \subseteq unsure
    BY DEF BaseInv
  <2>2. left \in Nat /\ Len(seen) \in Nat
    BY <2>1 DEF TypeOK
  <2>3. Listed \in SUBSET Payments /\ KeyType /\ Listed' \in SUBSET Payments
    BY <2>1, ListedType DEF Around
  <2> QED
    BY <2>1, <2>2, <2>3, WatchCounts
<1>2. /\ IsFiniteSet(Missed) /\ Cardinality(Missed) \in Nat
      /\ IsFiniteSet(Missed') /\ Cardinality(Missed') \in Nat
  BY <1>1, MissedType, MissedTypeNext
<1>3. Shown' = Shown /\ seen' = seen /\ request' = request
  BY DEF Around, client, Shown
<1>4. ASSUME NEW p \in Missed'
      PROVE  /\ p \in steady \ unsure /\ p \in Payments /\ p \notin Shown
             /\ p \in Listed' /\ key'[p] = key[p]
             /\ Place(Listed, p)' < Len(seen)
  <2>1. /\ p \in steady' \ unsure' /\ p \notin Shown
        /\ Place(Listed, p)' < Len(seen)
    BY <1>3 DEF Missed
  <2>2. p \in ever
    BY <1>1, <2>1 DEF TypeOK
  <2> QED
    BY <1>1, <2>1, <2>2
<1>5. ASSUME Listed' = Listed, key' = key
      PROVE  Cardinality(Missed') <= Cardinality(Missed) + (left' - left)
  <2>1. \A p : Place(Listed, p)' = Place(Listed, p')
    BY <1>3, <1>5 DEF Place, Before
  <2>2. Missed' \in SUBSET Missed
    BY <1>4, <2>1 DEF Missed
  <2> QED
    BY <1>1, <1>2, <2>2, FS_Subset
<1>6. ASSUME NEW x \in Payments, Touches(x)
      PROVE  Cardinality(Missed') <= Cardinality(Missed) + (left' - left)
  <2>1. ASSUME NEW p \in Missed'
        PROVE  /\ Place(Listed, p) \in Nat
               /\ \/ Place(Listed, p) < Len(seen)
                  \/ Place(Listed, p) = Len(seen) /\ x \in Going
    <3>1. /\ p \in Payments /\ key'[p] = key[p]
          /\ Place(Listed, p)' < Len(seen)
      BY <1>4
    <3>2. /\ Place(Listed, p) \in Nat /\ Place(Listed, p)' \in Nat
          /\ \/ Place(Listed, p)' = Place(Listed, p)
             \/ Place(Listed, p)' = Place(Listed, p) + 1
             \/ Place(Listed, p)' = Place(Listed, p) - 1 /\ x \in Going
      BY <1>1, <1>3, <1>6, <3>1, PlaceMoves
    <3> QED
      BY <1>1, <3>1, <3>2
  <2>2. ASSUME NEW p \in Missed', p \notin Missed
        PROVE  /\ p \in Listed /\ p \notin Tied /\ x \in Going
               /\ Place(Listed, p) = Len(seen)
    <3>1. ~(Place(Listed, p) < Len(seen))
      BY <1>4, <2>2 DEF Missed
    <3> QED
      BY <1>1, <1>4, <2>1, <3>1
  <2>3. ASSUME NEW p \in Missed' \ Missed, NEW q \in Missed' \ Missed
        PROVE  p = q
    <3>1. /\ p \in Listed /\ q \in Listed /\ p \notin Tied
          /\ Place(Listed, p) = Place(Listed, q)
      BY <2>2
    <3>2. key[p] = key[q]
      BY <1>1, <3>1, SamePlace
    <3> QED
      BY <3>1, <3>2 DEF Tied
  <2>4. CASE Missed' \ Missed = {}
    <3>1. Missed' \in SUBSET Missed
      BY <2>4
    <3> QED
      BY <1>1, <1>2, <3>1, FS_Subset
  <2>5. CASE Missed' \ Missed # {}
    <3>1. PICK p \in Missed' : p \notin Missed
      BY <2>5
    <3>2. left' >= left + 1
      <4>1. Going # {}
        BY <2>2, <3>1
      <4> QED
        BY <4>1, WatchCounts
    <3>3. Missed' \in SUBSET (Missed \union {p})
      BY <2>3, <3>1
    <3>4. /\ IsFiniteSet(Missed \union {p})
          /\ Cardinality(Missed \union {p}) = Cardinality(Missed) + 1
      BY <1>2, <3>1, FS_AddElement
    <3>5. Cardinality(Missed') <= Cardinality(Missed) + 1
      BY <3>3, <3>4, FS_Subset
    <3> QED
      BY <1>1, <1>2, <3>2, <3>5
  <2> QED
    BY <2>4, <2>5
<1>7. CASE Listed' = {}
  <2>1. Missed' = {}
    BY <1>4, <1>7
  <2>2. Cardinality(Missed') = 0
    BY <2>1, FS_EmptySet
  <2> QED
    BY <1>1, <1>2, <2>2
<1> QED
  BY <1>5, <1>6, <1>7 DEF Around

\* What a page shows is missed no more.
LEMMA MissedRead ==
    ASSUME BaseInv, MissInv, request.walking, Reading,
           NEW slice \in Seq(Listed), PageRead(slice)
    PROVE  /\ \A p \in steady \ unsure :
                p \notin Shown' /\ Place(Listed, p) < Len(seen) + LimitNum =>
                    p \in Missed
           /\ phase' = "done" => (steady \ unsure) \ Shown' \subseteq Missed
<1>1. /\ TypeOK /\ Listed \in SUBSET Payments /\ KeyType
      /\ steady \subseteq Listed /\ Tied \subseteq unsure
      /\ Len(seen) \in Nat /\ LimitNum \in Nat /\ Offset = Len(seen)
  <2>1. TypeOK /\ steady \subseteq Listed /\ Tied \subseteq unsure
    BY DEF BaseInv
  <2>2. Len(seen) \in Nat /\ LimitNum \in Nat
    BY <2>1, LimitType DEF TypeOK
  <2>3. Offset = Len(seen)
    BY DEF PageRead
  <2> QED
    BY <2>1, <2>2, <2>3, ListedType
<1>2. Len(slice) \in Nat /\ Len(seen') = Len(seen) + Len(slice)
  BY <1>1 DEF PageRead
<1>3. ASSUME NEW p \in steady \ unsure, p \notin Shown',
             Place(Listed, p) < Len(seen) + LimitNum
      PROVE  p \in Missed
  <2>1. p \in Listed \ Tied /\ Place(Listed, p) \in Nat
    <3>1. p \in Listed \ Tied /\ p \in Payments
      BY <1>1
    <3> QED
      BY <1>1, <3>1, PlaceType, Zenon
  <2>2. p \notin Shown
    <3>1. ASSUME NEW i \in 1 .. Len(seen)
          PROVE  seen[i] \in Shown'
      <4>1. i \in 1 .. Len(seen') /\ seen'[i] = seen[i]
        BY <1>1, <1>2 DEF PageRead
      <4> QED
        BY <4>1 DEF Shown
    <3> QED
      BY <1>3, <3>1 DEF Shown
  <2>3. CASE Len(seen) <= Place(Listed, p)
    <3>1. Place(Listed, p) \in Offset .. Offset + LimitNum - 1
      BY <1>1, <1>3, <2>1, <2>3
    <3>2. PICK i \in 1 .. Len(slice) : slice[i] = p
      BY <2>1, <3>1 DEF PageRead
    <3>3. seen'[Len(seen) + i] = p /\ Len(seen) + i \in 1 .. Len(seen')
      BY <1>1, <1>2, <3>2 DEF PageRead
    <3> QED
      BY <1>3, <3>3 DEF Shown
  <2> QED
    BY <1>1, <2>1, <2>2, <2>3 DEF Missed
<1>4. ASSUME phase' = "done", NEW p \in steady \ unsure, p \notin Shown'
      PROVE  p \in Missed
  <2>1. Cardinality(Listed) < Len(seen) + LimitNum
    BY <1>1, <1>4 DEF PageRead
  <2>2. p \in Listed /\ p \in Payments
    BY <1>1
  <2>3. /\ Place(Listed, p) \in Nat /\ Cardinality(Listed) \in Nat
        /\ Place(Listed, p) < Cardinality(Listed)
    BY <1>1, <2>2, PlaceType, Zenon
  <2> QED
    BY <1>1, <1>3, <1>4, <2>1, <2>3
<1> QED
  BY <1>3, <1>4

LEMMA MissInvNext == BaseInv /\ MissInv /\ [Next]_vars => MissInv'
<1> SUFFICES ASSUME BaseInv, MissInv, [Next]_vars, request'.walking
             PROVE  /\ Reading' => Cardinality(Missed') <= left'
                    /\ phase' = "done" =>
                         Cardinality((steady' \ unsure') \ Shown') <= left'
  BY DEF MissInv
<1>1. BaseInv' /\ TypeOK /\ TypeOK' /\ left \in Nat
  BY BaseInvNext DEF BaseInv, TypeOK
<1>2. CASE Ask
  <2>1. /\ phase' = "count" /\ Len(seen') = 0 /\ left' = 0
    BY <1>2 DEF Ask, BaseInv, Quiet
  <2>2. ASSUME NEW p \in Missed'
        PROVE  FALSE
    <3>1. p \in steady' /\ Place(Listed, p)' < 0
      BY <2>1 DEF Missed
    <3>2. p \in Payments /\ Listed \in SUBSET Payments /\ KeyType
      BY <1>1, <3>1, ListedType DEF TypeOK
    <3>3. Place(Listed, p)' = Place(Listed, p)
      BY <1>2 DEF Ask, rows, Place, Listed, Before
    <3>4. Place(Listed, p) \in Nat
      BY <3>2, PlaceType, Zenon
    <3> QED
      BY <3>1, <3>3, <3>4
  <2>3. Cardinality(Missed') = 0
    BY <2>2, FS_EmptySet
  <2> QED
    BY <2>1, <2>3
<1>3. CASE Count
  <2>1. /\ Reading /\ phase' = "select" /\ UNCHANGED <<rows, seen, watch>>
        /\ request' = request
    BY <1>3 DEF Count, Reading
  <2>2. Missed' = Missed /\ left' = left
    BY <2>1 DEF Missed, Place, Before, Listed, rows, Shown, watch
  <2> QED
    BY <2>1, <2>2 DEF MissInv
<1>4. ASSUME Select, NEW slice \in Seq(Listed), PageRead(slice)
      PROVE  /\ Reading' => Cardinality(Missed') <= left'
             /\ phase' = "done" =>
                  Cardinality((steady' \ unsure') \ Shown') <= left'
  <2>1. /\ Reading /\ request' = request /\ request.walking
        /\ steady' = steady /\ unsure' = unsure /\ left' = left
        /\ Listed' = Listed
    BY <1>4 DEF Select, PageRead, Reading, watch
  <2>2. Cardinality(Missed) <= left
    BY <2>1 DEF MissInv
  <2>3. /\ \A p \in steady \ unsure :
             p \notin Shown' /\ Place(Listed, p) < Len(seen) + LimitNum =>
                 p \in Missed
        /\ phase' = "done" => (steady \ unsure) \ Shown' \subseteq Missed
    BY <1>4, <2>1, MissedRead
  <2>4. IsFiniteSet(Missed) /\ Cardinality(Missed) \in Nat
    BY <1>1, MissedType
  <2>5. CASE phase' = "count"
    <3>1. Len(seen') = Len(seen) + LimitNum
      BY <1>4, <2>5 DEF PageRead
    <3>2. Missed' \in SUBSET Missed
      <4> SUFFICES ASSUME NEW p \in Missed'
                   PROVE  p \in Missed
        OBVIOUS
      <4>1. /\ p \in steady \ unsure /\ p \notin Shown'
            /\ Place(Listed, p)' < Len(seen')
        BY <2>1 DEF Missed
      <4>2. Place(Listed, p)' = Place(Listed, p)
        BY <1>4, <2>1 DEF PageRead, rows, Place, Before
      <4> QED
        BY <2>3, <3>1, <4>1, <4>2
    <3>3. /\ Cardinality(Missed') <= Cardinality(Missed)
          /\ Cardinality(Missed') \in Nat
      BY <1>1, <2>4, <3>2, FS_Subset, MissedTypeNext
    <3> QED
      BY <1>1, <2>1, <2>2, <2>4, <2>5, <3>3
  <2>6. CASE phase' = "done"
    <3> DEFINE rest == (steady' \ unsure') \ Shown'
    <3>1. rest \in SUBSET Missed
      BY <2>1, <2>3, <2>6
    <3> HIDE DEF rest
    <3>2. /\ Cardinality(rest) <= Cardinality(Missed)
          /\ Cardinality(rest) \in Nat
      BY <2>4, <3>1, FS_Subset, FS_CardinalityType
    <3>3. Cardinality(rest) <= left'
      BY <1>1, <2>1, <2>2, <2>4, <3>2
    <3> QED
      BY <2>6, <3>3 DEF Reading, rest
  <2> QED
    BY <1>4, <2>5, <2>6 DEF PageRead
<1>5. CASE phase' = "error"
  BY <1>5 DEF Reading
<1>6. CASE Around
  <2>1. /\ request.walking /\ phase' = phase /\ (Reading' <=> Reading)
        /\ Shown' = Shown
    BY <1>6 DEF Around, client, Reading, Shown
  <2>2. CASE Reading
    <3>1. /\ Cardinality(Missed') <= Cardinality(Missed) + (left' - left)
          /\ left' \in Nat
      BY <1>1, <1>6, <2>2, MissedMoves, WatchCounts DEF BaseInv
    <3>2. Cardinality(Missed) <= left
      BY <2>1, <2>2 DEF MissInv
    <3>3. Cardinality(Missed) \in Nat /\ Cardinality(Missed') \in Nat
      BY <1>1, MissedType, MissedTypeNext
    <3> QED
      BY <1>1, <2>1, <2>2, <3>1, <3>2, <3>3 DEF Reading
  <2>3. CASE ~Reading
    <3>1. steady' = steady /\ unsure' = unsure /\ left' = left
      BY <1>6, <2>3, WatchCounts DEF watch
    <3> QED
      BY <2>1, <2>3, <3>1 DEF MissInv
  <2> QED
    BY <2>2, <2>3
<1>7. CASE UNCHANGED vars
  <2>1. /\ UNCHANGED <<rows, client, watch>> /\ (Reading' <=> Reading)
    BY <1>7 DEF vars, client, Reading
  <2>2. /\ Missed' = Missed /\ Shown' = Shown /\ left' = left
        /\ steady' = steady /\ unsure' = unsure
    BY <2>1 DEF Missed, Place, Before, Listed, rows, client, Shown, watch
  <2> QED
    BY <2>1, <2>2 DEF MissInv, client
<1> QED
  BY <1>2, <1>3, <1>4, <1>5, <1>6, <1>7, StepKinds, SelectStep

\* MissesNeedLeavers: however many payments are created, change their status or
\* are seeded while a client walks through the listing, it misses at most one
\* that was there all along, in a place of its own, for each row that left or
\* moved.
THEOREM MissesAreLeavers == Spec => []MissesNeedLeavers
<1>1. BaseInv /\ MissInv => MissesNeedLeavers
  BY DEF MissInv, MissesNeedLeavers, Walked
<1>2. Init => MissInv
  BY DEF Init, MissInv, Reading
<1> QED
  BY <1>1, <1>2, BaseInvInit, BaseInvNext, MissInvNext, PTL DEF Spec

-----------------------------------------------------------------------------
(***************************************************************************)
(* What a walk shows again.                                                *)
(***************************************************************************)

\* A payment that was shown, in a place of its own, is no further behind the
\* index it was shown at than rows have joined since the walk began; if it has
\* left the listing, it would come back there.  One that is shown again is
\* behind what was read.
RepeatInv ==
    request.walking =>
        /\ Reading =>
             \A i \in 1 .. Len(seen) :
                 seen[i] \notin unsure =>
                     Place(Listed, seen[i]) <= i - 1 + joined
        /\ Reading \/ phase = "done" =>
             \A i, j \in 1 .. Len(seen) :
                 seen[i] = seen[j] /\ seen[i] \notin unsure => i - j <= joined

\* A row that joins pushes each that was shown back by one place at most.
LEMMA ShownMove ==
    ASSUME BaseInv, Around, Reading, NEW i \in 1 .. Len(seen),
           seen[i] \notin unsure',
           seen[i] \notin unsure => Place(Listed, seen[i]) <= i - 1 + joined
    PROVE  Place(Listed, seen[i])' <= i - 1 + joined'
<1> DEFINE p == seen[i]
<1>1. /\ TypeOK /\ p \in Shown /\ seen' = seen /\ request' = request
  BY DEF BaseInv, Shown, Around, client
<1>2. /\ joined \in Nat /\ joined' \in Nat /\ joined <= joined' /\ i \in Nat
      /\ p \in ever /\ p \in Payments
  <2>1. joined \in Nat /\ Len(seen) \in Nat /\ p \in ever /\ p \in Payments
    BY <1>1, ListedType DEF TypeOK
  <2> QED
    BY <2>1, WatchCounts
<1>3. p \notin unsure' /\ Place(Listed, seen[i])' = Place(Listed, p)'
  BY <1>1
<1>4. p \notin unsure => Place(Listed, p) <= i - 1 + joined
  OBVIOUS
<1> HIDE DEF p
<1>5. key'[p] = key[p] /\ p \notin unsure
  BY <1>2, <1>3, WatchCounts
<1>6. Place(Listed, p) \in Nat
  <2>1. Listed \in SUBSET Payments /\ KeyType
    BY <1>1, ListedType
  <2> QED
    BY <1>2, <2>1, PlaceType, Zenon
<1>7. ASSUME Listed' = Listed, key' = key
      PROVE  Place(Listed, p)' <= i - 1 + joined'
  <2>1. Place(Listed, p)' = Place(Listed, p)
    BY <1>1, <1>7 DEF Place, Before, p
  <2> QED
    BY <1>2, <1>4, <1>5, <1>6, <2>1
<1>8. ASSUME NEW x \in Payments, Touches(x)
      PROVE  Place(Listed, p)' <= i - 1 + joined'
  <2>1. Listed' \in SUBSET Payments
    BY DEF Around
  <2>2. p' = p
    BY <1>1 DEF p
  <2>3. /\ Place(Listed, p)' \in Nat
        /\ \/ Place(Listed, p)' = Place(Listed, p)
           \/ Place(Listed, p)' = Place(Listed, p) + 1 /\ x \in Coming
           \/ Place(Listed, p)' = Place(Listed, p) - 1
    BY <1>1, <1>2, <1>5, <1>8, <2>1, <2>2, PlaceMoves
  <2>4. x \in Coming => joined' >= joined + 1
    BY WatchCounts
  <2> QED
    BY <1>2, <1>4, <1>5, <1>6, <2>3, <2>4
<1>9. ASSUME Listed' = {}
      PROVE  Place(Listed, p)' <= i - 1 + joined'
  <2>1. Place(Listed, p)' = Cardinality({})
    BY <1>9 DEF Place
  <2> QED
    BY <1>2, <2>1, FS_EmptySet
<1> QED
  BY <1>3, <1>7, <1>8, <1>9 DEF Around

LEMMA RepeatInvNext == BaseInv /\ RepeatInv /\ [Next]_vars => RepeatInv'
<1> SUFFICES ASSUME BaseInv, RepeatInv, [Next]_vars, request'.walking
             PROVE  /\ Reading' =>
                         \A i \in 1 .. Len(seen') :
                             seen'[i] \notin unsure' =>
                                 Place(Listed, seen[i])' <= i - 1 + joined'
                    /\ Reading' \/ phase' = "done" =>
                         \A i, j \in 1 .. Len(seen') :
                             seen'[i] = seen'[j] /\ seen'[i] \notin unsure' =>
                                 i - j <= joined'
  BY DEF RepeatInv
<1>1. TypeOK /\ joined \in Nat /\ Len(seen) \in Nat
  <2>1. TypeOK
    BY DEF BaseInv
  <2> QED
    BY <2>1 DEF TypeOK
<1>2. CASE Ask
  <2>1. 1 .. Len(seen') = {}
    BY <1>2 DEF Ask, BaseInv
  <2> QED
    BY <2>1
<1>3. CASE Count \/ UNCHANGED vars
  <2>1. /\ request' = request /\ UNCHANGED <<rows, seen, watch>>
        /\ Listed' = Listed
        /\ Reading' => Reading
        /\ phase' = "done" => phase = "done"
    BY <1>3 DEF Count, Reading, rows, Listed, vars, client
  <2>2. \A p : Place(Listed, p)' = Place(Listed, p')
    BY <2>1 DEF rows, Place, Before
  <2> QED
    BY <2>1, <2>2 DEF RepeatInv, watch
<1>4. ASSUME Select, NEW slice \in Seq(Listed), PageRead(slice)
      PROVE  /\ \A i \in 1 .. Len(seen') :
                  seen'[i] \notin unsure' =>
                      Place(Listed, seen[i])' <= i - 1 + joined'
             /\ \A i, j \in 1 .. Len(seen') :
                  seen'[i] = seen'[j] /\ seen'[i] \notin unsure' =>
                      i - j <= joined'
  <2>1. /\ Reading /\ request' = request /\ joined' = joined
        /\ unsure' = unsure /\ Listed' = Listed /\ request.walking
        /\ Offset = Len(seen)
        /\ Len(slice) \in Nat /\ Len(seen') = Len(seen) + Len(slice)
        /\ Tied \subseteq unsure
    <3>1. LimitNum \in Nat
      BY <1>1, LimitType DEF TypeOK
    <3> QED
      BY <1>4, <3>1 DEF Select, PageRead, Reading, watch, BaseInv
  <2>2. /\ \A i \in 1 .. Len(seen) :
             seen[i] \notin unsure =>
                 Place(Listed, seen[i]) <= i - 1 + joined
        /\ \A i, j \in 1 .. Len(seen) :
             seen[i] = seen[j] /\ seen[i] \notin unsure => i - j <= joined
    BY <2>1 DEF RepeatInv
  <2>3. \A i \in 1 .. Len(seen) : seen'[i] = seen[i]
    BY <1>4 DEF PageRead
  <2>4. ASSUME NEW i \in 1 .. Len(seen'), i \notin 1 .. Len(seen),
               seen'[i] \notin unsure
        PROVE  Place(Listed, seen'[i]) = i - 1
    <3>1. i - Len(seen) \in 1 .. Len(slice)
      BY <1>1, <2>1, <2>4
    <3>2. PICK k \in 1 .. Len(slice) : i = Len(seen) + k
      <4>1. i = Len(seen) + (i - Len(seen))
        BY <1>1, <2>1
      <4> QED
        BY <3>1, <4>1, Zenon
    <3>3. /\ seen'[Len(seen) + k] = slice[k]
          /\ slice[k] \notin Tied => Place(Listed, slice[k]) = Offset + k - 1
      BY <1>4 DEF PageRead
    <3>4. seen'[i] = slice[k]
      BY <3>2, <3>3
    <3>5. Place(Listed, slice[k]) = Offset + k - 1
      BY <2>1, <2>4, <3>3, <3>4
    <3> QED
      BY <1>1, <2>1, <3>2, <3>4, <3>5
  <2>5. \A i \in 1 .. Len(seen') :
          seen'[i] \notin unsure => Place(Listed, seen'[i]) <= i - 1 + joined
    <3> SUFFICES ASSUME NEW i \in 1 .. Len(seen'), seen'[i] \notin unsure
                 PROVE  Place(Listed, seen'[i]) <= i - 1 + joined
      OBVIOUS
    <3>1. CASE i \in 1 .. Len(seen)
      BY <2>2, <2>3, <3>1
    <3>2. CASE i \notin 1 .. Len(seen)
      BY <1>1, <2>1, <2>4, <3>2
    <3> QED
      BY <3>1, <3>2
  <2>6. \A i, j \in 1 .. Len(seen') :
          seen'[i] = seen'[j] /\ seen'[i] \notin unsure => i - j <= joined
    <3> SUFFICES ASSUME NEW i \in 1 .. Len(seen'), NEW j \in 1 .. Len(seen'),
                        seen'[i] = seen'[j], seen'[i] \notin unsure
                 PROVE  i - j <= joined
      OBVIOUS
    <3>1. CASE i \in 1 .. Len(seen) /\ j \in 1 .. Len(seen)
      BY <2>2, <2>3, <3>1
    <3>2. CASE i \in 1 .. Len(seen) /\ j \notin 1 .. Len(seen)
      BY <1>1, <2>1, <3>2
    <3>3. CASE i \notin 1 .. Len(seen)
      <4>1. Place(Listed, seen'[j]) = i - 1
        BY <2>4, <3>3
      <4>2. Place(Listed, seen'[j]) <= j - 1 + joined
        BY <2>5
      <4> QED
        BY <1>1, <2>1, <4>1, <4>2
    <3> QED
      BY <3>1, <3>2, <3>3
  <2>7. \A i : Place(Listed, seen[i])' = Place(Listed, seen'[i'])
    BY <1>4, <2>1 DEF PageRead, rows, Place, Before
  <2> QED
    BY <2>1, <2>5, <2>6, <2>7
<1>5. CASE phase' = "error"
  BY <1>5 DEF Reading
<1>6. CASE Around
  <2>1. /\ request.walking /\ phase' = phase /\ (Reading' <=> Reading)
        /\ seen' = seen /\ phase # "done"
        /\ joined' \in Nat /\ joined <= joined'
    BY <1>6, WatchCounts DEF Around, client, Reading
  <2>2. Reading => unsure \subseteq unsure'
    BY <1>6, WatchCounts
  <2>3. ASSUME Reading, NEW i \in 1 .. Len(seen), seen[i] \notin unsure'
        PROVE  Place(Listed, seen[i])' <= i - 1 + joined'
    <3>1. seen[i] \notin unsure => Place(Listed, seen[i]) <= i - 1 + joined
      BY <2>1, <2>3 DEF RepeatInv
    <3> QED
      BY <1>6, <2>3, <3>1, ShownMove
  <2>4. ASSUME Reading, NEW i \in 1 .. Len(seen), NEW j \in 1 .. Len(seen),
               seen[i] = seen[j], seen[i] \notin unsure'
        PROVE  i - j <= joined'
    <3>1. i - j <= joined
      BY <2>1, <2>2, <2>4 DEF RepeatInv
    <3> QED
      BY <1>1, <2>1, <3>1
  <2> QED
    BY <2>1, <2>3, <2>4
<1> QED
  BY <1>2, <1>3, <1>4, <1>5, <1>6, StepKinds, SelectStep

\* RepeatsNeedArrivals: a payment that a walk shows again, in a place of its
\* own, was pushed over the end of a page, and stands at most as many rows later
\* as rows joined or moved.
THEOREM RepeatsAreArrivals == Spec => []RepeatsNeedArrivals
<1>1. BaseInv /\ RepeatInv => RepeatsNeedArrivals
  BY DEF RepeatInv, RepeatsNeedArrivals, Walked
<1>2. Init => RepeatInv
  BY DEF Init, RepeatInv, Reading
<1> QED
  BY <1>1, <1>2, BaseInvInit, BaseInvNext, RepeatInvNext, PTL DEF Spec

-----------------------------------------------------------------------------
(***************************************************************************)
(* What the total is worth.                                                *)
(***************************************************************************)

\* What was shown was in the listing, and what was counted is, but for rows that
\* joined or left since.
TotalsInv ==
    request.walking =>
        /\ Reading => Len(seen) <= Cardinality(Listed) + left
        /\ phase = "select" =>
             /\ total <= Cardinality(Listed) + left
             /\ Cardinality(Listed) <= total + joined
        /\ phase = "done" =>
             /\ total - left <= Len(seen)
             /\ Len(seen) <= total + joined + left

\* The listing grows and shrinks by the rows that come and go.
LEMMA ListingMoves ==
    ASSUME BaseInv, Around, Reading
    PROVE  /\ Cardinality(Listed) \in Nat /\ Cardinality(Listed') \in Nat
           /\ joined \in Nat /\ joined' \in Nat
           /\ left \in Nat /\ left' \in Nat
           /\ Cardinality(Listed') <= Cardinality(Listed) + (joined' - joined)
           /\ Cardinality(Listed) <= Cardinality(Listed') + (left' - left)
<1>1. /\ IsFiniteSet(Listed) /\ IsFiniteSet(Listed')
      /\ IsFiniteSet(Coming) /\ IsFiniteSet(Going)
      /\ joined \in Nat /\ joined' \in Nat /\ left \in Nat /\ left' \in Nat
      /\ joined' = joined + Cardinality(Coming)
      /\ left' = left + Cardinality(Going)
  <2>1. TypeOK
    BY DEF BaseInv
  <2>2. IsFiniteSet(Listed) /\ joined \in Nat /\ left \in Nat
    BY <2>1, ListedType DEF TypeOK
  <2>3. IsFiniteSet(Listed')
    BY ParametersAssumption, FS_Subset DEF Around
  <2> QED
    BY <2>2, <2>3, WatchCounts
<1>2. \A S, T, E : IsFiniteSet(S) /\ IsFiniteSet(E) /\ T \subseteq S \union E =>
                     Cardinality(T) <= Cardinality(S) + Cardinality(E)
  <2> SUFFICES ASSUME NEW S, NEW T, NEW E, IsFiniteSet(S), IsFiniteSet(E),
                      T \subseteq S \union E
               PROVE  Cardinality(T) <= Cardinality(S) + Cardinality(E)
    OBVIOUS
  <2>1. /\ IsFiniteSet(S \union E) /\ IsFiniteSet(S \intersect E)
        /\ Cardinality(S \union E)
             = Cardinality(S) + Cardinality(E) - Cardinality(S \intersect E)
    BY FS_Union, FS_Intersection
  <2>2. IsFiniteSet(T) /\ Cardinality(T) <= Cardinality(S \union E)
    BY <2>1, FS_Subset
  <2>3. /\ Cardinality(S) \in Nat /\ Cardinality(E) \in Nat
        /\ Cardinality(S \intersect E) \in Nat /\ Cardinality(T) \in Nat
    BY <2>1, <2>2, FS_CardinalityType
  <2> QED
    BY <2>1, <2>2, <2>3
<1>3. Listed' \subseteq Listed \union Coming
  BY DEF Coming
<1>4. Listed \subseteq Listed' \union Going
  BY DEF Going
<1>5. Cardinality(Listed') <= Cardinality(Listed) + Cardinality(Coming)
  BY <1>1, <1>2, <1>3
<1>6. Cardinality(Listed) <= Cardinality(Listed') + Cardinality(Going)
  BY <1>1, <1>2, <1>4
<1>7. /\ Cardinality(Listed) \in Nat /\ Cardinality(Listed') \in Nat
      /\ Cardinality(Coming) \in Nat /\ Cardinality(Going) \in Nat
  BY <1>1, FS_CardinalityType
<1> QED
  BY <1>1, <1>5, <1>6, <1>7

\* A bound and one that moves with the listing.
LEMMA Chained ==
    ASSUME NEW size \in Int, NEW n \in Int, NEW m \in Int, NEW a \in Int,
           NEW b \in Int
    PROVE  /\ size <= n + a /\ n <= m + (b - a) => size <= m + b
           /\ n <= size + a /\ m <= n + (b - a) => m <= size + b
OBVIOUS

LEMMA TotalsInvNext == BaseInv /\ TotalsInv /\ [Next]_vars => TotalsInv'
<1> SUFFICES ASSUME BaseInv, TotalsInv, [Next]_vars, request'.walking
             PROVE  /\ Reading' => Len(seen') <= Cardinality(Listed') + left'
                    /\ phase' = "select" =>
                         /\ total' <= Cardinality(Listed') + left'
                         /\ Cardinality(Listed') <= total' + joined'
                    /\ phase' = "done" =>
                         /\ total' - left' <= Len(seen')
                         /\ Len(seen') <= total' + joined' + left'
  BY DEF TotalsInv
<1>1. /\ TypeOK /\ joined \in Nat /\ left \in Nat /\ Len(seen) \in Nat
      /\ total \in Nat /\ Cardinality(Listed) \in Nat
  <2>1. TypeOK
    BY DEF BaseInv
  <2>2. IsFiniteSet(ever)
    BY <2>1, ParametersAssumption, FS_Subset DEF TypeOK
  <2>3. Cardinality(ever) \in Nat
    BY <2>2, FS_CardinalityType
  <2> QED
    BY <2>1, <2>3, ListedType DEF TypeOK
<1>2. CASE Ask
  <2>1. /\ Listed' = Listed /\ Len(seen') = 0 /\ left' = left
        /\ phase' = "count"
    BY <1>2 DEF Ask, BaseInv, rows, Listed
  <2> QED
    BY <1>1, <2>1
<1>3. CASE Count
  <2>1. /\ Listed' = Listed /\ UNCHANGED <<request, seen, joined, left>>
        /\ phase' = "select" /\ Reading /\ total' = Cardinality(Listed)
    BY <1>3 DEF Count, rows, watch, Listed, Reading
  <2> QED
    BY <1>1, <2>1 DEF TotalsInv
<1>4. ASSUME Select, NEW slice \in Seq(Listed), PageRead(slice)
      PROVE  /\ phase' = "count" =>
                  Len(seen') <= Cardinality(Listed') + left'
             /\ phase' = "done" =>
                  /\ total' - left' <= Len(seen')
                  /\ Len(seen') <= total' + joined' + left'
             /\ phase' \in {"count", "done"}
  <2>1. /\ phase = "select" /\ Reading /\ request.walking
        /\ UNCHANGED <<total, joined, left>> /\ Listed' = Listed
    BY <1>4 DEF Select, PageRead, watch, Reading
  <2>2. /\ Len(seen) <= Cardinality(Listed) + left
        /\ total <= Cardinality(Listed) + left
        /\ Cardinality(Listed) <= total + joined
    BY <2>1 DEF TotalsInv
  <2>3. LimitNum \in Nat \ {0}
    BY <1>1, LimitType DEF TypeOK
  <2>4. /\ Len(slice) \in 0 .. LimitNum
        /\ Len(seen') = Len(seen) + Len(slice)
        /\ Offset = Len(seen)
        /\ Len(slice) > 0 => Offset + Len(slice) <= Cardinality(Listed)
        /\ Len(slice) < LimitNum /\ Offset <= Cardinality(Listed) =>
             Offset + Len(slice) = Cardinality(Listed)
        /\ \/ phase' = "count" /\ Len(slice) = LimitNum
           \/ phase' = "done" /\ Len(slice) < LimitNum
    BY <1>4, <2>1 DEF PageRead
  <2> QED
    BY <1>1, <2>1, <2>2, <2>3, <2>4
<1>5. CASE phase' = "error"
  BY <1>5 DEF Reading
<1>6. CASE Around
  <2>1. /\ request.walking /\ phase' = phase /\ (Reading' <=> Reading)
        /\ seen' = seen /\ total' = total /\ phase # "done"
    BY <1>6 DEF Around, client, Reading
  <2>2. CASE Reading
    <3> DEFINE n == Cardinality(Listed)
               m == Cardinality(Listed')
               size == Len(seen)
    <3>1. /\ n \in Int /\ m \in Int /\ size \in Int /\ total \in Int
          /\ joined \in Int /\ joined' \in Int
          /\ left \in Int /\ left' \in Int
      BY <1>1, <1>6, <2>2, ListingMoves
    <3>2. m <= n + (joined' - joined) /\ n <= m + (left' - left)
      BY <1>6, <2>2, ListingMoves
    <3>3. size <= n + left
      BY <2>1, <2>2 DEF TotalsInv
    <3>4. phase = "select" => total <= n + left /\ n <= total + joined
      BY <2>1, <2>2 DEF TotalsInv
    <3> HIDE DEF n, m, size
    <3>5. size <= m + left'
      BY <3>1, <3>2, <3>3, Chained
    <3>6. ASSUME phase = "select"
          PROVE  total <= m + left' /\ m <= total + joined'
      <4>1. total <= n + left /\ n <= total + joined
        BY <3>4, <3>6
      <4>2. total <= m + left'
        BY <3>1, <3>2, <4>1, Chained
      <4>3. m <= total + joined'
        BY <3>1, <3>2, <4>1, Chained
      <4> QED
        BY <4>2, <4>3
    <3> QED
      BY <2>1, <3>5, <3>6 DEF m, size
  <2>3. CASE ~Reading
    BY <2>1, <2>3 DEF Reading
  <2> QED
    BY <2>2, <2>3
<1>7. CASE UNCHANGED vars
  <2>1. Listed' = Listed /\ UNCHANGED <<client, watch>>
    BY <1>7 DEF vars, rows, Listed
  <2> QED
    BY <2>1 DEF TotalsInv, Reading, client, watch
<1>8. phase' \in {"count", "done"} => phase' # "select"
  OBVIOUS
<1> QED
  BY <1>2, <1>3, <1>4, <1>5, <1>6, <1>7, <1>8, StepKinds, SelectStep
     DEF Reading

\* TotalsNeedMoves: what a walk has shown differs from the last total by no more
\* rows than joined and left the listing, whichever order ties were shown in.
THEOREM TotalsAreClose == Spec => []TotalsNeedMoves
<1>1. BaseInv /\ TotalsInv => TotalsNeedMoves
  BY DEF TotalsInv, TotalsNeedMoves, Walked
<1>2. Init => TotalsInv
  BY DEF Init, TotalsInv, Reading
<1> QED
  BY <1>1, <1>2, BaseInvInit, BaseInvNext, TotalsInvNext, PTL DEF Spec

-----------------------------------------------------------------------------
(***************************************************************************)
(* A listing that stays as it is.                                          *)
(***************************************************************************)

\* Each row that was shown has matched all along, and has neither more rows
\* before it nor more behind it than its index has.
WalkExact ==
    \A i \in 1 .. Len(seen) :
        /\ seen[i] \in steady
        /\ Place(steady, seen[i]) <= i - 1
        /\ After(steady, seen[i]) <= Cardinality(steady) - i

\* Of the payments with a place of their own, the answer is those with the
\* places of the page.
PageExact ==
    LET first == (PageNum - 1) * LimitNum
        sure == steady \ unsure IN
    first < Half =>
        Shown \intersect sure =
          {p \in sure : Place(steady, p) \in first .. first + LimitNum - 1}

QuietInv ==
    Quiet =>
        /\ request.walking /\ (Reading \/ phase = "done") => WalkExact
        /\ phase \in {"select", "done"} => total = Cardinality(steady)
        /\ phase = "done" /\ request.walking => Len(seen) = Cardinality(steady)
        /\ phase = "done" /\ ~request.walking => PageExact

LEMMA ExactStays ==
    ASSUME UNCHANGED <<request, seen, steady>>, WalkExact,
           \A p \in steady : key'[p] = key[p]
    PROVE  WalkExact'
<1>1. ASSUME NEW i \in 1 .. Len(seen)
      PROVE  /\ Place(steady, seen[i])' = Place(steady, seen[i])
             /\ After(steady, seen[i])' = After(steady, seen[i])
  <2> DEFINE p == seen[i]
  <2>1. p \in steady /\ p' = p /\ request' = request /\ steady' = steady
    BY <1>1 DEF WalkExact
  <2> HIDE DEF p
  <2>2. \A q \in steady : /\ Before(q, p)' <=> Before(q, p)
                          /\ Before(p, q)' <=> Before(p, q)
    BY <2>1 DEF Before
  <2>3. /\ {q \in steady' : Before(q, p)'} = {q \in steady : Before(q, p)}
        /\ {q \in steady' : Before(p, q)'} = {q \in steady : Before(p, q)}
    BY <2>1, <2>2
  <2>4. /\ Place(steady, p)' = Place(steady, p)
        /\ After(steady, p)' = After(steady, p)
    BY <2>3, Zenon DEF Place, After
  <2> QED
    BY <2>4 DEF p
<1> QED
  BY <1>1 DEF WalkExact

\* A walk reads on where the last page ended.
LEMMA QuietWalk ==
    ASSUME BaseInv, WalkExact, steady = Listed, request.walking,
           NEW slice \in Seq(Listed), PageRead(slice)
    PROVE  /\ WalkExact'
           /\ phase' = "done" => Len(seen') = Cardinality(steady')
<1>1. /\ request' = request /\ steady' = steady /\ Offset = Len(seen)
      /\ Len(seen') = Len(seen) + Len(slice) /\ UNCHANGED rows
  BY DEF PageRead, watch
<1>2. /\ Listed \in SUBSET Payments /\ Cardinality(Listed) \in Nat /\ KeyType
      /\ Len(seen) \in Nat /\ Len(slice) \in Nat
  <2>1. TypeOK
    BY DEF BaseInv
  <2>2. LimitNum \in Nat /\ Len(seen) \in Nat
    BY <2>1, LimitType DEF TypeOK
  <2> QED
    BY <2>1, <2>2, ListedType DEF PageRead
<1>3. ASSUME NEW i \in 1 .. Len(seen')
      PROVE  /\ seen'[i] \in steady
             /\ Place(steady, seen'[i]) <= i - 1
             /\ After(steady, seen'[i]) <= Cardinality(steady) - i
  <2>1. CASE i \in 1 .. Len(seen)
    <3>1. seen'[i] = seen[i]
      BY <2>1 DEF PageRead
    <3> QED
      BY <2>1, <3>1 DEF WalkExact
  <2>2. CASE i \notin 1 .. Len(seen)
    <3>1. i - Len(seen) \in 1 .. Len(slice)
      BY <1>1, <1>2, <2>2
    <3>2. PICK k \in 1 .. Len(slice) : i = Len(seen) + k
      <4>1. i = Len(seen) + (i - Len(seen))
        BY <1>1, <1>2
      <4> QED
        BY <3>1, <4>1, Zenon
    <3>3. /\ seen'[Len(seen) + k] = slice[k] /\ slice[k] \in Listed
          /\ Place(Listed, slice[k]) <= Offset + k - 1
          /\ After(Listed, slice[k]) <= Cardinality(Listed) - (Offset + k)
      BY DEF PageRead
    <3>4. seen'[i] = slice[k] /\ Offset + k = i
      BY <1>1, <3>2, <3>3
    <3>5. /\ Place(Listed, slice[k]) <= i - 1
          /\ After(Listed, slice[k]) <= Cardinality(Listed) - i
      <4> DEFINE ahead == Place(Listed, slice[k])
                 behind == After(Listed, slice[k])
                 n == Cardinality(Listed)
      <4>1. slice[k] \in Payments
        BY <1>2, <3>3
      <4>2. ahead \in Nat /\ behind \in Nat /\ n \in Nat
        BY <1>2, <4>1, PlaceType, Zenon
      <4>3. ahead <= Offset + k - 1 /\ behind <= n - (Offset + k)
        BY <3>3, Zenon
      <4>4. Offset \in Int /\ k \in Int /\ i \in Int
        BY <1>1, <1>2
      <4> HIDE DEF ahead, behind, n
      <4>5. ahead <= i - 1 /\ behind <= n - i
        BY <3>4, <4>2, <4>3, <4>4
      <4> QED
        BY <4>5, Zenon DEF ahead, behind, n
    <3> QED
      BY <3>3, <3>4, <3>5, Zenon
  <2> QED
    BY <2>1, <2>2
<1>4. WalkExact'
  <2>1. \A i : /\ Place(steady, seen[i])' = Place(steady, seen'[i'])
               /\ After(steady, seen[i])' = After(steady, seen'[i'])
    BY <1>1 DEF rows, Place, After, Before
  <2> QED
    BY <1>1, <1>3, <2>1 DEF WalkExact
<1>5. Len(seen) <= Cardinality(Listed)
  <2>1. CASE Len(seen) = 0
    BY <1>2, <2>1
  <2>2. CASE Len(seen) # 0
    <3> DEFINE n == Len(seen)
               p == seen[n]
    <3>1. n \in 1 .. Len(seen)
      BY <1>2, <2>2
    <3>2. /\ p \in Listed /\ p \in Payments
          /\ After(Listed, p) <= Cardinality(Listed) - n
      BY <1>2, <3>1 DEF WalkExact
    <3> HIDE DEF p
    <3>3. After(Listed, p) \in Nat
      BY <1>2, <3>2, PlaceType, Zenon
    <3> QED
      BY <1>2, <3>2, <3>3
  <2> QED
    BY <2>1, <2>2
<1>6. ASSUME phase' = "done"
      PROVE  Len(seen') = Cardinality(steady')
  <2>1. Offset <= Cardinality(Listed) =>
          Offset + Len(slice) = Cardinality(Listed)
    BY <1>6 DEF PageRead
  <2> QED
    BY <1>1, <1>5, <2>1
<1> QED
  BY <1>4, <1>6

\* A page that is asked for by its number, within an int.
LEMMA QuietPage ==
    ASSUME BaseInv, steady = Listed, ~request.walking, phase = "select",
           NEW slice \in Seq(Listed), PageRead(slice)
    PROVE  PageExact'
<1> DEFINE first == (PageNum - 1) * LimitNum
           sure == Listed \ unsure
<1>1. /\ request' = request /\ page' = page /\ steady' = steady
      /\ unsure' = unsure /\ UNCHANGED rows /\ seen = << >> /\ TypeOK
      /\ Tied \subseteq unsure
  BY DEF PageRead, watch, BaseInv, Reading
<1>2. PageNum' = PageNum /\ LimitNum' = LimitNum
  BY <1>1 DEF PageNum, LimitNum
<1>3. /\ first \in Nat /\ (first < Half => Offset = first)
  BY <1>1, OffsetOf DEF TypeOK
<1>4. Half' = Half
  BY DEF Half
<1>5. LimitNum \in Nat /\ Listed \in SUBSET Payments
  BY <1>1, LimitType, ListedType DEF TypeOK
<1>6. /\ Len(seen) = 0 /\ Len(slice) \in Nat /\ Len(slice) <= LimitNum
      /\ Len(seen') = Len(slice)
  <2>1. Len(seen) = 0
    BY <1>1
  <2>2. Len(slice) \in 0 .. LimitNum /\ Len(seen') = Len(seen) + Len(slice)
    BY DEF PageRead
  <2> QED
    BY <1>5, <2>1, <2>2
<1>7. \A i \in 1 .. Len(slice) :
        /\ seen'[i] = slice[i] /\ slice[i] \in Listed
        /\ slice[i] \notin Tied => Place(Listed, slice[i]) = Offset + i - 1
  <2> TAKE i \in 1 .. Len(slice)
  <2>1. /\ seen'[Len(seen) + i] = slice[i] /\ slice[i] \in Listed
        /\ slice[i] \notin Tied => Place(Listed, slice[i]) = Offset + i - 1
    BY DEF PageRead
  <2>2. Len(seen) + i = i
    BY <1>6
  <2> QED
    BY <2>1, <2>2
<1>8. Shown' = {slice[i] : i \in 1 .. Len(slice)}
  BY <1>6, <1>7 DEF Shown
<1>9. ASSUME Offset = first
      PROVE  Shown' \intersect sure =
               {p \in sure : Place(Listed, p) \in first .. first + LimitNum - 1}
  <2>1. ASSUME NEW i \in 1 .. Len(slice), slice[i] \in sure
        PROVE  Place(Listed, slice[i]) \in first .. first + LimitNum - 1
    <3>1. slice[i] \notin Tied
      BY <1>1, <2>1
    <3> HIDE DEF first, sure
    <3>2. Place(Listed, slice[i]) = first + i - 1
      BY <1>7, <1>9, <3>1
    <3> QED
      BY <1>3, <1>5, <1>6, <3>2
  <2>2. ASSUME NEW p \in sure,
               Place(Listed, p) \in first .. first + LimitNum - 1
        PROVE  \E i \in 1 .. Len(slice) : slice[i] = p
    <3>1. p \in Listed \ Tied
      BY <1>1
    <3> QED
      BY <1>9, <2>2, <3>1 DEF PageRead
  <2> HIDE DEF first, sure
  <2> QED
    BY <1>8, <2>1, <2>2
<1>10. \A p : Place(steady, p)' = Place(Listed, p')
  BY <1>1 DEF rows, Place, Before
<1>11. first < Half =>
         Shown' \intersect sure =
           {p \in sure : Place(Listed, p) \in first .. first + LimitNum - 1}
  BY <1>3, <1>9
<1> QED
  BY <1>1, <1>2, <1>4, <1>10, <1>11 DEF PageExact

LEMMA QuietInvNext == BaseInv /\ QuietInv /\ [Next]_vars => QuietInv'
<1> SUFFICES ASSUME BaseInv, QuietInv, [Next]_vars, Quiet'
             PROVE  /\ request'.walking /\ (Reading' \/ phase' = "done") =>
                         WalkExact'
                    /\ phase' \in {"select", "done"} =>
                         total' = Cardinality(steady')
                    /\ phase' = "done" /\ request'.walking =>
                         Len(seen') = Cardinality(steady')
                    /\ phase' = "done" /\ ~request'.walking => PageExact'
  BY DEF QuietInv
<1>1. CASE Ask
  <2>1. seen' = << >> /\ phase' = "count"
    BY <1>1 DEF Ask, BaseInv
  <2>2. WalkExact'
    <3>1. 1 .. Len(seen') = {}
      BY <2>1
    <3> QED
      BY <3>1 DEF WalkExact
  <2> QED
    BY <2>1, <2>2
<1>2. CASE Count
  <2>1. /\ UNCHANGED <<request, seen, steady, key>> /\ Quiet /\ Reading
        /\ phase' = "select" /\ total' = Cardinality(Listed)
    BY <1>2 DEF Count, rows, watch, Quiet, Reading
  <2>2. steady = Listed
    BY <2>1 DEF BaseInv
  <2>3. request.walking => WalkExact'
    BY <2>1, ExactStays DEF QuietInv
  <2> QED
    BY <2>1, <2>2, <2>3
<1>3. ASSUME Select, NEW slice \in Seq(Listed), PageRead(slice)
      PROVE  /\ request'.walking => WalkExact'
             /\ total' = Cardinality(steady')
             /\ phase' = "done" /\ request'.walking =>
                  Len(seen') = Cardinality(steady')
             /\ ~request'.walking => PageExact'
  <2>1. /\ Quiet /\ Reading /\ phase = "select" /\ request' = request
        /\ total' = total /\ steady' = steady
    BY <1>3 DEF Select, PageRead, watch, Quiet, Reading
  <2>2. steady = Listed /\ total = Cardinality(steady)
    BY <2>1 DEF BaseInv, QuietInv
  <2>3. ASSUME request.walking
        PROVE  /\ WalkExact'
               /\ phase' = "done" => Len(seen') = Cardinality(steady')
    <3>1. WalkExact
      BY <2>1, <2>3 DEF QuietInv
    <3> QED
      BY <1>3, <2>2, <2>3, <3>1, QuietWalk
  <2>4. ASSUME ~request.walking
        PROVE  PageExact'
    BY <1>3, <2>1, <2>2, <2>4, QuietPage
  <2> QED
    BY <2>1, <2>2, <2>3, <2>4
<1>4. CASE phase' = "error"
  BY <1>4 DEF Reading
<1>5. CASE Around
  <2>1. /\ UNCHANGED <<request, seen, total, phase>>
        /\ (Reading' <=> Reading) /\ phase # "done"
        /\ phase = "select" => Reading
    BY <1>5 DEF Around, client, Reading
  <2>2. CASE Reading
    <3>1. /\ Quiet /\ Listed' = Listed /\ steady' = steady \intersect Listed'
          /\ \A p \in Listed : key'[p] = key[p]
      BY <1>5, <2>2, WatchCounts
    <3>2. steady = Listed /\ steady' = steady
      BY <2>2, <3>1 DEF BaseInv
    <3>3. request.walking => WalkExact'
      BY <2>1, <2>2, <3>1, <3>2, ExactStays DEF QuietInv
    <3> QED
      BY <2>1, <2>2, <3>1, <3>2, <3>3 DEF QuietInv
  <2>3. CASE ~Reading
    BY <2>1, <2>3
  <2> QED
    BY <2>2, <2>3
<1>6. CASE UNCHANGED vars
  <2>1. /\ UNCHANGED <<rows, client, watch>> /\ (Reading' <=> Reading)
        /\ UNCHANGED <<request, page, phase, total, seen, steady, unsure, key>>
    BY <1>6 DEF vars, rows, client, watch, Reading
  <2>2. Quiet
    BY <2>1 DEF watch, Quiet
  <2>3. WalkExact => WalkExact'
    BY <2>1, ExactStays
  <2>4. PageExact => PageExact'
    <3>1. PageNum' = PageNum /\ LimitNum' = LimitNum /\ Shown' = Shown
      BY <2>1 DEF PageNum, LimitNum, Shown
    <3>2. Half' = Half
      BY DEF Half
    <3>3. \A p : Place(steady, p)' = Place(steady, p')
      BY <2>1 DEF Place, Before
    <3> QED
      BY <2>1, <3>1, <3>2, <3>3 DEF PageExact
  <2> QED
    BY <2>1, <2>2, <2>3, <2>4 DEF QuietInv
<1> QED
  BY <1>1, <1>2, <1>3, <1>4, <1>5, <1>6, StepKinds, SelectStep

\* The number of pages of d rows that hold n rows.
LEMMA PagesFor ==
    ASSUME NEW n \in Nat, NEW d \in Nat \ {0}
    PROVE  LET pages == (n + d - 1) \div d IN
           pages * d >= n /\ (pages - 1) * d < n
<1> DEFINE a == n + d - 1
           pages == a \div d
           rest == a % d
<1>1. a \in Int /\ d \in Int /\ d > 0
  OBVIOUS
<1> HIDE DEF a
<1>2. /\ pages \in Int /\ rest \in 0 .. d - 1
      /\ a = d * pages + rest
  BY <1>1
<1> HIDE DEF pages, rest
<1>3. pages * d = d * pages /\ (pages - 1) * d = d * pages - d
  BY <1>2
<1>4. d * pages \in Int
  BY <1>1, <1>2
<1>5. d * pages >= n /\ d * pages - d < n
  BY <1>2, <1>4 DEF a
<1> QED
  BY <1>3, <1>5 DEF pages, a

\* A walk through a listing that stays as it is.
LEMMA WalkIsOrdered ==
    ASSUME TypeOK, WalkExact,
           NEW i \in 1 .. Len(seen), NEW j \in 1 .. Len(seen), i < j
    PROVE  ~Before(seen[j], seen[i])
<1> DEFINE p == seen[i]
           q == seen[j]
           n == Cardinality(steady)
<1>1. /\ steady \in SUBSET Payments /\ KeyType /\ Len(seen) \in Nat
      /\ p \in steady /\ q \in steady
      /\ p \in Payments /\ q \in Payments
  BY ListedType DEF TypeOK, WalkExact
<1>2. Place(steady, p) <= i - 1 /\ After(steady, q) <= n - j
  BY DEF WalkExact
<1> HIDE DEF p, q
<1>3. /\ Place(steady, p) \in Nat /\ After(steady, q) \in Nat
      /\ Cardinality(steady) \in Nat
  BY <1>1, PlaceType, Zenon
<1>4. ASSUME Before(q, p)
      PROVE  FALSE
  <2>1. Place(steady, p) + After(steady, q) >= n
    BY <1>1, <1>4, PlacesCover
  <2> QED
    BY <1>1, <1>2, <1>3, <2>1
<1> QED
  BY <1>4 DEF p, q

\* QuietIsExact: while nothing joins or leaves the listing, or moves in it, a
\* walk shows it in order, each payment that is tied to no other once, under the
\* right number of pages; and each page that an int can number holds the
\* payments with its places.
THEOREM QuietListings == Spec => []QuietIsExact
<1>1. BaseInv /\ MissInv /\ RepeatInv /\ QuietInv => QuietIsExact
  <2> SUFFICES ASSUME BaseInv, MissInv, RepeatInv, QuietInv,
                      phase = "done", Quiet
               PROVE  QuietIsExact
    BY DEF QuietIsExact
  <2> DEFINE sure == steady \ unsure
  <2>1. /\ TypeOK /\ total = Cardinality(steady)
        /\ joined = 0 /\ left = 0 /\ Len(seen) \in Nat
    <3>1. TypeOK /\ total = Cardinality(steady) /\ joined = 0 /\ left = 0
      BY DEF BaseInv, QuietInv, Quiet
    <3> QED
      BY <3>1 DEF TypeOK
  <2>2. CASE request.walking
    <3>1. WalkExact /\ Len(seen) = Cardinality(steady)
      BY <2>2 DEF QuietInv
    <3>2. ASSUME NEW i \in 1 .. Len(seen), NEW j \in 1 .. Len(seen), i < j
          PROVE  /\ ~Before(seen[j], seen[i])
                 /\ seen[i] \in sure => seen[i] # seen[j]
      <4>1. ~Before(seen[j], seen[i])
        BY <2>1, <3>1, <3>2, WalkIsOrdered
      <4>2. ASSUME seen[i] \in sure, seen[i] = seen[j]
            PROVE  FALSE
        <5>1. j - i <= joined
          BY <2>2, <4>2 DEF RepeatInv
        <5> QED
          BY <2>1, <3>2, <5>1
      <4> QED
        BY <4>1, <4>2
    <3>3. sure \subseteq Shown /\ Shown \subseteq steady
      <4> DEFINE rest == sure \ Shown
      <4>1. Cardinality(rest) <= 0
        BY <2>1, <2>2 DEF MissInv
      <4>2. IsFiniteSet(rest)
        BY <2>1, ParametersAssumption, FS_Subset DEF TypeOK
      <4>3. rest = {}
        <5> HIDE DEF rest
        <5>1. Cardinality(rest) \in Nat
          BY <4>2, FS_CardinalityType
        <5>2. Cardinality(rest) = 0
          BY <4>1, <5>1
        <5> QED
          BY <4>2, <5>2, FS_EmptySet
      <4>4. Shown \subseteq steady
        BY <3>1 DEF Shown, WalkExact
      <4> QED
        BY <4>3, <4>4
    <3>4. /\ TotalPages * LimitNum >= Len(seen)
          /\ (TotalPages - 1) * LimitNum < Len(seen)
      <4>1. LimitNum \in Nat \ {0}
        BY <2>1, LimitType DEF TypeOK
      <4>2. TotalPages = (Len(seen) + LimitNum - 1) \div LimitNum
        BY <2>1, <3>1 DEF TotalPages
      <4> QED
        BY <2>1, <4>1, <4>2, PagesFor
    <3> QED
      BY <2>2, <3>1, <3>2, <3>3, <3>4 DEF QuietIsExact
  <2>3. CASE ~request.walking
    <3>1. PageExact
      BY <2>3 DEF QuietInv
    <3> QED
      BY <2>3, <3>1 DEF QuietIsExact, PageExact, Place, Half
  <2> QED
    BY <2>2, <2>3
<1>2. Init => MissInv /\ RepeatInv /\ QuietInv
  BY DEF Init, MissInv, RepeatInv, QuietInv, Reading
<1> QED
  BY <1>1, <1>2, BaseInvInit, BaseInvNext, MissInvNext, RepeatInvNext,
     QuietInvNext, PTL DEF Spec
=============================================================================
