----------------------------- MODULE BasicFacts -----------------------------
(***************************************************************************)
(* Facts about numbers and finite sets that the proofs of several          *)
(* components need.                                                        *)
(***************************************************************************)
EXTENDS Integers, FiniteSets, TLAPS, FiniteSetTheorems

\* Two sets that agree on all but one element.
LEMMA OneMember ==
    ASSUME NEW S, IsFiniteSet(S), NEW T, NEW d, S \ {d} = T \ {d}
    PROVE  /\ IsFiniteSet(T)
           /\ Cardinality(S) \in Nat /\ Cardinality(T) \in Nat
           /\ Cardinality(T) = Cardinality(S)
                + (IF d \in T THEN 1 ELSE 0) - (IF d \in S THEN 1 ELSE 0)
<1>1. IsFiniteSet(S \ {d}) /\ Cardinality(S) \in Nat
  BY FS_RemoveElement, FS_CardinalityType
<1>2. CASE d \in T /\ d \notin S
  <2>1. T = S \union {d}
    BY <1>2
  <2> QED
    BY <1>1, <1>2, <2>1, FS_AddElement
<1>3. CASE d \notin T /\ d \in S
  <2>1. T = S \ {d}
    BY <1>3
  <2>2. IsFiniteSet(T) /\ Cardinality(T) = Cardinality(S) - 1
    BY <1>3, <2>1, FS_RemoveElement
  <2> QED
    BY <1>1, <1>3, <2>2, FS_CardinalityType
<1>4. CASE d \in T <=> d \in S
  <2>1. T = S
    BY <1>4
  <2> QED
    BY <1>1, <1>4, <2>1
<1> QED
  BY <1>2, <1>3, <1>4

-----------------------------------------------------------------------------
(***************************************************************************)
(* Powers of two, as numbers of subsets: a fact about 2^n is a fact about  *)
(* finite sets, and needs no induction.                                    *)
(***************************************************************************)

\* 1 .. n has 2^n subsets.
LEMMA PowerOfTwo ==
    ASSUME NEW n \in Nat
    PROVE  /\ IsFiniteSet(SUBSET (1 .. n))
           /\ Cardinality(SUBSET (1 .. n)) = 2^n
           /\ 2^n \in Nat \ {0}
<1>1. IsFiniteSet(1 .. n) /\ Cardinality(1 .. n) = n
  BY FS_Interval
<1>2. /\ IsFiniteSet(SUBSET (1 .. n))
      /\ Cardinality(SUBSET (1 .. n)) = 2^n
  BY <1>1, FS_SUBSET, Zenon
<1>3. /\ Cardinality(SUBSET (1 .. n)) \in Nat
      /\ Cardinality(SUBSET (1 .. n)) # 0
  <2>1. SUBSET (1 .. n) # {}
    OBVIOUS
  <2> QED
    BY <1>2, <2>1, FS_CardinalityType, FS_EmptySet
<1>4. 2^n \in Nat /\ 2^n # 0
  BY <1>2, <1>3, Zenon
<1> QED
  BY <1>2, <1>4, Zenon

\* A subset of 1 .. n + 1 has n + 1 or has not.
LEMMA PowersDouble ==
    ASSUME NEW n \in Nat
    PROVE  2^(n + 1) = 2 * 2^n
<1> DEFINE old == SUBSET (1 .. n)
           both == SUBSET (1 .. n + 1)
           new == both \ old
<1>1. /\ IsFiniteSet(old) /\ Cardinality(old) = 2^n
      /\ IsFiniteSet(both) /\ Cardinality(both) = 2^(n + 1)
      /\ 2^n \in Nat /\ 2^(n + 1) \in Nat
  <2>1. n + 1 \in Nat
    OBVIOUS
  <2> QED
    BY <2>1, PowerOfTwo, Zenon
<1>2. 1 .. n + 1 = (1 .. n) \union {n + 1} /\ n + 1 \notin 1 .. n
  OBVIOUS
<1>3. [s \in old |-> s \union {n + 1}] \in Bijection(old, new)
  <2> DEFINE f == [s \in old |-> s \union {n + 1}]
  <2>1. \A s \in old : s \union {n + 1} \in new
    BY <1>2
  <2>2. \A s \in old, t \in old :
          s \union {n + 1} = t \union {n + 1} => s = t
    BY <1>2
  <2>3. ASSUME NEW u \in new
        PROVE  \E s \in old : s \union {n + 1} = u
    <3>1. n + 1 \in u
      BY <1>2
    <3>2. u \ {n + 1} \in old /\ (u \ {n + 1}) \union {n + 1} = u
      BY <1>2, <3>1
    <3> QED
      BY <3>2
  <2> HIDE DEF old, new
  <2>4. f \in [old -> new]
    BY <2>1
  <2>5. \A s \in old, t \in old : f[s] = f[t] => s = t
    BY <2>2
  <2>6. \A u \in new : \E s \in old : f[s] = u
    BY <2>3
  <2> QED
    BY <2>4, <2>5, <2>6
       DEF Bijection, Injection, Surjection, IsInjective
<1>4. both = old \union new /\ old \intersect new = {}
  BY <1>2
<1> HIDE DEF old, both, new
<1>5. IsFiniteSet(new) /\ Cardinality(new) = Cardinality(old)
  <2>1. ExistsBijection(old, new)
    BY <1>3 DEF ExistsBijection
  <2> QED
    BY <1>1, <2>1, FS_Bijection
<1>6. Cardinality(both) =
        Cardinality(old) + Cardinality(new) - Cardinality({})
  BY <1>1, <1>4, <1>5, FS_Union
<1>7. ASSUME NEW a \in Nat, NEW b \in Nat, Cardinality(old) = a,
             Cardinality(both) = b
      PROVE  b = 2 * a
  BY <1>5, <1>6, <1>7, FS_EmptySet
<1> QED
  BY <1>1, <1>7, Zenon

-----------------------------------------------------------------------------
(***************************************************************************)
(* Integers of w bits: a number that leaves them comes back modulo 2^w.    *)
(***************************************************************************)

LEMMA FitsTheWidth ==
    ASSUME NEW w \in Nat \ {0}, NEW n \in Nat, n < 2^(w - 1)
    PROVE  ((n + 2^(w - 1)) % 2^w) - 2^(w - 1) = n
<1> DEFINE half == 2^(w - 1)
           full == 2^w
<1>1. w - 1 \in Nat /\ (w - 1) + 1 = w
  OBVIOUS
<1>2. half \in Nat
  BY <1>1, PowerOfTwo, Zenon
<1>3. full = 2 * half
  BY <1>1, PowersDouble, Zenon
<1>4. n < half
  OBVIOUS
<1> HIDE DEF half, full
<1>5. n + half \in Nat /\ full \in Nat /\ n + half < full
  BY <1>2, <1>3, <1>4
<1>6. (n + half) % full = n + half
  BY <1>5
<1>7. ((n + half) % full) - half = n
  BY <1>2, <1>6
<1> QED
  BY <1>7 DEF half, full

\* The first half of what does not fit turns negative.
LEMMA LeavesTheWidth ==
    ASSUME NEW w \in Nat \ {0}, NEW n \in Nat, 2^(w - 1) <= n, n < 2^w
    PROVE  ((n + 2^(w - 1)) % 2^w) - 2^(w - 1) < 0
<1> DEFINE half == 2^(w - 1)
           full == 2^w
<1>1. w - 1 \in Nat /\ (w - 1) + 1 = w
  OBVIOUS
<1>2. half \in Nat
  BY <1>1, PowerOfTwo, Zenon
<1>3. full = 2 * half
  BY <1>1, PowersDouble, Zenon
<1>4. half <= n /\ n < full
  OBVIOUS
<1> HIDE DEF half, full
<1>5. n - half \in Nat /\ n - half < full /\ n + half = (n - half) + full
  BY <1>2, <1>3, <1>4
<1>6. (n + half) % full = n - half
  BY <1>2, <1>3, <1>4, <1>5
<1>7. ((n + half) % full) - half < 0
  BY <1>2, <1>3, <1>4, <1>6
<1> QED
  BY <1>7 DEF half, full
=============================================================================
