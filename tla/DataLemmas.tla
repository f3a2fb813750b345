----------------------------- MODULE DataLemmas -----------------------------
(***************************************************************************)
(* What the proofs need to know of data: a line of goroutines from which   *)
(* one may leave in the middle, the place of a member of a finite set in   *)
(* an order of it, the least of a set of numbers, and induction stated of  *)
(* a set instead of a predicate.                                           *)
(***************************************************************************)
EXTENDS Integers, Sequences, SequencesExt, SequenceTheorems,
        FiniteSetTheorems, FunctionTheorems, TLAPS

(* Leaving a sequence from within closes the gap.                          *)
LEMMA RemoveAtProperties ==
  ASSUME NEW S, NEW s \in Seq(S), NEW k \in 1..Len(s)
  PROVE  /\ RemoveAt(s, k) \in Seq(S)
         /\ Len(RemoveAt(s, k)) = Len(s) - 1
         /\ \A i \in 1..(Len(s) - 1) :
              RemoveAt(s, k)[i] = s[IF i < k THEN i ELSE i + 1]
<1> DEFINE front == SubSeq(s, 1, k - 1)
           back == SubSeq(s, k + 1, Len(s))
<1>1. /\ front \in Seq(S) /\ Len(front) = k - 1
      /\ \A i \in 1..(k - 1) : front[i] = s[i]
  BY SubSeqProperties
<1>2. /\ back \in Seq(S) /\ Len(back) = Len(s) - k
      /\ \A i \in 1..(Len(s) - k) : back[i] = s[k + i]
  BY SubSeqProperties
<1> HIDE DEF front, back
<1>3. /\ front \o back \in Seq(S)
      /\ Len(front \o back) = Len(front) + Len(back)
      /\ \A i \in 1..(Len(front) + Len(back)) :
           (front \o back)[i] = IF i <= Len(front) THEN front[i] ELSE back[i - Len(front)]
  BY <1>1, <1>2, ConcatProperties
<1>4. Len(front) + Len(back) = Len(s) - 1 /\ Len(s) \in Nat
  BY <1>1, <1>2
<1>5. \A i \in 1..(Len(s) - 1) :
        (front \o back)[i] = IF i < k THEN front[i] ELSE back[i - (k - 1)]
  BY <1>1, <1>3, <1>4
<1>6. \A i \in 1..(Len(s) - 1) :
        (front \o back)[i] = s[IF i < k THEN i ELSE i + 1]
  BY <1>1, <1>2, <1>5
<1>7. RemoveAt(s, k) = front \o back
  BY DEF RemoveAt, front, back
<1> QED
  BY <1>3, <1>4, <1>6, <1>7

-----------------------------------------------------------------------------
(* R puts the members of S in a strict total order.                        *)
Orders(R, S) ==
  /\ \A x \in S : <<x, x>> \notin R
  /\ \A x, y, z \in S : <<x, y>> \in R /\ <<y, z>> \in R => <<x, z>> \in R
  /\ \A x, y \in S : x # y => <<x, y>> \in R \/ <<y, x>> \in R

Below(R, S, x) == {y \in S : <<y, x>> \in R}

(* Of two members the lower has fewer below it.                            *)
LEMMA BelowGrows ==
  ASSUME NEW S, IsFiniteSet(S), NEW R, Orders(R, S),
         NEW x \in S, NEW y \in S, <<x, y>> \in R
  PROVE  Cardinality(Below(R, S, x)) < Cardinality(Below(R, S, y))
<1>1. Below(R, S, x) \subseteq Below(R, S, y)
  BY DEF Below, Orders
<1>2. x \in Below(R, S, y) /\ x \notin Below(R, S, x)
  BY DEF Below, Orders
<1>3. IsFiniteSet(Below(R, S, y)) /\ IsFiniteSet(Below(R, S, x))
  BY FS_Subset DEF Below
<1>4. /\ Cardinality(Below(R, S, x)) <= Cardinality(Below(R, S, y))
      /\ Cardinality(Below(R, S, x)) # Cardinality(Below(R, S, y))
  BY <1>1, <1>2, <1>3, FS_Subset
<1> QED
  BY <1>3, <1>4, FS_CardinalityType

(* Every place in the order is taken, each by one member.                  *)
LEMMA PlacesTaken ==
  ASSUME NEW S, IsFiniteSet(S), NEW R, Orders(R, S)
  PROVE  /\ Cardinality(S) \in Nat
         /\ \A x \in S : Cardinality(Below(R, S, x)) \in 0..(Cardinality(S) - 1)
         /\ \A n \in 0..(Cardinality(S) - 1) : \E x \in S : Cardinality(Below(R, S, x)) = n
         /\ \A x, y \in S : Cardinality(Below(R, S, x)) = Cardinality(Below(R, S, y)) => x = y
<1> DEFINE places == 0..(Cardinality(S) - 1)
           place == [x \in S |-> Cardinality(Below(R, S, x))]
<1>1. Cardinality(S) \in Nat
  BY FS_CardinalityType
<1>2. ASSUME NEW x \in S PROVE Cardinality(Below(R, S, x)) \in places
  <2>1. Below(R, S, x) \subseteq S /\ x \notin Below(R, S, x)
    BY DEF Below, Orders
  <2>2. IsFiniteSet(Below(R, S, x)) /\ Cardinality(Below(R, S, x)) <= Cardinality(S)
    BY <2>1, FS_Subset
  <2>3. Cardinality(Below(R, S, x)) # Cardinality(S)
    BY <2>1, FS_Subset
  <2> QED
    BY <1>1, <2>2, <2>3, FS_CardinalityType
<1>3. ASSUME NEW x \in S, NEW y \in S,
             Cardinality(Below(R, S, x)) = Cardinality(Below(R, S, y))
      PROVE  x = y
  <2>1. /\ Cardinality(Below(R, S, x)) \in Nat
        /\ ~(<<x, y>> \in R) /\ ~(<<y, x>> \in R)
    BY <1>1, <1>2, <1>3, BelowGrows
  <2> QED
    BY <2>1 DEF Orders
<1>4. place \in Injection(S, places)
  <2>1. place \in [S -> places]
    BY <1>2
  <2>2. \A x, y \in S : place[x] = place[y] => x = y
    BY <1>3
  <2> HIDE DEF place, places
  <2> QED
    BY <2>1, <2>2, Fun_IsInj
<1>5. IsFiniteSet(places) /\ Cardinality(places) = Cardinality(S)
  BY <1>1, FS_Interval
<1>6. place \in Surjection(S, places)
  <2> HIDE DEF place, places
  <2> QED
    BY <1>4, <1>5, FS_Injection
<1>7. \A n \in places : \E x \in S : place[x] = n
  <2> HIDE DEF place, places
  <2> QED
    BY <1>6, Fun_SurjectionProperties
<1> QED
  BY <1>1, <1>2, <1>3, <1>7

(* The n-th member in the order: n - 1 are below it.                       *)
Ranked(R, S, n) == CHOOSE x \in S : Cardinality(Below(R, S, x)) = n - 1

(* A finite set is counted off from its lowest member to its highest.      *)
LEMMA RankedProperties ==
  ASSUME NEW S, IsFiniteSet(S), NEW R, Orders(R, S)
  PROVE  /\ Cardinality(S) \in Nat
         /\ \A n \in 1..Cardinality(S) : Ranked(R, S, n) \in S
         /\ \A m, n \in 1..Cardinality(S) : m < n => <<Ranked(R, S, m), Ranked(R, S, n)>> \in R
         /\ \A x \in S : \E n \in 1..Cardinality(S) : Ranked(R, S, n) = x
<1> DEFINE size == Cardinality(S)
           place(x) == Cardinality(Below(R, S, x))
<1>1. /\ size \in Nat
      /\ \A x \in S : place(x) \in 0..(size - 1)
      /\ \A n \in 0..(size - 1) : \E x \in S : place(x) = n
      /\ \A x, y \in S : place(x) = place(y) => x = y
  BY PlacesTaken, Zenon
<1>2. \A x, y \in S : <<x, y>> \in R => place(x) < place(y)
  BY BelowGrows
<1>3. \A x, y \in S : x # y => <<x, y>> \in R \/ <<y, x>> \in R
  BY DEF Orders
<1>4. \A n : Ranked(R, S, n) = CHOOSE x \in S : place(x) = n - 1
  BY DEF Ranked
<1> HIDE DEF size, place
<1>5. ASSUME NEW n \in 1..size PROVE Ranked(R, S, n) \in S /\ place(Ranked(R, S, n)) = n - 1
  <2>1. n - 1 \in 0..(size - 1)
    BY <1>1
  <2>2. \E x \in S : place(x) = n - 1
    BY <1>1, <2>1
  <2> QED
    BY <1>4, <2>2
<1>6. ASSUME NEW m \in 1..size, NEW n \in 1..size, m < n
      PROVE  <<Ranked(R, S, m), Ranked(R, S, n)>> \in R
  <2>1. /\ Ranked(R, S, m) \in S /\ Ranked(R, S, n) \in S
        /\ place(Ranked(R, S, m)) = m - 1 /\ place(Ranked(R, S, n)) = n - 1
    BY <1>5
  <2>2. Ranked(R, S, n) # Ranked(R, S, m)
    BY <1>6, <2>1
  <2>3. ~(<<Ranked(R, S, n), Ranked(R, S, m)>> \in R)
    <3> SUFFICES ASSUME <<Ranked(R, S, n), Ranked(R, S, m)>> \in R PROVE FALSE
      OBVIOUS
    <3>1. place(Ranked(R, S, n)) < place(Ranked(R, S, m))
      BY <1>2, <2>1
    <3> QED
      BY <1>6, <2>1, <3>1
  <2> QED
    BY <1>3, <2>1, <2>2, <2>3
<1>7. ASSUME NEW x \in S PROVE \E n \in 1..size : Ranked(R, S, n) = x
  <2>1. place(x) + 1 \in 1..size
    BY <1>1
  <2>2. /\ Ranked(R, S, place(x) + 1) \in S
        /\ place(Ranked(R, S, place(x) + 1)) = place(x)
    BY <1>1, <1>5, <2>1
  <2>3. Ranked(R, S, place(x) + 1) = x
    BY <1>1, <2>2
  <2> QED
    BY <2>1, <2>3
<1> QED
  BY <1>1, <1>5, <1>6, <1>7 DEF size

-----------------------------------------------------------------------------
(* A set of natural numbers that is not empty has a least.                 *)
LEMMA LeastExists ==
  ASSUME NEW T \in SUBSET Nat, T # {}
  PROVE  \E m \in T : \A n \in T : m <= n
<1>1. PICK top \in T : TRUE
  OBVIOUS
<1> DEFINE Low == {n \in T : n <= top}
           lt == {p \in Low \X Low : p[1] < p[2]}
<1>2. IsFiniteSet(Low) /\ top \in Low
  BY <1>1, FS_BoundedSetOfNaturals
<1>3. Orders(lt, Low)
  BY DEF Orders
<1>4. Cardinality(Low) \in Nat /\ Cardinality(Low) # 0
  BY <1>2, FS_CardinalityType, FS_EmptySet
<1>5. PICK m \in Low : Cardinality(Below(lt, Low, m)) = 0
  <2> HIDE DEF Low, lt
  <2>1. 0 \in 0..(Cardinality(Low) - 1)
    BY <1>4
  <2>2. \A n \in 0..(Cardinality(Low) - 1) : \E x \in Low : Cardinality(Below(lt, Low, x)) = n
    <3>1. IsFiniteSet(Low)
      BY <1>2
    <3> QED
      BY <3>1, <1>3, PlacesTaken
  <2> QED
    BY <2>1, <2>2
<1>6. Below(lt, Low, m) = {}
  <2>1. IsFiniteSet(Below(lt, Low, m))
    BY <1>2, FS_Subset DEF Below
  <2> QED
    BY <1>5, <2>1, FS_EmptySet
<1>7. \A n \in Low : ~(n < m)
  BY <1>6 DEF Below
<1>8. m \in T /\ m <= top
  BY <1>5
<1> QED
  BY <1>7, <1>8

LEMMA MinProperties ==
  ASSUME NEW T \in SUBSET Nat, T # {}
  PROVE  Min(T) \in T /\ \A n \in T : Min(T) <= n
<1>1. \E m \in T : \A n \in T : m <= n
  BY LeastExists
<1> QED
  BY <1>1 DEF Min

(* What holds of 1 and, with n, of n + 1 holds up to any number.           *)
LEMMA InductionUpTo ==
  ASSUME NEW T, NEW top \in Nat, 1 \in T,
         \A n \in 1..(top - 1) : n \in T => n + 1 \in T
  PROVE  1..top \subseteq T
<1> DEFINE Out == {n \in 1..top : n \notin T}
<1>1. CASE Out = {}
  BY <1>1
<1>2. CASE Out # {}
  <2>1. PICK m \in Out : \A n \in Out : m <= n
    <3>1. Out \in SUBSET Nat
      OBVIOUS
    <3> HIDE DEF Out
    <3> QED
      BY <1>2, <3>1, LeastExists
  <2>2. m \in 2..top
    BY <2>1
  <2>3. m - 1 \in T
    BY <2>1, <2>2
  <2>4. m - 1 \in 1..(top - 1) /\ (m - 1) + 1 = m
    BY <2>2
  <2> QED
    BY <2>1, <2>3, <2>4
<1> QED
  BY <1>1, <1>2

-----------------------------------------------------------------------------
(* The n-th of a set of numbers.                                           *)
Nth(K, n) == CHOOSE i \in K : Cardinality({j \in K : j < i}) = n - 1

(* A finite set of numbers is counted off from its least to its greatest.  *)
LEMMA NthProperties ==
  ASSUME NEW K \in SUBSET Nat, IsFiniteSet(K)
  PROVE  /\ Cardinality(K) \in Nat
         /\ \A n \in 1..Cardinality(K) : Nth(K, n) \in K
         /\ \A m, n \in 1..Cardinality(K) : m < n => Nth(K, m) < Nth(K, n)
         /\ \A i \in K : \E n \in 1..Cardinality(K) : Nth(K, n) = i
<1> DEFINE lt == {p \in K \X K : p[1] < p[2]}
<1>1. Orders(lt, K)
  BY DEF Orders
<1>2. \A i \in K : Below(lt, K, i) = {j \in K : j < i}
  BY DEF Below
<1>3. \A i, j \in K : <<i, j>> \in lt => i < j
  OBVIOUS
<1> HIDE DEF lt
<1>4. \A n : Ranked(lt, K, n) = Nth(K, n)
  BY <1>2 DEF Ranked, Nth
<1>0. IsFiniteSet(K)
  OBVIOUS
<1>5. /\ Cardinality(K) \in Nat
      /\ \A n \in 1..Cardinality(K) : Ranked(lt, K, n) \in K
      /\ \A m, n \in 1..Cardinality(K) : m < n => <<Ranked(lt, K, m), Ranked(lt, K, n)>> \in lt
      /\ \A i \in K : \E n \in 1..Cardinality(K) : Ranked(lt, K, n) = i
  BY <1>0, <1>1, RankedProperties
<1>6. /\ \A n \in 1..Cardinality(K) : Nth(K, n) \in K
      /\ \A i \in K : \E n \in 1..Cardinality(K) : Nth(K, n) = i
  BY <1>4, <1>5, Zenon
<1>7. \A m, n \in 1..Cardinality(K) : m < n => <<Nth(K, m), Nth(K, n)>> \in lt
  BY <1>4, <1>5, Zenon
<1>8. \A m, n \in 1..Cardinality(K) : m < n => Nth(K, m) < Nth(K, n)
  BY <1>3, <1>6, <1>7, Zenon
<1> QED
  BY <1>5, <1>6, <1>8, Zenon
=============================================================================
