----------------------------- MODULE QueriesProofs -----------------------------
(***************************************************************************)
(* Selects, the builder and the two databases they run on: proofs for any  *)
(* set of numbers and of terms, however many records, keys of an order and *)
(* calls there are.                                                        *)
(***************************************************************************)
EXTENDS Queries, FiniteSetTheorems, SequenceTheorems, WellFoundedInduction, TLAPS

-----------------------------------------------------------------------------
(* Numbers.                                                                 *)

\* Every set of numbers that has a member has a least one.
LEMMA Least ==
  ASSUME NEW T \in SUBSET Nat, T # {}
  PROVE  \E x \in T : \A y \in T : x <= y
<1> DEFINE R == OpToRel(<, Nat)
<1>1. IsWellFoundedOn(R, Nat)
  BY NatLessThanWellFounded
<1>2. \A x, y \in Nat : <<y, x>> \in R <=> y < x
  BY DEF OpToRel
<1>3. \E x \in T : \A y \in T : ~ (<<y, x>> \in R)
  <2> HIDE DEF R
  <2> QED BY <1>1, WFMin
<1>4. PICK x \in T : \A y \in T : ~ (<<y, x>> \in R)
  BY <1>3
<1> HIDE DEF R
<1>5. \A y \in T : ~ (y < x)
  BY <1>2, <1>4
<1> QED BY <1>5

\* What holds of 0, and of each number up to N if of the one before, holds of all.
LEMMA Upwards ==
  ASSUME NEW N \in Nat, NEW T \in SUBSET (0..N), 0 \in T,
         \A n \in 1..N : n - 1 \in T => n \in T
  PROVE  T = 0..N
<1> SUFFICES ASSUME (0..N) \ T # {} PROVE FALSE
  OBVIOUS
<1>1. (0..N) \ T \in SUBSET Nat
  OBVIOUS
<1>2. PICK x \in (0..N) \ T : \A y \in (0..N) \ T : x <= y
  BY <1>1, Least
<1>3. x # 0 /\ x \in 1..N /\ x - 1 \in 0..N /\ ~(x <= x - 1)
  BY <1>2
<1>4. x - 1 \in T
  BY <1>2, <1>3
<1> QED BY <1>2, <1>3, <1>4

-----------------------------------------------------------------------------
(* Ranks.                                                                   *)

\* R puts the members of K in line.
StrictOrder(K, R) ==
  /\ \A i \in K : <<i, i>> \notin R
  /\ \A i, j \in K : i = j \/ <<i, j>> \in R \/ <<j, i>> \in R
  /\ \A i, j, l \in K : <<i, j>> \in R /\ <<j, l>> \in R => <<i, l>> \in R

Under(K, R, i) == {j \in K : <<j, i>> \in R}

\* More is under what comes later.
LEMMA RankGrows ==
  ASSUME NEW K, IsFiniteSet(K), NEW R, StrictOrder(K, R), NEW i \in K
  PROVE  /\ IsFiniteSet(Under(K, R, i))
         /\ Cardinality(Under(K, R, i)) \in Nat
         /\ Cardinality(Under(K, R, i)) < Cardinality(K)
         /\ \A j \in K : <<i, j>> \in R =>
              Cardinality(Under(K, R, i)) < Cardinality(Under(K, R, j))
<1>1. ASSUME NEW T \in SUBSET K, NEW t \in T, Under(K, R, i) \in SUBSET T
      PROVE  /\ IsFiniteSet(Under(K, R, i)) /\ Cardinality(Under(K, R, i)) \in Nat
             /\ Cardinality(T) \in Nat
             /\ t \notin Under(K, R, i) =>
                  Cardinality(Under(K, R, i)) < Cardinality(T)
  <2>1. IsFiniteSet(T)
    BY FS_Subset
  <2>2. /\ IsFiniteSet(Under(K, R, i))
        /\ Cardinality(Under(K, R, i)) <= Cardinality(T)
        /\ Cardinality(T) = Cardinality(Under(K, R, i)) => T = Under(K, R, i)
    BY <1>1, <2>1, FS_Subset
  <2>3. Cardinality(T) \in Nat /\ Cardinality(Under(K, R, i)) \in Nat
    BY <2>1, <2>2, FS_CardinalityType
  <2> QED BY <2>2, <2>3
<1>2. Under(K, R, i) \in SUBSET K /\ i \notin Under(K, R, i)
  BY DEF Under, StrictOrder
<1>3. ASSUME NEW j \in K, <<i, j>> \in R
      PROVE  Cardinality(Under(K, R, i)) < Cardinality(Under(K, R, j))
  <2>1. Under(K, R, i) \in SUBSET Under(K, R, j)
    BY <1>3 DEF Under, StrictOrder
  <2>2. Under(K, R, j) \in SUBSET K /\ i \in Under(K, R, j)
    BY <1>3 DEF Under
  <2> QED BY <1>1, <1>2, <2>1, <2>2
<1> QED BY <1>1, <1>2, <1>3

\* The order as a sequence: every member once, each before those it precedes.
LEMMA RankedMeans ==
  ASSUME NEW K, IsFiniteSet(K), NEW R, StrictOrder(K, R)
  PROVE  /\ Cardinality(K) \in Nat
         /\ Ranked(K, R) \in [1..Cardinality(K) -> K]
         /\ \A i \in K : \E n \in 1..Cardinality(K) : Ranked(K, R)[n] = i
         /\ \A m, n \in 1..Cardinality(K) :
              m < n => <<Ranked(K, R)[m], Ranked(K, R)[n]>> \in R
<1> DEFINE C == Cardinality(K)
           rank == [i \in K |-> Cardinality(Under(K, R, i)) + 1]
<1>1. C \in Nat
  BY FS_CardinalityType
<1>2. \A i \in K : /\ Cardinality(Under(K, R, i)) \in Nat
                   /\ Cardinality(Under(K, R, i)) < C
  BY RankGrows
<1>3. \A i, j \in K : <<i, j>> \in R =>
        Cardinality(Under(K, R, i)) < Cardinality(Under(K, R, j))
  BY RankGrows
<1>4. \A i, j \in K : i # j =>
        Cardinality(Under(K, R, i)) # Cardinality(Under(K, R, j))
  <2>1. ASSUME NEW i \in K, NEW j \in K, <<i, j>> \in R
        PROVE  Cardinality(Under(K, R, i)) # Cardinality(Under(K, R, j))
    BY <1>2, <1>3, <2>1
  <2>2. \A i, j \in K : i = j \/ <<i, j>> \in R \/ <<j, i>> \in R
    BY DEF StrictOrder
  <2> QED BY <2>1, <2>2
<1>5. rank \in Injection(K, 1..C)
  <2>1. \A i \in K : rank[i] = Cardinality(Under(K, R, i)) + 1
    OBVIOUS
  <2>2. rank \in [K -> 1..C]
    BY <1>1, <1>2
  <2>3. ASSUME NEW i \in K, NEW j \in K, rank[i] = rank[j]
        PROVE  i = j
    <3>1. Cardinality(Under(K, R, i)) = Cardinality(Under(K, R, j))
      BY <1>2, <2>1, <2>3
    <3> QED BY <1>4, <3>1
  <2> HIDE DEF rank
  <2> QED BY <2>2, <2>3 DEF Injection, IsInjective
<1>6. IsFiniteSet(1..C) /\ Cardinality(1..C) = C
  <2>1. 1 \in Int /\ C \in Int
    BY <1>1
  <2>2. IsFiniteSet(1..C) /\ Cardinality(1..C) = IF 1 > C THEN 0 ELSE C - 1 + 1
    BY <2>1, FS_Interval
  <2> QED BY <1>1, <2>2
<1>7. rank \in Surjection(K, 1..C)
  <2> HIDE DEF rank
  <2> QED BY <1>5, <1>6, FS_Injection
<1>8. \A n \in 1..C : \E i \in K : Cardinality(Under(K, R, i)) = n - 1
  <2>1. ASSUME NEW n \in 1..C
        PROVE  \E i \in K : Cardinality(Under(K, R, i)) = n - 1
    <3>1. PICK i \in K : rank[i] = n
      BY <1>7 DEF Surjection
    <3>2. Cardinality(Under(K, R, i)) + 1 = n
      BY <3>1
    <3> QED BY <1>2, <3>2
  <2> QED BY <2>1
<1>9. Ranked(K, R) =
        [n \in 1..C |-> CHOOSE i \in K : Cardinality(Under(K, R, i)) = n - 1]
  BY DEF Ranked, Under
<1>10. \A n \in 1..C : /\ Ranked(K, R)[n] \in K
                       /\ Cardinality(Under(K, R, Ranked(K, R)[n])) = n - 1
  BY <1>8, <1>9
<1>11. Ranked(K, R) \in [1..C -> K]
  BY <1>9, <1>10
<1>12. ASSUME NEW i \in K
       PROVE  \E n \in 1..C : Ranked(K, R)[n] = i
  <2>1. PICK n \in 1..C : n - 1 = Cardinality(Under(K, R, i))
    <3>1. Cardinality(Under(K, R, i)) + 1 \in 1..C
      BY <1>1, <1>2
    <3> QED BY <1>2, <3>1
  <2> QED BY <1>4, <1>10, <2>1
<1>13. ASSUME NEW m \in 1..C, NEW n \in 1..C, m < n
       PROVE  <<Ranked(K, R)[m], Ranked(K, R)[n]>> \in R
  <2>1. PICK a, b \in K : a = Ranked(K, R)[m] /\ b = Ranked(K, R)[n]
    BY <1>10
  <2>2. /\ Cardinality(Under(K, R, a)) # Cardinality(Under(K, R, b))
        /\ ~(Cardinality(Under(K, R, b)) < Cardinality(Under(K, R, a)))
    BY <1>10, <1>13, <2>1
  <2>3. a = b \/ <<a, b>> \in R \/ <<b, a>> \in R
    BY DEF StrictOrder
  <2>4. a # b /\ <<b, a>> \notin R
    BY <1>3, <2>2
  <2> QED BY <2>1, <2>3, <2>4
<1> QED BY <1>1, <1>11, <1>12, <1>13

-----------------------------------------------------------------------------
(* Sorting.                                                                 *)

\* A key compares numbers.
LEMMA BeforeOrders ==
  ASSUME NEW k \in OrderKeys, NEW r \in Records, NEW s \in Records, NEW t \in Records
  PROVE  /\ ~Before(k, r, r)
         /\ Before(k, r, s) => ~Before(k, s, r)
         /\ Before(k, r, s) /\ ~Before(k, t, s) => Before(k, r, t)
         /\ ~Before(k, s, r) /\ Before(k, s, t) => Before(k, r, t)
         /\ ~Before(k, s, r) /\ ~Before(k, t, s) => ~Before(k, t, r)
<1>1. PICK a, b, c \in Int : a = r[k.name] /\ b = s[k.name] /\ c = t[k.name]
  BY QueriesAssumption DEF OrderKeys, Fields, Records
<1>2. CASE k.descending
  BY <1>1, <1>2 DEF Before
<1>3. CASE ~k.descending
  BY <1>1, <1>3 DEF Before
<1> QED BY <1>2, <1>3

LEMMA PrecedesOrders ==
  ASSUME NEW recs \in Seq(Records), NEW k \in OrderKeys
  PROVE  StrictOrder(DOMAIN recs, Precedes(recs, k))
<1>1. \A i, j \in DOMAIN recs :
        <<i, j>> \in Precedes(recs, k) <=>
          \/ Before(k, recs[i], recs[j])
          \/ ~Before(k, recs[j], recs[i]) /\ i < j
  BY DEF Precedes
<1>2. \A i \in DOMAIN recs : recs[i] \in Records /\ i \in Nat
  OBVIOUS
<1>3. \A i \in DOMAIN recs : <<i, i>> \notin Precedes(recs, k)
  BY <1>1, <1>2, BeforeOrders
<1>4. \A i, j \in DOMAIN recs :
        i = j \/ <<i, j>> \in Precedes(recs, k) \/ <<j, i>> \in Precedes(recs, k)
  <2>1. ASSUME NEW i \in DOMAIN recs, NEW j \in DOMAIN recs
        PROVE  i = j \/ i < j \/ j < i
    BY <1>2
  <2> QED BY <1>1, <2>1
<1>5. ASSUME NEW i \in DOMAIN recs, NEW j \in DOMAIN recs, NEW l \in DOMAIN recs,
             <<i, j>> \in Precedes(recs, k), <<j, l>> \in Precedes(recs, k)
      PROVE  <<i, l>> \in Precedes(recs, k)
  <2>1. i < j /\ j < l => i < l
    BY <1>2
  <2>2. PICK r, s, t \in Records : r = recs[i] /\ s = recs[j] /\ t = recs[l]
    BY <1>2
  <2>3. /\ Before(k, r, s) => ~Before(k, s, r)
        /\ Before(k, s, t) => ~Before(k, t, s)
        /\ Before(k, r, s) /\ ~Before(k, t, s) => Before(k, r, t)
        /\ ~Before(k, s, r) /\ Before(k, s, t) => Before(k, r, t)
        /\ ~Before(k, s, r) /\ ~Before(k, t, s) => ~Before(k, t, r)
    BY BeforeOrders
  <2> QED BY <1>1, <1>5, <2>1, <2>2, <2>3
<1> QED BY <1>3, <1>4, <1>5 DEF StrictOrder

\* The ways to rearrange n records.
Rearrangements(n) ==
  {p \in [1..n -> 1..n] : \A i \in 1..n : \E m \in 1..n : p[m] = i}

\* A key given last decides, ...
LEMMA SortedByMeans ==
  ASSUME NEW recs \in Seq(Records), NEW k \in OrderKeys
  PROVE  /\ SortedBy(recs, k) \in Seq(Records)
         /\ Len(SortedBy(recs, k)) = Len(recs)
         /\ \E p \in Rearrangements(Len(recs)) :
              /\ \A m \in 1..Len(recs) : SortedBy(recs, k)[m] = recs[p[m]]
              /\ \A m, n \in 1..Len(recs) : m < n =>
                   \/ Before(k, recs[p[m]], recs[p[n]])
                   \/ ~Before(k, recs[p[n]], recs[p[m]]) /\ p[m] < p[n]
<1> DEFINE p == Ranked(DOMAIN recs, Precedes(recs, k))
<1>1. DOMAIN recs = 1..Len(recs) /\ Len(recs) \in Nat
  OBVIOUS
<1>2. IsFiniteSet(1..Len(recs)) /\ Cardinality(1..Len(recs)) = Len(recs)
  <2>1. 1 \in Int /\ Len(recs) \in Int
    BY <1>1
  <2>2. /\ IsFiniteSet(1..Len(recs))
        /\ Cardinality(1..Len(recs)) = IF 1 > Len(recs) THEN 0 ELSE Len(recs) - 1 + 1
    BY <2>1, FS_Interval
  <2> QED BY <1>1, <2>2
<1>3. /\ p \in [1..Len(recs) -> 1..Len(recs)]
      /\ \A i \in 1..Len(recs) : \E n \in 1..Len(recs) : p[n] = i
      /\ \A m, n \in 1..Len(recs) : m < n => <<p[m], p[n]>> \in Precedes(recs, k)
  BY <1>1, <1>2, PrecedesOrders, RankedMeans
<1>4. SortedBy(recs, k) = [n \in 1..Len(recs) |-> recs[p[n]]]
  BY <1>1 DEF SortedBy
<1> HIDE DEF p
<1>5. SortedBy(recs, k) \in Seq(Records) /\ Len(SortedBy(recs, k)) = Len(recs)
  BY <1>1, <1>3, <1>4
<1>6. p \in Rearrangements(Len(recs))
  BY <1>3 DEF Rearrangements
<1>7. \A m, n \in 1..Len(recs) : m < n =>
        \/ Before(k, recs[p[m]], recs[p[n]])
        \/ ~Before(k, recs[p[n]], recs[p[m]]) /\ p[m] < p[n]
  BY <1>3 DEF Precedes
<1> QED BY <1>4, <1>5, <1>6, <1>7

\* One rearrangement behind another.
LEMMA RearrangedTwice ==
  ASSUME NEW n \in Nat, NEW p \in Rearrangements(n), NEW q \in Rearrangements(n)
  PROVE  [m \in 1..n |-> p[q[m]]] \in Rearrangements(n)
<1> DEFINE o == [m \in 1..n |-> p[q[m]]]
<1>1. p \in [1..n -> 1..n] /\ q \in [1..n -> 1..n]
  BY DEF Rearrangements
<1>2. o \in [1..n -> 1..n] /\ \A m \in 1..n : o[m] = p[q[m]]
  BY <1>1
<1>3. ASSUME NEW i \in 1..n
      PROVE  \E m \in 1..n : o[m] = i
  <2>1. PICK l \in 1..n : p[l] = i
    BY DEF Rearrangements
  <2>2. PICK m \in 1..n : q[m] = l
    BY DEF Rearrangements
  <2> QED BY <1>2, <2>1, <2>2
<1> HIDE DEF o
<1> QED BY <1>2, <1>3 DEF Rearrangements

LEMMA Unmoved ==
  ASSUME NEW n \in Nat
  PROVE  [m \in 1..n |-> m] \in Rearrangements(n)
BY DEF Rearrangements

(* The recursive function of Sorted is there. *)
LEMMA SortedSteps ==
  ASSUME NEW recs, NEW keys, Len(keys) \in Nat
  PROVE  \E after : /\ after[0] = recs
                    /\ \A i \in 1..Len(keys) :
                         after[i] = SortedBy(after[i - 1], keys[i])
                    /\ Sorted(recs, keys) = after[Len(keys)]
<1> DEFINE Is(f, n) ==
             f = [i \in 0..n |-> IF i = 0 THEN recs ELSE SortedBy(f[i - 1], keys[i])]
           T == {n \in 0..Len(keys) : \E f : Is(f, n)}
<1>1. 0 \in T
  <2>1. Is([i \in 0..0 |-> recs], 0)
    OBVIOUS
  <2>2. 0 \in 0..Len(keys)
    OBVIOUS
  <2> QED BY <2>1, <2>2
<1>2. ASSUME NEW n \in 1..Len(keys), n - 1 \in T
      PROVE  n \in T
  <2>1. PICK g : Is(g, n - 1)
    BY <1>2
  <2> DEFINE f == [i \in 0..n |-> IF i < n THEN g[i] ELSE SortedBy(g[n - 1], keys[n])]
  <2>2. ASSUME NEW i \in 0..n
        PROVE  f[i] = IF i = 0 THEN recs ELSE SortedBy(f[i - 1], keys[i])
    <3>1. CASE i = 0
      BY <2>1, <3>1
    <3>2. CASE i # 0 /\ i < n
      <4>1. i \in 0..(n - 1) /\ i - 1 \in 0..n /\ i - 1 < n
        BY <3>2
      <4>2. f[i] = g[i] /\ f[i - 1] = g[i - 1]
        BY <3>2, <4>1
      <4>3. g[i] = SortedBy(g[i - 1], keys[i])
        BY <2>1, <3>2, <4>1
      <4> HIDE DEF f
      <4> QED BY <3>2, <4>2, <4>3
    <3>3. CASE i = n
      <4>1. n # 0 /\ n - 1 \in 0..n /\ n - 1 < n /\ ~(n < n) /\ n \in 0..n
        OBVIOUS
      <4>2. f[n - 1] = g[n - 1] /\ f[n] = SortedBy(g[n - 1], keys[n])
        BY <4>1
      <4> HIDE DEF f
      <4> QED BY <3>3, <4>1, <4>2
    <3> QED BY <3>1, <3>2, <3>3
  <2>3. Is(f, n)
    <3>1. f = [i \in 0..n |-> f[i]]
      OBVIOUS
    <3> HIDE DEF f
    <3> QED BY <2>2, <3>1
  <2> HIDE DEF f
  <2> QED BY <2>3
<1>3. \E f : Is(f, Len(keys))
  <2>1. T \in SUBSET (0..Len(keys)) /\ Len(keys) \in 0..Len(keys)
    OBVIOUS
  <2>2. T = 0..Len(keys)
    <3> HIDE DEF T
    <3> QED BY <1>1, <1>2, <2>1, Upwards
  <2> QED BY <2>1, <2>2
<1> DEFINE after == CHOOSE f : Is(f, Len(keys))
<1>4. Sorted(recs, keys) = after[Len(keys)]
  BY DEF Sorted
<1>5. Is(after, Len(keys))
  <2> HIDE DEF Is
  <2> QED BY <1>3
<1> HIDE DEF after
<1>6. after[0] = recs
  BY <1>5
<1>7. \A i \in 1..Len(keys) : after[i] = SortedBy(after[i - 1], keys[i])
  BY <1>5
<1> QED BY <1>4, <1>6, <1>7

-----------------------------------------------------------------------------
(* Sorting by several keys.                                                 *)

\* LastKeyFirst of the first l keys.
Leads(keys, l, r, s) ==
  \E i \in 1..l :
    /\ Before(keys[i], r, s)
    /\ \A j \in (i + 1)..l : ~Before(keys[j], s, r) /\ ~Before(keys[j], r, s)

\* The next key leads, or leaves it to those before.
LEMMA LeadsStep ==
  ASSUME NEW keys, NEW l \in Nat \ {0}, NEW r, NEW s
  PROVE  /\ Before(keys[l], r, s) => Leads(keys, l, r, s)
         /\ ~Before(keys[l], s, r) /\ ~Before(keys[l], r, s) =>
              (Leads(keys, l, r, s) <=> Leads(keys, l - 1, r, s))
<1>1. ASSUME Before(keys[l], r, s)
      PROVE  Leads(keys, l, r, s)
  <2>1. l \in 1..l /\ (l + 1)..l = {}
    OBVIOUS
  <2> QED BY <1>1, <2>1 DEF Leads
<1>2. ASSUME ~Before(keys[l], s, r), ~Before(keys[l], r, s), Leads(keys, l, r, s)
      PROVE  Leads(keys, l - 1, r, s)
  <2>1. PICK i \in 1..l :
          /\ Before(keys[i], r, s)
          /\ \A j \in (i + 1)..l : ~Before(keys[j], s, r) /\ ~Before(keys[j], r, s)
    BY <1>2 DEF Leads
  <2>2. i # l
    BY <1>2, <2>1
  <2>3. i \in 1..(l - 1) /\ \A j \in (i + 1)..(l - 1) : j \in (i + 1)..l
    BY <2>2
  <2> QED BY <2>1, <2>3 DEF Leads
<1>3. ASSUME ~Before(keys[l], s, r), ~Before(keys[l], r, s), Leads(keys, l - 1, r, s)
      PROVE  Leads(keys, l, r, s)
  <2>1. PICK i \in 1..(l - 1) :
          /\ Before(keys[i], r, s)
          /\ \A j \in (i + 1)..(l - 1) : ~Before(keys[j], s, r) /\ ~Before(keys[j], r, s)
    BY <1>3 DEF Leads
  <2>2. i \in 1..l /\ \A j \in (i + 1)..l : j = l \/ j \in (i + 1)..(l - 1)
    OBVIOUS
  <2>3. \A j \in (i + 1)..l : ~Before(keys[j], s, r) /\ ~Before(keys[j], r, s)
    BY <1>3, <2>1, <2>2
  <2> QED BY <2>1, <2>2, <2>3 DEF Leads
<1> QED BY <1>1, <1>2, <1>3

\* Two records do not lead each other.
LEMMA LeadsOneWay ==
  ASSUME NEW keys \in Seq(OrderKeys), NEW r \in Records, NEW s \in Records,
         LastKeyFirst(keys, r, s)
  PROVE  ~LastKeyFirst(keys, s, r)
<1> SUFFICES ASSUME LastKeyFirst(keys, s, r) PROVE FALSE
  OBVIOUS
<1>1. PICK i \in DOMAIN keys :
        /\ Before(keys[i], r, s)
        /\ \A j \in (i + 1)..Len(keys) : ~Before(keys[j], s, r) /\ ~Before(keys[j], r, s)
  BY DEF LastKeyFirst
<1>2. PICK m \in DOMAIN keys :
        /\ Before(keys[m], s, r)
        /\ \A j \in (m + 1)..Len(keys) : ~Before(keys[j], r, s) /\ ~Before(keys[j], s, r)
  BY DEF LastKeyFirst
<1>3. i = m \/ i \in (m + 1)..Len(keys) \/ m \in (i + 1)..Len(keys)
  OBVIOUS
<1>4. i # m
  BY <1>1, <1>2, BeforeOrders
<1> QED BY <1>1, <1>2, <1>3, <1>4

\* t is recs, rearranged by p as the first l keys have it.
Arranged(recs, keys, l, t, p) ==
  /\ t \in Seq(Records) /\ Len(t) = Len(recs)
  /\ p \in Rearrangements(Len(recs))
  /\ \A m \in 1..Len(recs) : t[m] = recs[p[m]]
  /\ \A m, n \in 1..Len(recs) : m < n =>
       \/ Leads(keys, l, recs[p[m]], recs[p[n]])
       \/ ~Leads(keys, l, recs[p[n]], recs[p[m]]) /\ p[m] < p[n]

\* Sorting once more, by the next key.
LEMMA ArrangedNext ==
  ASSUME NEW recs \in Seq(Records), NEW keys \in Seq(OrderKeys), NEW l \in 1..Len(keys),
         NEW t, \E p : Arranged(recs, keys, l - 1, t, p)
  PROVE  \E p : Arranged(recs, keys, l, SortedBy(t, keys[l]), p)
<1>1. PICK p : Arranged(recs, keys, l - 1, t, p)
  OBVIOUS
<1>2. PICK N, k, u : N = Len(recs) /\ k = keys[l] /\ u = SortedBy(t, k)
  OBVIOUS
<1>3. N \in Nat /\ k \in OrderKeys /\ t \in Seq(Records) /\ Len(t) = N
  BY <1>1, <1>2 DEF Arranged
<1>4. /\ u \in Seq(Records) /\ Len(u) = N
      /\ \E q \in Rearrangements(N) :
           /\ \A m \in 1..N : u[m] = t[q[m]]
           /\ \A m, n \in 1..N : m < n =>
                \/ Before(k, t[q[m]], t[q[n]])
                \/ ~Before(k, t[q[n]], t[q[m]]) /\ q[m] < q[n]
  <2>1. /\ SortedBy(t, k) \in Seq(Records) /\ Len(SortedBy(t, k)) = Len(t)
        /\ \E q \in Rearrangements(Len(t)) :
             /\ \A m \in 1..Len(t) : SortedBy(t, k)[m] = t[q[m]]
             /\ \A m, n \in 1..Len(t) : m < n =>
                  \/ Before(k, t[q[m]], t[q[n]])
                  \/ ~Before(k, t[q[n]], t[q[m]]) /\ q[m] < q[n]
    BY <1>3, SortedByMeans, Zenon
  <2> QED BY <1>2, <1>3, <2>1, Zenon
<1>5. PICK q \in Rearrangements(N) :
        /\ \A m \in 1..N : u[m] = t[q[m]]
        /\ \A m, n \in 1..N : m < n =>
             \/ Before(k, t[q[m]], t[q[n]])
             \/ ~Before(k, t[q[n]], t[q[m]]) /\ q[m] < q[n]
  BY <1>4
<1>6. /\ p \in Rearrangements(N) /\ p \in [1..N -> 1..N] /\ q \in [1..N -> 1..N]
      /\ \A m \in 1..N : t[m] = recs[p[m]]
      /\ \A m, n \in 1..N : m < n =>
           \/ Leads(keys, l - 1, recs[p[m]], recs[p[n]])
           \/ ~Leads(keys, l - 1, recs[p[n]], recs[p[m]]) /\ p[m] < p[n]
  BY <1>1, <1>2 DEF Arranged, Rearrangements
<1> DEFINE o == [m \in 1..N |-> p[q[m]]]
<1>7. o \in Rearrangements(N)
  BY <1>3, <1>6, RearrangedTwice
<1>8. \A m \in 1..N : u[m] = recs[o[m]] /\ o[m] = p[q[m]] /\ t[q[m]] = recs[o[m]]
  BY <1>5, <1>6
<1> HIDE DEF o
<1>9. ASSUME NEW m \in 1..N, NEW n \in 1..N, m < n
      PROVE  \/ Leads(keys, l, recs[o[m]], recs[o[n]])
             \/ ~Leads(keys, l, recs[o[n]], recs[o[m]]) /\ o[m] < o[n]
  <2>1. PICK r, s : r = recs[o[m]] /\ s = recs[o[n]]
    OBVIOUS
  <2>2. Before(k, r, s) \/ (~Before(k, s, r) /\ q[m] < q[n])
    BY <1>5, <1>8, <1>9, <2>1
  <2>3. /\ Before(keys[l], r, s) => Leads(keys, l, r, s)
        /\ ~Before(keys[l], s, r) /\ ~Before(keys[l], r, s) =>
             (Leads(keys, l, r, s) <=> Leads(keys, l - 1, r, s))
        /\ ~Before(keys[l], r, s) /\ ~Before(keys[l], s, r) =>
             (Leads(keys, l, s, r) <=> Leads(keys, l - 1, s, r))
    BY LeadsStep
  <2>4. CASE Before(k, r, s)
    BY <1>2, <2>1, <2>3, <2>4
  <2>5. CASE ~Before(k, r, s)
    <3>1. ~Before(k, s, r) /\ q[m] < q[n]
      BY <2>2, <2>5
    <3>2. \/ Leads(keys, l - 1, r, s)
          \/ ~Leads(keys, l - 1, s, r) /\ o[m] < o[n]
      <4>1. PICK a, b \in 1..N : a = q[m] /\ b = q[n]
        BY <1>6
      <4>2. a < b /\ r = recs[p[a]] /\ s = recs[p[b]] /\ o[m] = p[a] /\ o[n] = p[b]
        BY <1>8, <2>1, <3>1, <4>1
      <4> QED BY <1>6, <4>2
    <3> QED BY <1>2, <2>1, <2>3, <2>5, <3>1, <3>2
  <2> QED BY <2>4, <2>5
<1>10. Arranged(recs, keys, l, u, o)
  BY <1>2, <1>4, <1>7, <1>8, <1>9 DEF Arranged
<1> QED BY <1>2, <1>10

(* What sorting an array once per key comes to, for any array and any keys. *)
LEMMA SortedMeans ==
  ASSUME NEW recs \in Seq(Records), NEW keys \in Seq(OrderKeys)
  PROVE  /\ Sorted(recs, keys) \in Seq(Records)
         /\ Len(Sorted(recs, keys)) = Len(recs)
         /\ \E p \in Rearrangements(Len(recs)) :
              /\ \A m \in 1..Len(recs) : Sorted(recs, keys)[m] = recs[p[m]]
              /\ \A m, n \in 1..Len(recs) : m < n =>
                   \/ LastKeyFirst(keys, recs[p[m]], recs[p[n]])
                   \/ ~LastKeyFirst(keys, recs[p[n]], recs[p[m]]) /\ p[m] < p[n]
<1>1. Len(keys) \in Nat /\ DOMAIN keys = 1..Len(keys) /\ Len(recs) \in Nat
  OBVIOUS
<1>2. PICK after : /\ after[0] = recs
                   /\ \A i \in 1..Len(keys) : after[i] = SortedBy(after[i - 1], keys[i])
                   /\ Sorted(recs, keys) = after[Len(keys)]
  BY <1>1, SortedSteps
<1> DEFINE T == {i \in 0..Len(keys) : \E p : Arranged(recs, keys, i, after[i], p)}
<1>3. 0 \in T
  <2> DEFINE p == [m \in 1..Len(recs) |-> m]
  <2>1. p \in Rearrangements(Len(recs)) /\ \A m \in 1..Len(recs) : p[m] = m
    BY <1>1, Unmoved
  <2> HIDE DEF p
  <2>2. \A r, s : ~Leads(keys, 0, r, s)
    BY DEF Leads
  <2>3. Arranged(recs, keys, 0, after[0], p)
    BY <1>2, <2>1, <2>2 DEF Arranged
  <2> QED BY <1>1, <2>3
<1>4. ASSUME NEW i \in 1..Len(keys), i - 1 \in T
      PROVE  i \in T
  <2>1. \E p : Arranged(recs, keys, i - 1, after[i - 1], p)
    BY <1>4
  <2>2. \E p : Arranged(recs, keys, i, SortedBy(after[i - 1], keys[i]), p)
    BY <2>1, ArrangedNext
  <2> QED BY <1>2, <2>2
<1>5. Len(keys) \in T
  <2>1. T \in SUBSET (0..Len(keys)) /\ Len(keys) \in 0..Len(keys)
    BY <1>1
  <2> HIDE DEF T
  <2> QED BY <1>1, <1>3, <1>4, <2>1, Upwards
<1>6. PICK p : Arranged(recs, keys, Len(keys), Sorted(recs, keys), p)
  BY <1>2, <1>5
<1>7. \A r, s : Leads(keys, Len(keys), r, s) <=> LastKeyFirst(keys, r, s)
  BY <1>1 DEF Leads, LastKeyFirst
<1> QED BY <1>6, <1>7 DEF Arranged

-----------------------------------------------------------------------------
(* Filters.                                                                 *)

Nodes(F) == [filter : F, operation : {"AND", "OR", "NONE"}]

\* The expressions made of the filters F.
Expressions(F) == [type : {"EXPRESSION"}, nodes : Seq(Nodes(F)) \ {<<>>}]

\* A new node behind the last, which gets the operation.
LEMMA LinkedMeans ==
  ASSUME NEW F, NEW e \in Expressions(F), NEW op \in {"AND", "OR"}, NEW f \in F
  PROVE  /\ Linked(e, op, f) \in Expressions(F)
         /\ Len(e.nodes) \in Nat \ {0}
         /\ Len(Linked(e, op, f).nodes) = Len(e.nodes) + 1
         /\ \A i \in 1..Len(e.nodes) :
              /\ Linked(e, op, f).nodes[i].filter = e.nodes[i].filter
              /\ Linked(e, op, f).nodes[i].operation =
                   IF i = Len(e.nodes) THEN op ELSE e.nodes[i].operation
<1>1. PICK s, N : s = e.nodes /\ N = Len(s)
  OBVIOUS
<1>2. s \in Seq(Nodes(F)) /\ s # <<>> /\ N \in Nat \ {0} /\ e.type = "EXPRESSION"
  BY <1>1 DEF Expressions
<1> DEFINE t == [s EXCEPT ![N].operation = op]
<1>3. Node(f) \in Nodes(F)
  BY DEF Node, Nodes
<1>4. /\ t \in Seq(Nodes(F)) /\ Len(t) = N
      /\ \A i \in 1..N : /\ t[i].filter = s[i].filter
                         /\ t[i].operation = IF i = N THEN op ELSE s[i].operation
  <2>1. s \in [1..N -> Nodes(F)]
    BY <1>1, <1>2
  <2>2. /\ t \in [1..N -> Nodes(F)]
        /\ \A i \in 1..N : /\ t[i].filter = s[i].filter
                           /\ t[i].operation = IF i = N THEN op ELSE s[i].operation
    BY <1>2, <2>1 DEF Nodes
  <2> HIDE DEF t
  <2> QED BY <1>2, <2>2
<1>5. Linked(e, op, f) = [e EXCEPT !.nodes = Append(t, Node(f))]
  BY <1>1 DEF Linked
<1> HIDE DEF t
<1>6. /\ Append(t, Node(f)) \in Seq(Nodes(F)) \ {<<>>}
      /\ Len(Append(t, Node(f))) = N + 1
      /\ \A i \in 1..N : Append(t, Node(f))[i] = t[i]
  BY <1>2, <1>3, <1>4
<1>7. /\ Linked(e, op, f) \in Expressions(F)
      /\ Linked(e, op, f).nodes = Append(t, Node(f))
  BY <1>5, <1>6 DEF Expressions
<1> QED BY <1>1, <1>2, <1>4, <1>6, <1>7

LEMMA FiltersAre == Filters \subseteq Terms \cup Expressions(Filters)
<1>1. ASSUME NEW t \in Terms, NEW u \in Terms, NEW op \in {"AND", "OR"}
      PROVE  Linked(Expression(t), op, u) \in Expressions(Filters)
  <2>1. <<Node(t)>> \in Seq(Nodes(Filters)) \ {<<>>}
    <3>1. t \in Filters
      BY DEF Filters
    <3>2. Node(t) \in Nodes(Filters)
      BY <3>1 DEF Node, Nodes
    <3> QED BY <3>2
  <2>2. Expression(t) \in Expressions(Filters)
    BY <2>1 DEF Expression, Expressions
  <2>3. u \in Filters
    BY DEF Filters
  <2> QED BY <2>2, <2>3, LinkedMeans
<1> QED BY <1>1 DEF Filters

\* What the builder can make of filters.
Wheres == {None} \cup Terms \cup Expressions(Filters)

LEMMA JoinedIs ==
  ASSUME NEW w \in Wheres, NEW op \in {"AND", "OR"}, NEW f \in Filters
  PROVE  /\ Joined(w, op, f) \in Wheres
         /\ w.type = "EXPRESSION" =>
              w \in Expressions(Filters) /\ Joined(w, op, f) = Linked(w, op, f)
<1>1. /\ None.type = "NONE"
      /\ \A t \in Terms : t.type = "TERM"
      /\ \A e \in Expressions(Filters) : e.type = "EXPRESSION"
  BY QueriesAssumption DEF None, Expressions
<1>2. Expression(f) \in Expressions(Filters)
  <2>1. <<Node(f)>> \in Seq(Nodes(Filters)) \ {<<>>}
    <3>1. Node(f) \in Nodes(Filters)
      BY DEF Node, Nodes
    <3> QED BY <3>1
  <2> QED BY <2>1 DEF Expression, Expressions
<1>3. CASE w = None
  BY <1>1, <1>3, FiltersAre DEF Joined, Wheres
<1>4. CASE w \in Terms
  BY <1>1, <1>2, <1>4, LinkedMeans DEF Joined, Wheres
<1>5. CASE w \in Expressions(Filters)
  BY <1>1, <1>5, LinkedMeans DEF Joined, Wheres
<1> QED BY <1>3, <1>4, <1>5 DEF Wheres

\* What a new node does to what a chain lets through: passes of the new chain.
LEMMA ChainLinked ==
  ASSUME NEW F, NEW e \in Expressions(F), NEW op \in {"AND", "OR"}, NEW f \in F,
         NEW old, NEW new,
         \A i \in 1..Len(e.nodes) : new[i] = old[i]
  PROVE  /\ op = "AND" => (ChainHolds(Linked(e, op, f).nodes, new) => ChainHolds(e.nodes, old))
         /\ op = "OR" => (ChainHolds(e.nodes, old) => ChainHolds(Linked(e, op, f).nodes, new))
<1>1. PICK s, u, N : s = e.nodes /\ u = Linked(e, op, f).nodes /\ N = Len(s)
  OBVIOUS
<1>2. /\ N \in Nat \ {0} /\ Len(u) = N + 1
      /\ \A i \in 1..N : u[i].operation = IF i = N THEN op ELSE s[i].operation
  BY <1>1, LinkedMeans
<1>3. DOMAIN s = 1..N /\ DOMAIN u = 1..(N + 1)
  <2>1. s \in Seq(Nodes(F)) /\ u \in Seq(Nodes(F))
    BY <1>1, LinkedMeans DEF Expressions
  <2> QED BY <1>1, <1>2, <2>1
<1>4. \A i \in 1..N : new[i] = old[i]
  BY <1>1
<1>5. ASSUME op = "AND", ChainHolds(u, new)
      PROVE  ChainHolds(s, old)
  <2>1. PICK i \in 1..(N + 1) :
          /\ new[i]
          /\ i = N + 1 \/ u[i].operation = "OR"
          /\ \A j \in 1..(i - 1) : u[j].operation = "AND" => new[j]
    BY <1>2, <1>3, <1>5 DEF ChainHolds
  <2>2. CASE i = N + 1
    <3>1. N \in 1..(i - 1) /\ N \in 1..N /\ \A j \in 1..(N - 1) : j \in 1..(i - 1) /\ j \in 1..N /\ j # N
      BY <1>2, <2>2
    <3>2. old[N]
      BY <1>2, <1>4, <1>5, <2>1, <3>1
    <3>3. \A j \in 1..(N - 1) : s[j].operation = "AND" => old[j]
      BY <1>2, <1>4, <2>1, <3>1
    <3> QED BY <1>1, <1>3, <3>1, <3>2, <3>3 DEF ChainHolds
  <2>3. CASE i # N + 1
    <3>1. i \in 1..N /\ \A j \in 1..(i - 1) : j \in 1..N /\ j # N
      BY <1>2, <2>3
    <3>2. i # N /\ s[i].operation = "OR"
      BY <1>2, <1>5, <2>1, <2>3, <3>1
    <3>3. \A j \in 1..(i - 1) : s[j].operation = "AND" => old[j]
      BY <1>2, <1>4, <2>1, <3>1
    <3>4. old[i]
      BY <1>4, <2>1, <3>1
    <3> QED BY <1>3, <3>1, <3>2, <3>3, <3>4 DEF ChainHolds
  <2> QED BY <2>2, <2>3
<1>6. ASSUME op = "OR", ChainHolds(s, old)
      PROVE  ChainHolds(u, new)
  <2>1. PICK i \in 1..N :
          /\ old[i]
          /\ i = N \/ s[i].operation = "OR"
          /\ \A j \in 1..(i - 1) : s[j].operation = "AND" => old[j]
    BY <1>1, <1>3, <1>6 DEF ChainHolds
  <2>2. i \in 1..(N + 1) /\ \A j \in 1..(i - 1) : j \in 1..N /\ j # N
    BY <1>2
  <2>3. u[i].operation = "OR" /\ new[i]
    BY <1>2, <1>4, <1>6, <2>1
  <2>4. \A j \in 1..(i - 1) : u[j].operation = "AND" => new[j]
    BY <1>2, <1>4, <2>1, <2>2
  <2> QED BY <1>3, <2>2, <2>3, <2>4 DEF ChainHolds
<1> QED BY <1>1, <1>5, <1>6

\* andWhere and orWhere on an expression.
LEMMA LinkedMatches ==
  ASSUME NEW e \in Expressions(Filters), NEW f \in Filters
  PROVE  /\ Matching(Linked(e, "AND", f)) \subseteq Matching(e)
         /\ Matching(e) \subseteq Matching(Linked(e, "OR", f))
<1>1. ASSUME NEW op \in {"AND", "OR"}, NEW r \in Records
      PROVE  /\ op = "AND" => (Holds(Linked(e, op, f), r) => Holds(e, r))
             /\ op = "OR" => (Holds(e, r) => Holds(Linked(e, op, f), r))
  <2> DEFINE passes(w) == [i \in DOMAIN w.nodes |-> FilterHolds(w.nodes[i].filter, r)]
  <2>1. PICK w : w = Linked(e, op, f)
    OBVIOUS
  <2>2. /\ w \in Expressions(Filters) /\ Len(e.nodes) \in Nat
        /\ Len(w.nodes) = Len(e.nodes) + 1
        /\ \A i \in 1..Len(e.nodes) : w.nodes[i].filter = e.nodes[i].filter
    BY <2>1, LinkedMeans
  <2>3. DOMAIN e.nodes = 1..Len(e.nodes) /\ DOMAIN w.nodes = 1..(Len(e.nodes) + 1)
    <3>1. e.nodes \in Seq(Nodes(Filters)) /\ w.nodes \in Seq(Nodes(Filters))
      BY <2>2 DEF Expressions
    <3> QED BY <2>2, <3>1
  <2>4. \A i \in 1..Len(e.nodes) : passes(w)[i] = passes(e)[i]
    BY <2>2, <2>3
  <2>5. \A v \in Expressions(Filters) : Holds(v, r) <=> ChainHolds(v.nodes, passes(v))
    BY DEF Expressions, Holds
  <2> HIDE DEF passes
  <2>6. /\ op = "AND" => (ChainHolds(w.nodes, passes(w)) => ChainHolds(e.nodes, passes(e)))
        /\ op = "OR" => (ChainHolds(e.nodes, passes(e)) => ChainHolds(w.nodes, passes(w)))
    BY <2>1, <2>4, ChainLinked
  <2> QED BY <2>1, <2>2, <2>5, <2>6
<1> QED BY <1>1 DEF Matching

-----------------------------------------------------------------------------
(* The inductive invariant.                                                 *)

\* What the builder has made, whatever the calls and their order.
BuilderInv ==
  /\ where \in Wheres
  /\ order \in Seq(OrderKeys)
  /\ offset \in Nat \cup {Undefined} /\ limit \in Nat \cup {Undefined}

\* The same records in two databases, in whatever order.
SameRecords(s, t) == ToSet(s) = ToSet(t) /\ Len(s) = Len(t)

TablesInv ==
  /\ array \in Arrays
  /\ memory \in Seq(Records) /\ browser \in Seq(Records)
  /\ \A i \in DOMAIN browser : browser[i].key = i
  /\ IsArray => SameRecords(memory, browser)

QueriesInv == BuilderInv /\ TablesInv /\ steps \in 0..MaxSteps

\* The records are those of the array, whichever way they are rearranged.
LEMMA RearrangedSame ==
  ASSUME NEW S, NEW s \in Seq(S), NEW t \in Seq(S), Len(t) = Len(s),
         NEW p \in Rearrangements(Len(s)), \A m \in 1..Len(s) : t[m] = s[p[m]]
  PROVE  SameRecords(t, s)
<1>1. DOMAIN s = 1..Len(s) /\ DOMAIN t = 1..Len(s)
  OBVIOUS
<1>2. /\ p \in [1..Len(s) -> 1..Len(s)]
      /\ \A i \in 1..Len(s) : \E m \in 1..Len(s) : p[m] = i
  BY DEF Rearrangements
<1>3. ToSet(t) \subseteq ToSet(s)
  BY <1>1, <1>2 DEF ToSet
<1>4. ToSet(s) \subseteq ToSet(t)
  <2>1. \A i \in 1..Len(s) : \E m \in 1..Len(s) : t[m] = s[i]
    BY <1>2
  <2>2. ToSet(s) = {s[i] : i \in 1..Len(s)} /\ ToSet(t) = {t[i] : i \in 1..Len(s)}
    BY <1>1 DEF ToSet
  <2> QED BY <2>1, <2>2, Zenon
<1> QED BY <1>3, <1>4 DEF SameRecords

LEMMA SortedSame ==
  ASSUME NEW recs \in Seq(Records), NEW keys \in Seq(OrderKeys)
  PROVE  Sorted(recs, keys) \in Seq(Records) /\ SameRecords(Sorted(recs, keys), recs)
<1>1. PICK t : t = Sorted(recs, keys)
  OBVIOUS
<1>2. /\ t \in Seq(Records) /\ Len(t) = Len(recs)
      /\ \E p \in Rearrangements(Len(recs)) : \A m \in 1..Len(recs) : t[m] = recs[p[m]]
  BY <1>1, SortedMeans
<1>3. SameRecords(t, recs)
  BY <1>2, RearrangedSame
<1> QED BY <1>1, <1>2, <1>3

LEMMA InitQueries == Init => QueriesInv
<1> SUFFICES ASSUME Init PROVE QueriesInv
  OBVIOUS
<1>1. <<>> \in Seq(OrderKeys)
  OBVIOUS
<1>2. BuilderInv
  BY <1>1 DEF Init, BuilderInv, Wheres
<1>3. PICK n \in 0..MaxKey :
        browser \in [1..n -> Records] /\ \A i \in 1..n : browser[i].key = i
  BY DEF Init
<1>4. n \in Nat
  BY QueriesAssumption
<1>5. browser \in Seq(Records) /\ DOMAIN browser = 1..n
  BY <1>3, <1>4
<1>6. TablesInv
  BY <1>3, <1>5 DEF Init, TablesInv, Arrays, SameRecords
<1> QED BY <1>2, <1>6, QueriesAssumption DEF Init, QueriesInv

LEMMA BuildKeeps ==
  ASSUME BuilderInv, Build
  PROVE  BuilderInv'
<1>1. ASSUME NEW f \in Filters, Where(f) \/ JoinWhere("AND", f) \/ JoinWhere("OR", f)
      PROVE  BuilderInv'
  <2>1. f \in Wheres /\ Joined(where, "AND", f) \in Wheres /\ Joined(where, "OR", f) \in Wheres
    BY FiltersAre, JoinedIs DEF BuilderInv, Wheres
  <2> QED BY <1>1, <2>1 DEF BuilderInv, Where, JoinWhere
<1>2. ASSUME NEW k \in OrderKeys, OrderBy(k) \/ ThenOrderBy(k)
      PROVE  BuilderInv'
  <2>1. <<k>> \in Seq(OrderKeys) /\ Append(order, k) \in Seq(OrderKeys)
    BY DEF BuilderInv
  <2> QED BY <1>2, <2>1 DEF BuilderInv, OrderBy, ThenOrderBy
<1>3. ASSUME NEW n \in 0..MaxKey, Offset(n) \/ Limit(n) \/ \E p \in 0..1 : Page(p, n)
      PROVE  BuilderInv'
  <2>1. n \in Nat /\ n * 0 = 0 /\ n * 1 = n
    BY QueriesAssumption
  <2>2. \A p \in 0..1 : n * p \in Nat
    BY <2>1
  <2> QED BY <1>3, <2>1, <2>2 DEF BuilderInv, Offset, Limit, Page
<1> QED BY <1>1, <1>2, <1>3 DEF Build

\* put() of a key that is there, on either side.
LEMMA PutKeeps ==
  ASSUME TablesInv, NEW r \in Records, PutBoth(r)
  PROVE  TablesInv'
<1> DEFINE put(s) == [i \in DOMAIN s |-> IF s[i].key = r.key THEN r ELSE s[i]]
<1>1. ASSUME NEW s \in Seq(Records)
      PROVE  /\ put(s) \in Seq(Records) /\ Len(put(s)) = Len(s) /\ DOMAIN put(s) = DOMAIN s
             /\ \A v : v \in ToSet(put(s)) <=>
                  \E u \in ToSet(s) : v = IF u.key = r.key THEN r ELSE u
  <2>1. put(s) \in Seq(Records) /\ Len(put(s)) = Len(s) /\ DOMAIN put(s) = DOMAIN s
    OBVIOUS
  <2>2. \A i \in DOMAIN s : put(s)[i] = IF s[i].key = r.key THEN r ELSE s[i]
    OBVIOUS
  <2> HIDE DEF put
  <2>3. \A v : v \in ToSet(put(s)) <=>
          \E u \in ToSet(s) : v = IF u.key = r.key THEN r ELSE u
    BY <2>1, <2>2, Zenon DEF ToSet
  <2> QED BY <2>1, <2>3
<1>2. memory' = put(memory) /\ browser' = put(browser) /\ array' = array /\ IsArray
  BY DEF PutBoth
<1>3. \A i \in DOMAIN browser : put(browser)[i].key = i
  BY DEF TablesInv
<1> HIDE DEF put
<1>4. ToSet(put(memory)) = ToSet(put(browser)) /\ Len(put(memory)) = Len(put(browser))
  <2>1. /\ memory \in Seq(Records) /\ browser \in Seq(Records)
        /\ ToSet(memory) = ToSet(browser) /\ Len(memory) = Len(browser)
    BY <1>2 DEF TablesInv, SameRecords
  <2>2. \A v : v \in ToSet(put(memory)) <=> v \in ToSet(put(browser))
    <3>1. /\ \A v : v \in ToSet(put(memory)) <=>
                \E u \in ToSet(memory) : v = IF u.key = r.key THEN r ELSE u
          /\ \A v : v \in ToSet(put(browser)) <=>
                \E u \in ToSet(browser) : v = IF u.key = r.key THEN r ELSE u
      BY <1>1, <2>1, Zenon
    <3> QED BY <2>1, <3>1, Zenon
  <2>3. Len(put(memory)) = Len(put(browser))
    BY <1>1, <2>1
  <2> QED BY <2>2, <2>3
<1>5. SameRecords(memory', browser')
  BY <1>2, <1>4 DEF SameRecords
<1> QED BY <1>1, <1>2, <1>3, <1>5 DEF TablesInv

LEMMA AddKeeps ==
  ASSUME TablesInv, NEW r \in Records, AddBoth(r)
  PROVE  TablesInv'
<1>1. /\ memory' = Append(memory, r) /\ browser' = Append(browser, r)
      /\ array' = array /\ IsArray /\ r.key = Len(browser) + 1
  BY DEF AddBoth
<1>2. ASSUME NEW s \in Seq(Records)
      PROVE  /\ Append(s, r) \in Seq(Records) /\ Len(Append(s, r)) = Len(s) + 1
             /\ DOMAIN Append(s, r) = 1..(Len(s) + 1)
             /\ \A i \in 1..Len(s) : Append(s, r)[i] = s[i]
             /\ Append(s, r)[Len(s) + 1] = r
             /\ ToSet(Append(s, r)) = ToSet(s) \cup {r}
  <2>1. /\ Append(s, r) \in Seq(Records) /\ Len(Append(s, r)) = Len(s) + 1
        /\ DOMAIN Append(s, r) = 1..(Len(s) + 1) /\ DOMAIN s = 1..Len(s)
        /\ \A i \in 1..Len(s) : Append(s, r)[i] = s[i]
        /\ Append(s, r)[Len(s) + 1] = r
    OBVIOUS
  <2>2. \A i \in 1..(Len(s) + 1) : i \in 1..Len(s) \/ i = Len(s) + 1
    OBVIOUS
  <2>3. Len(s) + 1 \in 1..(Len(s) + 1) /\ \A i \in 1..Len(s) : i \in 1..(Len(s) + 1)
    OBVIOUS
  <2>4. ToSet(Append(s, r)) = ToSet(s) \cup {r}
    BY <2>1, <2>2, <2>3, Zenon DEF ToSet
  <2> QED BY <2>1, <2>4
<1>3. \A i \in DOMAIN browser' : browser'[i].key = i
  <2>1. DOMAIN browser' = 1..(Len(browser) + 1) /\ DOMAIN browser = 1..Len(browser)
    BY <1>1, <1>2 DEF TablesInv
  <2>2. \A i \in 1..(Len(browser) + 1) : i \in 1..Len(browser) \/ i = Len(browser) + 1
    BY DEF TablesInv
  <2> QED BY <1>1, <1>2, <2>1, <2>2 DEF TablesInv
<1>4. SameRecords(memory', browser')
  BY <1>1, <1>2 DEF TablesInv, SameRecords
<1> QED BY <1>1, <1>2, <1>3, <1>4 DEF TablesInv

LEMMA UseKeeps ==
  ASSUME QueriesInv, Use
  PROVE  TablesInv'
<1>1. TablesInv /\ order \in Seq(OrderKeys)
  BY DEF QueriesInv, BuilderInv
<1>2. CASE MemorySelect
  <2>1. /\ memory' = Sorted(memory, order) /\ browser' = browser /\ array' = array
    BY <1>2 DEF MemorySelect
  <2>2. Sorted(memory, order) \in Seq(Records) /\ SameRecords(Sorted(memory, order), memory)
    BY <1>1, SortedSame DEF TablesInv
  <2>3. IsArray' => SameRecords(memory', browser')
    BY <1>1, <2>1, <2>2 DEF TablesInv, SameRecords, IsArray
  <2>4. memory' \in Seq(Records)
    BY <2>1, <2>2
  <2>5. /\ array' \in Arrays /\ browser' \in Seq(Records)
        /\ \A i \in DOMAIN browser' : browser'[i].key = i
    BY <1>1, <2>1 DEF TablesInv
  <2> QED BY <2>3, <2>4, <2>5 DEF TablesInv
<1>3. CASE ClearBoth \/ MemoryDrop
  <2>1. /\ memory' = <<>> /\ (browser' = <<>> \/ browser' = browser)
        /\ array' \in {"object", "undefined"}
    BY <1>3 DEF ClearBoth, MemoryDrop
  <2>2. <<>> \in Seq(Records) /\ \A i \in DOMAIN <<>> : FALSE
    OBVIOUS
  <2>3. browser' \in Seq(Records) /\ \A i \in DOMAIN browser' : browser'[i].key = i
    BY <1>1, <2>1, <2>2 DEF TablesInv
  <2> QED BY <2>1, <2>2, <2>3 DEF TablesInv, IsArray, Arrays
<1> QED BY <1>1, <1>2, <1>3, PutKeeps, AddKeeps DEF Use

LEMMA NextQueries == QueriesInv /\ [Next]_vars => QueriesInv'
<1> SUFFICES ASSUME QueriesInv, [Next]_vars PROVE QueriesInv'
  OBVIOUS
<1>1. CASE Next
  <2>1. steps' \in 0..MaxSteps
    BY <1>1, QueriesAssumption DEF Next, QueriesInv
  <2>2. CASE Build /\ UNCHANGED tableVars
    <3>1. BuilderInv'
      BY <2>2, BuildKeeps DEF QueriesInv
    <3>2. TablesInv'
      BY <2>2 DEF tableVars, QueriesInv, TablesInv, SameRecords, IsArray
    <3> QED BY <2>1, <3>1, <3>2 DEF QueriesInv
  <2>3. CASE Use /\ UNCHANGED builderVars
    <3>1. BuilderInv'
      BY <2>3 DEF builderVars, QueriesInv, BuilderInv
    <3>2. TablesInv'
      BY <2>3, UseKeeps
    <3> QED BY <2>1, <3>1, <3>2 DEF QueriesInv
  <2> QED BY <1>1, <2>2, <2>3 DEF Next
<1>2. CASE UNCHANGED vars
  BY <1>2 DEF vars, tableVars, builderVars, QueriesInv, BuilderInv, TablesInv, SameRecords, IsArray
<1> QED BY <1>1, <1>2

LEMMA QueriesInvariant == Spec => []QueriesInv
<1>1. Init => QueriesInv BY InitQueries
<1>2. QueriesInv /\ [Next]_vars => QueriesInv' BY NextQueries
<1> QED BY <1>1, <1>2, PTL DEF Spec

LEMMA WhereTypes == \A w \in Wheres : w.type \in {"NONE", "TERM", "EXPRESSION"}
BY QueriesAssumption DEF Wheres, None, Expressions

(* What a select holds and what it runs on stay what the code expects: an
   expression is never without a node, an offset or a limit never negative,
   whatever the calls of the builder. *)
THEOREM TypeCorrect == Spec => []TypeOK
<1>1. Spec => []QueriesInv BY QueriesInvariant
<1>2. QueriesInv => TypeOK
  BY WhereTypes DEF QueriesInv, BuilderInv, TablesInv, TypeOK
<1> QED BY <1>1, <1>2, PTL

(* andWhere only narrows a select that has an expression and orWhere only
   widens it, for every set of records, terms and filters, although the chain
   of nodes has no precedence. *)
THEOREM JoiningCorrect == Spec => AndNarrowsOrWidens
<1>1. Spec => []QueriesInv BY QueriesInvariant
<1>2. QueriesInv /\ [Next]_vars =>
        [\A f \in Filters :
           where.type = "EXPRESSION" =>
             /\ where' = Joined(where, "AND", f) => Matching(where') \subseteq Matching(where)
             /\ where' = Joined(where, "OR", f) => Matching(where) \subseteq Matching(where')]_vars
  <2> SUFFICES ASSUME QueriesInv, NEW f \in Filters, where.type = "EXPRESSION"
               PROVE  /\ where' = Joined(where, "AND", f) =>
                           Matching(where') \subseteq Matching(where)
                      /\ where' = Joined(where, "OR", f) =>
                           Matching(where) \subseteq Matching(where')
    OBVIOUS
  <2>1. PICK w, v : w = where /\ v = where'
    OBVIOUS
  <2>2. w \in Wheres /\ w.type = "EXPRESSION"
    BY <2>1 DEF QueriesInv, BuilderInv
  <2>3. /\ w \in Expressions(Filters)
        /\ Joined(w, "AND", f) = Linked(w, "AND", f) /\ Joined(w, "OR", f) = Linked(w, "OR", f)
    BY <2>2, JoinedIs
  <2>4. /\ v = Joined(w, "AND", f) => Matching(v) \subseteq Matching(w)
        /\ v = Joined(w, "OR", f) => Matching(w) \subseteq Matching(v)
    BY <2>3, LinkedMatches
  <2> QED BY <2>1, <2>4
<1> QED BY <1>1, <1>2, PTL DEF Spec, AndNarrowsOrWidens

-----------------------------------------------------------------------------
(* Answers.                                                                 *)

(* An array sorted once per key is in the order of its last key, ties broken by
   the earlier keys and then by the order of the store, with every record kept:
   for any records and any number of keys. *)
THEOREM OrderedCorrect == Spec => []OrderedByLastKeyFirst
<1>1. Spec => []QueriesInv BY QueriesInvariant
<1>2. QueriesInv => OrderedByLastKeyFirst
  <2> SUFFICES ASSUME QueriesInv PROVE OrderedByLastKeyFirst
    OBVIOUS
  <2>1. PICK b, o, t : b = browser /\ o = order /\ t = Sorted(b, o)
    OBVIOUS
  <2>2. /\ b \in Seq(Records) /\ o \in Seq(OrderKeys)
        /\ \A i \in DOMAIN b : b[i].key = i
    BY <2>1 DEF QueriesInv, BuilderInv, TablesInv
  <2>3. ToSet(t) = ToSet(b) /\ Len(t) = Len(b)
    BY <2>1, <2>2, SortedSame DEF SameRecords
  <2>4. /\ t \in Seq(Records)
        /\ \E p \in Rearrangements(Len(b)) :
             /\ \A m \in 1..Len(b) : t[m] = b[p[m]]
             /\ \A m, n \in 1..Len(b) : m < n =>
                  \/ LastKeyFirst(o, b[p[m]], b[p[n]])
                  \/ ~LastKeyFirst(o, b[p[n]], b[p[m]]) /\ p[m] < p[n]
    <3>1. /\ Sorted(b, o) \in Seq(Records)
          /\ \E p \in Rearrangements(Len(b)) :
               /\ \A m \in 1..Len(b) : Sorted(b, o)[m] = b[p[m]]
               /\ \A m, n \in 1..Len(b) : m < n =>
                    \/ LastKeyFirst(o, b[p[m]], b[p[n]])
                    \/ ~LastKeyFirst(o, b[p[n]], b[p[m]]) /\ p[m] < p[n]
      BY <2>2, SortedMeans, Zenon
    <3> QED BY <2>1, <3>1
  <2>5. PICK p \in Rearrangements(Len(b)) :
          /\ \A m \in 1..Len(b) : t[m] = b[p[m]]
          /\ \A m, n \in 1..Len(b) : m < n =>
               \/ LastKeyFirst(o, b[p[m]], b[p[n]])
               \/ ~LastKeyFirst(o, b[p[n]], b[p[m]]) /\ p[m] < p[n]
    BY <2>4
  <2>6. DOMAIN t = 1..Len(b) /\ DOMAIN b = 1..Len(b) /\ p \in [1..Len(b) -> 1..Len(b)]
    <3>1. Len(b) \in Nat /\ DOMAIN b = 1..Len(b) /\ DOMAIN t = 1..Len(t)
      BY <2>2, <2>4
    <3> QED BY <2>3, <3>1 DEF Rearrangements
  <2>7. ASSUME NEW i \in DOMAIN t, NEW j \in DOMAIN t, i < j
        PROVE  /\ ~LastKeyFirst(o, t[j], t[i])
               /\ LastKeyFirst(o, t[i], t[j]) \/ t[i].key < t[j].key
    <3>1. /\ t[i] \in Records /\ t[j] \in Records
          /\ t[i].key = p[i] /\ t[j].key = p[j]
      BY <2>2, <2>4, <2>5, <2>6
    <3>2. \/ LastKeyFirst(o, t[i], t[j])
          \/ ~LastKeyFirst(o, t[j], t[i]) /\ p[i] < p[j]
      BY <2>5, <2>6, <2>7
    <3>3. LastKeyFirst(o, t[i], t[j]) => ~LastKeyFirst(o, t[j], t[i])
      BY <2>2, <3>1, LeadsOneWay
    <3> QED BY <3>1, <3>2, <3>3
  <2> QED BY <2>1, <2>3, <2>7 DEF OrderedByLastKeyFirst
<1> QED BY <1>1, <1>2, PTL

\* A select that a MemoryDb can answer lets every record of the BrowserDb through.
LEMMA AllKept ==
  ASSUME QueriesInv, IsArray, ~MemoryThrows
  PROVE  /\ BrowserFiltered \in Seq(Records)
         /\ SameRecords(BrowserFiltered, browser)
<1>1. PICK b : b = browser /\ b \in Seq(Records)
  BY DEF QueriesInv, TablesInv
<1>2. DOMAIN b = 1..Len(b) /\ Len(b) \in Nat
  BY <1>1
<1>3. \A i \in DOMAIN b : Holds(where, b[i])
  <2>1. CASE where = None
    BY <2>1 DEF Holds, None
  <2>2. CASE where # None
    <3>1. memory = <<>> /\ SameRecords(memory, b)
      BY <1>1, <2>2 DEF MemoryThrows, QueriesInv, TablesInv
    <3>2. Len(b) = 0
      BY <3>1 DEF SameRecords
    <3> QED BY <1>2, <3>2
  <2> QED BY <2>1, <2>2
<1> DEFINE R == {e \in (DOMAIN b) \X (DOMAIN b) : e[1] < e[2]}
           from == Ranked(DOMAIN b, R)
<1>4. BrowserFiltered = [n \in DOMAIN from |-> b[from[n]]]
  <2>1. {i \in DOMAIN browser : Holds(where, browser[i])} = DOMAIN b
    BY <1>1, <1>3
  <2> QED BY <1>1, <2>1 DEF BrowserFiltered
<1>5. StrictOrder(DOMAIN b, R)
  <2>1. \A i, j \in DOMAIN b : <<i, j>> \in R <=> i < j
    OBVIOUS
  <2> HIDE DEF R
  <2>2. /\ \A i \in DOMAIN b : ~(i < i)
        /\ \A i, j \in DOMAIN b : i = j \/ i < j \/ j < i
        /\ \A i, j, l \in DOMAIN b : i < j /\ j < l => i < l
    BY <1>2
  <2> QED BY <2>1, <2>2, Zenon DEF StrictOrder
<1>6. IsFiniteSet(1..Len(b)) /\ Cardinality(1..Len(b)) = Len(b)
  <2>1. 1 \in Int /\ Len(b) \in Int
    BY <1>2
  <2>2. IsFiniteSet(1..Len(b)) /\ Cardinality(1..Len(b)) = IF 1 > Len(b) THEN 0 ELSE Len(b) - 1 + 1
    BY <2>1, FS_Interval
  <2> QED BY <1>2, <2>2
<1>7. /\ from \in [1..Len(b) -> 1..Len(b)]
      /\ \A i \in 1..Len(b) : \E n \in 1..Len(b) : from[n] = i
  <2> HIDE DEF R
  <2>1. IsFiniteSet(DOMAIN b) /\ Cardinality(DOMAIN b) = Len(b)
    BY <1>2, <1>6
  <2>2. /\ from \in [1..Cardinality(DOMAIN b) -> DOMAIN b]
        /\ \A i \in DOMAIN b : \E n \in 1..Cardinality(DOMAIN b) : from[n] = i
    BY <1>5, <2>1, RankedMeans
  <2> QED BY <1>2, <2>1, <2>2
<1> HIDE DEF from
<1>8. /\ BrowserFiltered \in Seq(Records) /\ Len(BrowserFiltered) = Len(b)
      /\ \A m \in 1..Len(b) : BrowserFiltered[m] = b[from[m]]
  BY <1>1, <1>2, <1>4, <1>7
<1>9. from \in Rearrangements(Len(b))
  BY <1>7 DEF Rearrangements
<1>10. PICK f : f = BrowserFiltered
  OBVIOUS
<1>11. SameRecords(f, b)
  BY <1>1, <1>8, <1>9, <1>10, RearrangedSame
<1> QED BY <1>1, <1>8, <1>10, <1>11

\* A page of either database, as a part of its answer.
LEMMA SliceMeans ==
  ASSUME NEW S, NEW s \in Seq(S)
  PROVE  /\ Slice(s, 0, Len(s)) = s
         /\ \A n \in Nat : Len(Slice(s, 0, n)) = IF n < Len(s) THEN n ELSE Len(s)
<1>1. /\ SubSeq(s, 1, Len(s)) = s
      /\ \A n \in 0..Len(s) : Len(SubSeq(s, 1, n)) = n
  OBVIOUS
<1>2. Len(s) \in Nat /\ 0 + 1 = 1 /\ ~(Len(s) < Len(s))
  OBVIOUS
<1> QED BY <1>1, <1>2 DEF Slice

(* Without a filter the two databases answer with the same records, and a first
   page of any size is as long on either, although they page differently: for
   any records, any order and whatever calls came before. *)
THEOREM BackEndsCorrect == Spec => []BackEndsAgree
<1>1. Spec => []QueriesInv BY QueriesInvariant
<1>2. QueriesInv => BackEndsAgree
  <2> SUFFICES ASSUME QueriesInv, IsArray, ~MemoryThrows
               PROVE  /\ ToSet(MemoryAll(Undefined, Undefined))
                           = ToSet(BrowserAll(Undefined, Undefined))
                      /\ \A size \in 0..MaxKey :
                           Len(MemoryAll(0, size)) = Len(BrowserAll(0, size))
    BY DEF BackEndsAgree
  <2>1. PICK m, f, o : m = memory /\ f = BrowserFiltered /\ o = order
    OBVIOUS
  <2>2. /\ m \in Seq(Records) /\ f \in Seq(Records) /\ o \in Seq(OrderKeys)
        /\ SameRecords(m, f)
    BY <2>1, AllKept DEF QueriesInv, BuilderInv, TablesInv, SameRecords
  <2>3. PICK s, t : s = Sorted(m, o) /\ t = Sorted(f, o)
    OBVIOUS
  <2>4. /\ s \in Seq(Records) /\ t \in Seq(Records)
        /\ ToSet(s) = ToSet(t) /\ Len(s) = Len(t)
    <3>1. /\ s \in Seq(Records) /\ SameRecords(s, m)
          /\ t \in Seq(Records) /\ SameRecords(t, f)
      BY <2>2, <2>3, SortedSame
    <3> QED BY <2>2, <3>1 DEF SameRecords
  <2>5. /\ \A a, l : MemoryAll(a, l) = MemoryPage(s, a, l)
        /\ \A a, l : BrowserAll(a, l) = BrowserPage(t, a, l)
    BY <2>1, <2>3 DEF MemoryAll, BrowserAll
  <2>6. MemoryPage(s, Undefined, Undefined) = s /\ BrowserPage(t, Undefined, Undefined) = t
    BY <2>4, SliceMeans DEF MemoryPage, BrowserPage, Given, Undefined
  <2>7. ASSUME NEW size \in 0..MaxKey
        PROVE  Len(MemoryPage(s, 0, size)) = Len(BrowserPage(t, 0, size))
    <3>1. size \in Nat /\ Len(s) \in Nat
      BY <2>4, QueriesAssumption
    <3>2. /\ Slice(s, 0, Len(s)) = s
          /\ Slice(t, 0, Len(t)) = t
          /\ \A n \in Nat : Len(Slice(s, 0, n)) = IF n < Len(s) THEN n ELSE Len(s)
          /\ \A n \in Nat : Len(Slice(t, 0, n)) = IF n < Len(t) THEN n ELSE Len(t)
      BY <2>4, SliceMeans
    <3>3. CASE size = 0
      <4>1. MemoryPage(s, 0, size) = Slice(s, 0, Len(s))
        BY <3>1, <3>3, <3>2 DEF MemoryPage, Given, Undefined
      <4>2. BrowserPage(t, 0, size) = t
        BY <3>3 DEF BrowserPage, Given, Undefined
      <4> QED BY <2>4, <3>2, <4>1, <4>2
    <3>4. CASE size # 0
      <4>1. MemoryPage(s, 0, size) = Slice(s, 0, IF size < Len(s) THEN size ELSE Len(s))
        BY <3>1, <3>4 DEF MemoryPage, Given, Undefined
      <4>2. BrowserPage(t, 0, size) = Slice(t, 0, size)
        BY <3>1, <3>4 DEF BrowserPage, Given, Undefined
      <4> QED BY <2>4, <3>1, <3>2, <4>1, <4>2
    <3> QED BY <3>3, <3>4
  <2> QED BY <2>4, <2>5, <2>6, <2>7
<1> QED BY <1>1, <1>2, PTL

-----------------------------------------------------------------------------
(* Pages.                                                                   *)

\* A rearrangement that goes up moves nothing.
LEMMA Rising ==
  ASSUME NEW N \in Nat, NEW p \in [1..N -> 1..N],
         \A m, n \in 1..N : m < n => p[m] < p[n]
  PROVE  \A i \in 1..N : p[i] = i
<1> DEFINE A == {i \in 0..N : i # 0 => i <= p[i]}
           B == {i \in 0..N : i # 0 => p[N + 1 - i] <= N + 1 - i}
<1>1. A = 0..N
  <2>1. A \in SUBSET (0..N) /\ 0 \in A
    OBVIOUS
  <2>2. ASSUME NEW n \in 1..N, n - 1 \in A
        PROVE  n \in A
    <3>1. CASE n = 1
      BY <3>1
    <3>2. CASE n # 1
      <4>1. n - 1 \in 1..N /\ n - 1 < n
        BY <3>2
      <4>2. n - 1 <= p[n - 1] /\ p[n - 1] < p[n] /\ p[n - 1] \in Nat /\ p[n] \in Nat
        BY <2>2, <4>1
      <4> QED BY <4>2
    <3> QED BY <3>1, <3>2
  <2> HIDE DEF A
  <2> QED BY <2>1, <2>2, Upwards
<1>2. B = 0..N
  <2>1. B \in SUBSET (0..N) /\ 0 \in B
    OBVIOUS
  <2>2. ASSUME NEW n \in 1..N, n - 1 \in B
        PROVE  n \in B
    <3>1. CASE n = 1
      <4>1. N + 1 - n \in 1..N /\ N + 1 - n = N
        BY <3>1
      <4> QED BY <4>1
    <3>2. CASE n # 1
      <4>1. PICK a, b \in 1..N : a = N + 1 - n /\ b = N + 1 - (n - 1)
        BY <3>2
      <4>2. a < b /\ b = a + 1 /\ n - 1 # 0
        BY <3>2, <4>1
      <4>3. p[b] <= b /\ p[a] < p[b] /\ p[a] \in Nat /\ p[b] \in Nat
        BY <2>2, <4>1, <4>2
      <4>4. p[a] <= a
        BY <4>2, <4>3
      <4> QED BY <4>1, <4>4
    <3> QED BY <3>1, <3>2
  <2> HIDE DEF B
  <2> QED BY <2>1, <2>2, Upwards
<1>3. ASSUME NEW i \in 1..N
      PROVE  p[i] = i
  <2>1. i \in 0..N /\ i # 0 /\ N + 1 - i \in 0..N /\ N + 1 - i # 0 /\ N + 1 - (N + 1 - i) = i
    OBVIOUS
  <2>2. i <= p[i]
    BY <1>1, <2>1
  <2>3. p[N + 1 - (N + 1 - i)] <= N + 1 - (N + 1 - i)
    BY <1>2, <2>1
  <2> QED BY <2>1, <2>2, <2>3
<1> QED BY <1>3

(* An array that is in order stays as it is: what the next page relies on. *)
LEMMA SortedTwice ==
  ASSUME NEW recs \in Seq(Records), NEW keys \in Seq(OrderKeys)
  PROVE  Sorted(Sorted(recs, keys), keys) = Sorted(recs, keys)
<1>1. PICK s, t, N : s = Sorted(recs, keys) /\ t = Sorted(s, keys) /\ N = Len(recs)
  OBVIOUS
<1>2. /\ s \in Seq(Records) /\ Len(s) = N
      /\ \A m, n \in 1..N : m < n => ~LastKeyFirst(keys, s[n], s[m])
  <2>1. /\ Sorted(recs, keys) \in Seq(Records) /\ Len(Sorted(recs, keys)) = Len(recs)
        /\ \E p \in Rearrangements(Len(recs)) :
             /\ \A m \in 1..Len(recs) : Sorted(recs, keys)[m] = recs[p[m]]
             /\ \A m, n \in 1..Len(recs) : m < n =>
                  \/ LastKeyFirst(keys, recs[p[m]], recs[p[n]])
                  \/ ~LastKeyFirst(keys, recs[p[n]], recs[p[m]]) /\ p[m] < p[n]
    BY SortedMeans, Zenon
  <2>2. s \in Seq(Records) /\ Len(s) = N /\ N \in Nat
    BY <1>1, <2>1
  <2>3. \A i \in 1..N : s[i] \in Records
    BY <2>2
  <2>4. \A m, n \in 1..N : m < n =>
          LastKeyFirst(keys, s[m], s[n]) \/ ~LastKeyFirst(keys, s[n], s[m])
    BY <1>1, <2>1
  <2> QED BY <2>2, <2>3, <2>4, LeadsOneWay
<1>3. /\ t \in Seq(Records) /\ Len(t) = N
      /\ \E p \in Rearrangements(N) :
           /\ \A m \in 1..N : t[m] = s[p[m]]
           /\ \A m, n \in 1..N : m < n =>
                \/ LastKeyFirst(keys, s[p[m]], s[p[n]])
                \/ ~LastKeyFirst(keys, s[p[n]], s[p[m]]) /\ p[m] < p[n]
  <2>1. /\ Sorted(s, keys) \in Seq(Records) /\ Len(Sorted(s, keys)) = Len(s)
        /\ \E p \in Rearrangements(Len(s)) :
             /\ \A m \in 1..Len(s) : Sorted(s, keys)[m] = s[p[m]]
             /\ \A m, n \in 1..Len(s) : m < n =>
                  \/ LastKeyFirst(keys, s[p[m]], s[p[n]])
                  \/ ~LastKeyFirst(keys, s[p[n]], s[p[m]]) /\ p[m] < p[n]
    BY <1>2, SortedMeans, Zenon
  <2> QED BY <1>1, <1>2, <2>1
<1>4. PICK p \in Rearrangements(N) :
        /\ \A m \in 1..N : t[m] = s[p[m]]
        /\ \A m, n \in 1..N : m < n =>
             \/ LastKeyFirst(keys, s[p[m]], s[p[n]])
             \/ ~LastKeyFirst(keys, s[p[n]], s[p[m]]) /\ p[m] < p[n]
  BY <1>3
<1>5. N \in Nat /\ p \in [1..N -> 1..N]
  BY <1>1 DEF Rearrangements
<1>6. ASSUME NEW m \in 1..N, NEW n \in 1..N, m < n
      PROVE  p[m] < p[n]
  <2>1. PICK a, b \in 1..N : a = p[m] /\ b = p[n]
    BY <1>5
  <2>2. LastKeyFirst(keys, s[a], s[b]) \/ a < b
    BY <1>4, <1>6, <2>1
  <2>3. s[a] \in Records /\ s[b] \in Records
    BY <1>2
  <2>4. CASE LastKeyFirst(keys, s[a], s[b])
    <3>1. a # b
      BY <2>3, <2>4, LeadsOneWay
    <3>2. ~(b < a)
      BY <1>2, <2>4
    <3> QED BY <2>1, <3>1, <3>2
  <2> QED BY <2>1, <2>2, <2>4
<1>7. \A m \in 1..N : t[m] = s[m]
  BY <1>4, <1>5, <1>6, Rising
<1>8. t = s
  BY <1>2, <1>3, <1>7
<1> QED BY <1>1, <1>8

\* Where a part of n entries ends.
EndOf(s, n) == IF n < Len(s) THEN n ELSE Len(s)

\* A page is what follows the first off records.
LEMMA PageMeans ==
  ASSUME NEW S, NEW s \in Seq(S), NEW off \in Nat, NEW size \in Nat \ {0}
  PROVE  MemoryPage(s, off, size) = SubSeq(s, off + 1, EndOf(s, off + size))
<1>1. Len(s) \in Nat /\ Undefined \notin {off, size}
  BY DEF Undefined
<1>2. (IF Given(off) THEN off ELSE 0) = off
  BY DEF Given, Undefined
<1>3. PICK e : e = EndOf(s, off + size)
  OBVIOUS
<1>4. MemoryPage(s, off, size) =
        IF e = 0 THEN Slice(s, off, Len(s)) ELSE Slice(s, off, e)
  BY <1>1, <1>2, <1>3 DEF MemoryPage, EndOf
<1>5. e = 0 => e = Len(s)
  BY <1>1, <1>3 DEF EndOf
<1>6. MemoryPage(s, off, size) = Slice(s, off, e)
  BY <1>4, <1>5
<1>7. (IF e < Len(s) THEN e ELSE Len(s)) = e
  BY <1>1, <1>3 DEF EndOf
<1> QED BY <1>3, <1>6, <1>7 DEF Slice

\* The next page continues what was read.
LEMMA PagesJoin ==
  ASSUME NEW S, NEW s \in Seq(S), NEW off \in Nat, NEW size \in Nat
  PROVE  SubSeq(s, 1, EndOf(s, off)) \o SubSeq(s, off + 1, EndOf(s, off + size))
           = SubSeq(s, 1, EndOf(s, off + size))
<1>1. PICK N, a, e : N = Len(s) /\ a = EndOf(s, off) /\ e = EndOf(s, off + size)
  OBVIOUS
<1>2. N \in Nat /\ a \in 0..N /\ e \in 0..N /\ a <= e
  BY <1>1 DEF EndOf
<1>3. \A i \in 1..N : s[i] \in S
  BY <1>1
<1>4. ASSUME NEW n \in 0..N
      PROVE  /\ SubSeq(s, 1, n) \in Seq(S) /\ Len(SubSeq(s, 1, n)) = n
             /\ \A i \in 1..n : SubSeq(s, 1, n)[i] = s[i]
  <2>1. n <= Len(s)
    BY <1>1
  <2> QED BY <2>1
<1>5. CASE off <= N
  <2>1. a = off
    BY <1>1, <1>2, <1>5 DEF EndOf
  <2>2. /\ SubSeq(s, a + 1, e) \in Seq(S)
        /\ Len(SubSeq(s, a + 1, e)) = e - a
        /\ \A i \in 1..(e - a) : SubSeq(s, a + 1, e)[i] = s[a + i]
    <3>1. /\ a + 1 \in Int /\ e \in Int
          /\ \A i \in (a + 1)..e : s[i] \in S
      BY <1>2, <1>3
    <3>2. /\ SubSeq(s, a + 1, e) \in Seq(S)
          /\ Len(SubSeq(s, a + 1, e)) = IF a + 1 <= e THEN e - (a + 1) + 1 ELSE 0
          /\ \A i \in 1..Len(SubSeq(s, a + 1, e)) :
               SubSeq(s, a + 1, e)[i] = s[a + 1 + i - 1]
      BY <3>1, SubSeqProperties
    <3>3. (IF a + 1 <= e THEN e - (a + 1) + 1 ELSE 0) = e - a
      BY <1>2
    <3>4. \A i \in 1..(e - a) : a + 1 + i - 1 = a + i
      BY <1>2
    <3> QED BY <3>2, <3>3, <3>4
  <2>3. PICK u, v, w : u = SubSeq(s, 1, a) /\ v = SubSeq(s, a + 1, e) /\ w = SubSeq(s, 1, e)
    OBVIOUS
  <2>4. /\ u \in Seq(S) /\ Len(u) = a /\ \A i \in 1..a : u[i] = s[i]
        /\ v \in Seq(S) /\ Len(v) = e - a /\ \A i \in 1..(e - a) : v[i] = s[a + i]
        /\ w \in Seq(S) /\ Len(w) = e /\ \A i \in 1..e : w[i] = s[i]
    BY <1>2, <1>4, <2>2, <2>3
  <2>5. /\ u \o v \in Seq(S) /\ Len(u \o v) = Len(u) + Len(v)
        /\ \A i \in 1..(Len(u) + Len(v)) :
             (u \o v)[i] = IF i <= Len(u) THEN u[i] ELSE v[i - Len(u)]
    BY <2>4, ConcatProperties
  <2>6. Len(u) + Len(v) = e
    BY <1>2, <2>4
  <2>7. ASSUME NEW i \in 1..e
        PROVE  (u \o v)[i] = w[i]
    <3>1. (u \o v)[i] = IF i <= a THEN u[i] ELSE v[i - a]
      BY <2>4, <2>5, <2>6
    <3>2. CASE i <= a
      BY <1>2, <2>4, <3>1, <3>2
    <3>3. CASE ~(i <= a)
      <4>1. i - a \in 1..(e - a) /\ a + (i - a) = i
        BY <1>2, <3>3
      <4> QED BY <2>4, <3>1, <3>3, <4>1
    <3> QED BY <3>2, <3>3
  <2>8. u \o v = w
    BY <2>4, <2>5, <2>6, <2>7
  <2> QED BY <1>1, <2>1, <2>3, <2>8
<1>6. CASE ~(off <= N)
  <2>1. a = N /\ e = N /\ ~(off + 1 <= N)
    BY <1>1, <1>2, <1>6 DEF EndOf
  <2>2. SubSeq(s, off + 1, e) = <<>>
    <3>1. /\ off + 1 \in Int /\ e \in Int /\ \A i \in (off + 1)..e : s[i] \in S
      BY <1>2, <2>1
    <3>2. /\ SubSeq(s, off + 1, e) \in Seq(S)
          /\ Len(SubSeq(s, off + 1, e)) = IF off + 1 <= e THEN e - (off + 1) + 1 ELSE 0
      BY <3>1, SubSeqProperties
    <3>3. Len(SubSeq(s, off + 1, e)) = 0
      BY <2>1, <3>2
    <3> QED BY <3>2, <3>3
  <2>3. SubSeq(s, 1, a) \in Seq(S)
    BY <1>2, <1>4
  <2>4. \A u \in Seq(S) : u \o <<>> = u
    OBVIOUS
  <2> QED BY <1>1, <2>1, <2>2, <2>3, <2>4
<1> QED BY <1>2, <1>5, <1>6

(* The recursive function of FlattenSeq is there. *)
LEMMA FlattenSteps ==
  ASSUME NEW seqs, Len(seqs) \in Nat \ {0}
  PROVE  \E flat : /\ flat[1] = seqs[1]
                   /\ \A i \in 2..Len(seqs) : flat[i] = flat[i - 1] \o seqs[i]
                   /\ FlattenSeq(seqs) = flat[Len(seqs)]
<1> DEFINE Is(f, n) ==
             f = [i \in 1..n |-> IF i = 1 THEN seqs[i] ELSE f[i - 1] \o seqs[i]]
           T == {n \in 0..Len(seqs) : \E f : Is(f, n)}
<1>1. 0 \in T
  <2>1. [i \in {} |-> 0] = [i \in 1..0 |-> IF i = 1 THEN seqs[i] ELSE [j \in {} |-> 0][i - 1] \o seqs[i]]
    <3>1. 1..0 = {}
      OBVIOUS
    <3> QED BY <3>1, Zenon
  <2>2. Is([i \in {} |-> 0], 0)
    BY <2>1, Zenon
  <2>3. 0 \in 0..Len(seqs)
    OBVIOUS
  <2> QED BY <2>2, <2>3
<1>2. ASSUME NEW n \in 1..Len(seqs), n - 1 \in T
      PROVE  n \in T
  <2>1. PICK g : Is(g, n - 1)
    BY <1>2
  <2> DEFINE f == [i \in 1..n |->
                     IF i < n THEN g[i] ELSE IF n = 1 THEN seqs[1] ELSE g[n - 1] \o seqs[n]]
  <2>2. ASSUME NEW i \in 1..n
        PROVE  f[i] = IF i = 1 THEN seqs[i] ELSE f[i - 1] \o seqs[i]
    <3>1. CASE i = 1 /\ i < n
      BY <2>1, <3>1
    <3>2. CASE i = 1 /\ i = n
      BY <3>2
    <3>3. CASE i # 1 /\ i < n
      <4>1. i \in 1..(n - 1) /\ i - 1 \in 1..n /\ i - 1 < n
        BY <3>3
      <4>2. f[i] = g[i] /\ f[i - 1] = g[i - 1]
        BY <3>3, <4>1
      <4>3. g[i] = g[i - 1] \o seqs[i]
        BY <2>1, <3>3, <4>1
      <4> HIDE DEF f
      <4> QED BY <3>3, <4>2, <4>3
    <3>4. CASE i # 1 /\ i = n
      <4>1. n # 1 /\ n - 1 \in 1..n /\ n - 1 < n /\ ~(n < n) /\ n \in 1..n
        BY <3>4
      <4>2. f[n - 1] = g[n - 1] /\ f[n] = g[n - 1] \o seqs[n]
        BY <4>1
      <4> HIDE DEF f
      <4> QED BY <3>4, <4>1, <4>2
    <3> QED BY <3>1, <3>2, <3>3, <3>4
  <2>3. Is(f, n)
    <3>1. f = [i \in 1..n |-> f[i]]
      OBVIOUS
    <3> HIDE DEF f
    <3> QED BY <2>2, <3>1
  <2> HIDE DEF f, Is
  <2>4. n \in 0..Len(seqs)
    OBVIOUS
  <2> QED BY <2>3, <2>4
<1>3. \E f : Is(f, Len(seqs))
  <2> HIDE DEF Is
  <2>1. T \in SUBSET (0..Len(seqs)) /\ Len(seqs) \in 0..Len(seqs)
    OBVIOUS
  <2>2. T = 0..Len(seqs)
    <3> HIDE DEF T
    <3> QED BY <1>1, <1>2, <2>1, Upwards
  <2> QED BY <2>1, <2>2
<1> DEFINE flat == CHOOSE f : Is(f, Len(seqs))
<1>4. FlattenSeq(seqs) = flat[Len(seqs)]
  BY DEF FlattenSeq
<1>5. Is(flat, Len(seqs))
  <2> HIDE DEF Is
  <2> QED BY <1>3
<1> HIDE DEF flat
<1>6. flat[1] = seqs[1]
  BY <1>5
<1>7. \A i \in 2..Len(seqs) : flat[i] = flat[i - 1] \o seqs[i]
  <2>1. \A i \in 2..Len(seqs) : i # 1 /\ i \in 1..Len(seqs)
    OBVIOUS
  <2> QED BY <1>5, <2>1, Zenon
<1> QED BY <1>4, <1>6, <1>7

\* Pages of one size, one after the other, as far as they cover the array.
LEMMA PagesAreAll ==
  ASSUME NEW s \in Seq(Records), NEW M \in Nat \ {0}, Len(s) <= M, NEW size \in Nat \ {0},
         NEW seqs, seqs = [p \in 1..M |-> MemoryPage(s, (p - 1) * size, size)]
  PROVE  FlattenSeq(seqs) = s
<1>1. Len(seqs) = M
  OBVIOUS
<1>2. PICK flat : /\ flat[1] = seqs[1]
                  /\ \A i \in 2..M : flat[i] = flat[i - 1] \o seqs[i]
                  /\ FlattenSeq(seqs) = flat[M]
  BY <1>1, FlattenSteps
<1>3. ASSUME NEW p \in 1..M
      PROVE  /\ (p - 1) * size \in Nat
             /\ (p - 1) * size + size = p * size
             /\ seqs[p] = SubSeq(s, (p - 1) * size + 1, EndOf(s, p * size))
  <2>1. PICK q \in Nat : p = q + 1 /\ p - 1 = q
    <3>1. p - 1 \in Nat /\ p = p - 1 + 1
      OBVIOUS
    <3> QED BY <3>1
  <2>2. q * size \in Nat /\ q * size + size = (q + 1) * size
    BY <2>1
  <2>3. (p - 1) * size \in Nat /\ (p - 1) * size + size = p * size
    BY <2>1, <2>2
  <2>4. MemoryPage(s, (p - 1) * size, size) =
          SubSeq(s, (p - 1) * size + 1, EndOf(s, (p - 1) * size + size))
    BY <2>3, PageMeans
  <2> QED BY <2>3, <2>4
<1> DEFINE T == {p \in 0..M : p # 0 => flat[p] = SubSeq(s, 1, EndOf(s, p * size))}
<1>4. ASSUME NEW p \in 1..M, p - 1 \in T
      PROVE  p \in T
  <2>1. CASE p = 1
    <3>1. (p - 1) * size = 0 /\ 0 + 1 = 1
      BY <2>1
    <3>2. seqs[p] = SubSeq(s, 1, EndOf(s, p * size))
      BY <1>3, <3>1, Zenon
    <3> QED BY <1>2, <2>1, <3>2
  <2>2. CASE p # 1
    <3>1. p \in 2..M /\ p - 1 # 0
      BY <2>2
    <3>2. flat[p - 1] = SubSeq(s, 1, EndOf(s, (p - 1) * size))
      BY <1>4, <3>1
    <3>3. flat[p] = SubSeq(s, 1, EndOf(s, (p - 1) * size))
                      \o SubSeq(s, (p - 1) * size + 1, EndOf(s, (p - 1) * size + size))
      BY <1>2, <1>3, <3>1, <3>2
    <3>4. flat[p] = SubSeq(s, 1, EndOf(s, (p - 1) * size + size))
      BY <1>3, <3>3, PagesJoin
    <3> QED BY <1>3, <3>4
  <2> QED BY <2>1, <2>2
<1>5. M \in T
  <2>1. T \in SUBSET (0..M) /\ 0 \in T /\ M \in 0..M
    OBVIOUS
  <2> HIDE DEF T
  <2> QED BY <1>4, <2>1, Upwards
<1>6. flat[M] = SubSeq(s, 1, EndOf(s, M * size))
  BY <1>5
<1>7. EndOf(s, M * size) = Len(s)
  <2>1. PICK k \in Nat : size = k + 1
    <3>1. size - 1 \in Nat /\ size = size - 1 + 1
      OBVIOUS
    <3> QED BY <3>1
  <2>2. M * size = M * k + M /\ M * k \in Nat
    BY <2>1
  <2>3. PICK x \in Nat : x = M * k
    BY <2>2
  <2>4. ~(x + M < Len(s)) /\ M * size = x + M
    BY <2>2, <2>3
  <2> QED BY <2>4 DEF EndOf
<1>8. SubSeq(s, 1, Len(s)) = s
  OBVIOUS
<1> QED BY <1>2, <1>6, <1>7, <1>8

\* A key is its place, so there are no more records than keys.
LEMMA KeysBound ==
  ASSUME QueriesInv, IsArray
  PROVE  Len(memory) <= MaxKey
<1>1. PICK b, N : b = browser /\ N = Len(b)
  OBVIOUS
<1>2. b \in Seq(Records) /\ (\A i \in DOMAIN b : b[i].key = i) /\ Len(memory) = N
  BY <1>1 DEF QueriesInv, TablesInv, SameRecords
<1>3. N \in Nat /\ DOMAIN b = 1..N
  BY <1>1, <1>2
<1>4. CASE N = 0
  BY <1>2, <1>4, QueriesAssumption
<1>5. CASE N # 0
  <2>1. N \in DOMAIN b
    BY <1>3, <1>5
  <2>2. b[N] \in Records /\ b[N].key = N
    BY <1>2, <2>1
  <2>3. N \in 1..MaxKey
    BY <2>2 DEF Records
  <2> QED BY <1>2, <2>3, QueriesAssumption
<1> QED BY <1>4, <1>5

(* Pages of any size, read one after the other, add up to the answer, although
   each read sorts the array of the collection again. *)
THEOREM PagesCorrect == Spec => []MemoryPagesPartition
<1>1. Spec => []QueriesInv BY QueriesInvariant
<1>2. QueriesInv => MemoryPagesPartition
  <2> SUFFICES ASSUME QueriesInv, IsArray, NEW size \in 1..MaxKey
               PROVE  FlattenSeq([p \in 1..MaxKey |->
                        MemoryPage(Sorted(IF p = 1 THEN memory ELSE Sorted(memory, order), order),
                                   (p - 1) * size, size)])
                      = MemoryAll(Undefined, Undefined)
    BY DEF MemoryPagesPartition
  <2>1. PICK m, o, s : m = memory /\ o = order /\ s = Sorted(m, o)
    OBVIOUS
  <2>2. m \in Seq(Records) /\ o \in Seq(OrderKeys) /\ Len(m) <= MaxKey
    BY <2>1, KeysBound DEF QueriesInv, BuilderInv, TablesInv
  <2>3. s \in Seq(Records) /\ Len(s) <= MaxKey
    BY <2>1, <2>2, SortedSame DEF SameRecords
  <2>4. Sorted(s, o) = s
    BY <2>1, <2>2, SortedTwice
  <2>5. \A p \in 1..MaxKey : Sorted(IF p = 1 THEN m ELSE Sorted(m, o), o) = s
    BY <2>1, <2>4
  <2>6. PICK seqs : seqs = [p \in 1..MaxKey |-> MemoryPage(s, (p - 1) * size, size)]
    OBVIOUS
  <2>7. FlattenSeq(seqs) = s
    <3>1. MaxKey \in Nat \ {0} /\ size \in Nat \ {0}
      BY QueriesAssumption
    <3> QED BY <2>3, <2>6, <3>1, PagesAreAll
  <2>8. seqs = [p \in 1..MaxKey |->
                  MemoryPage(Sorted(IF p = 1 THEN m ELSE Sorted(m, o), o),
                             (p - 1) * size, size)]
    BY <2>5, <2>6, Zenon
  <2>9. MemoryAll(Undefined, Undefined) = s
    <3>1. MemoryPage(s, Undefined, Undefined) = s
      BY <2>3, SliceMeans DEF MemoryPage, Given, Undefined
    <3> QED BY <2>1, <3>1 DEF MemoryAll
  <2> QED BY <2>1, <2>7, <2>8, <2>9
<1> QED BY <1>1, <1>2, PTL

=============================================================================
