------------------------- MODULE MatchingEngineProofs -------------------------
(***************************************************************************)
(* The theorems about MatchingEngine, for every set of ids, prices and     *)
(* requests and every MaxQuantity.  BookInvariant is inductive: there is   *)
(* one lemma per action, resting on a few facts the actions share (which   *)
(* order leaves which list, which joins which, which totals change), and   *)
(* the safety properties follow from it.  First come lemmas about the      *)
(* operations on a price level's list of order ids: what is left of a list *)
(* that loses an element, and what a list sums to when an order leaves it, *)
(* joins it or offers less.  They hold of any list.                        *)
(***************************************************************************)
EXTENDS MatchingEngine, NumberFacts, SequenceTheorems

\* q1 is the list q without the element i: nothing is added, the order of what
\* stays is kept.
Without(q1, q, i) ==
  /\ \A j \in DOMAIN q1 : q1[j] # i
  /\ \A j \in DOMAIN q1 : \E m \in DOMAIN q : q1[j] = q[m]
  /\ \A j, k \in DOMAIN q1 : j < k =>
       \E m, n \in DOMAIN q : m < n /\ q1[j] = q[m] /\ q1[k] = q[n]
  /\ \A m \in DOMAIN q : q[m] # i => \E j \in DOMAIN q1 : q1[j] = q[m]

Distinct(q) == \A j, k \in DOMAIN q : j # k => q[j] # q[k]

\* Erasing the k-th node of a list leaves the list without it.
LEMMA RemoveAtElements ==
  ASSUME NEW S, NEW q \in Seq(S), NEW k \in DOMAIN q
  PROVE  /\ SeqX!RemoveAt(q, k) \in Seq(S)
         /\ Len(SeqX!RemoveAt(q, k)) = Len(q) - 1
         /\ \A j \in 1 .. Len(q) - 1 :
              SeqX!RemoveAt(q, k)[j] = IF j < k THEN q[j] ELSE q[j + 1]
<1> DEFINE a == SubSeq(q, 1, k - 1)
           b == SubSeq(q, k + 1, Len(q))
<1>1. k \in 1 .. Len(q) /\ Len(q) \in Nat
  BY LenProperties
<1>2. /\ a \in Seq(S) /\ Len(a) = k - 1
      /\ \A j \in 1 .. k - 1 : a[j] = q[j]
  <2>1. \A j \in 1 .. k - 1 : q[j] \in S
    BY <1>1, ElementOfSeq
  <2>2. /\ a \in Seq(S)
        /\ Len(a) = IF 1 <= k - 1 THEN (k - 1) - 1 + 1 ELSE 0
        /\ \A j \in 1 .. (k - 1) - 1 + 1 : a[j] = q[1 + j - 1]
    BY <1>1, <2>1, SubSeqProperties
  <2>3. QED
    BY <1>1, <2>2
<1>3. /\ b \in Seq(S) /\ Len(b) = Len(q) - k
      /\ \A j \in 1 .. Len(q) - k : b[j] = q[k + j]
  <2>1. \A j \in k + 1 .. Len(q) : q[j] \in S
    BY <1>1, ElementOfSeq
  <2>2. /\ b \in Seq(S)
        /\ Len(b) = IF k + 1 <= Len(q) THEN Len(q) - (k + 1) + 1 ELSE 0
        /\ \A j \in 1 .. Len(q) - (k + 1) + 1 : b[j] = q[(k + 1) + j - 1]
    BY <1>1, <2>1, SubSeqProperties
  <2>3. QED
    BY <1>1, <2>2
<1>4. /\ a \o b \in Seq(S)
      /\ Len(a \o b) = Len(a) + Len(b)
      /\ \A j \in 1 .. Len(a) + Len(b) :
           (a \o b)[j] = IF j <= Len(a) THEN a[j] ELSE b[j - Len(a)]
  BY <1>2, <1>3, ConcatProperties
<1>5. SeqX!RemoveAt(q, k) = a \o b
  BY DEF SeqX!RemoveAt
<1>6. ASSUME NEW j \in 1 .. Len(q) - 1
      PROVE  (a \o b)[j] = IF j < k THEN q[j] ELSE q[j + 1]
  <2>1. CASE j < k
    BY <1>1, <1>2, <1>3, <1>4, <2>1
  <2>2. CASE ~(j < k)
    <3>1. j - (k - 1) \in 1 .. Len(q) - k /\ k + (j - (k - 1)) = j + 1
      BY <1>1, <2>2
    <3>2. (a \o b)[j] = b[j - (k - 1)]
      <4> HIDE DEF a, b
      <4>1. j \in 1 .. Len(a) + Len(b) /\ ~(j <= Len(a)) /\ Len(a) = k - 1
        BY <1>1, <1>2, <1>3, <2>2
      <4>2. QED
        BY <1>4, <4>1
    <3>3. QED
      BY <1>1, <1>3, <2>2, <3>1, <3>2
  <2>3. QED
    BY <2>1, <2>2
<1>7. QED
  <2> HIDE DEF a, b
  <2>1. Len(a) + Len(b) = Len(q) - 1
    BY <1>1, <1>2, <1>3
  <2>2. QED
    BY <1>4, <1>5, <1>6, <2>1

\* Erasing one place of a list without repetitions leaves out just that order.
LEMMA RemoveAtIsWithout ==
  ASSUME NEW S, NEW q \in Seq(S), Distinct(q), NEW k \in DOMAIN q
  PROVE  /\ SeqX!RemoveAt(q, k) \in Seq(S)
         /\ Without(SeqX!RemoveAt(q, k), q, q[k])
<1> DEFINE r == SeqX!RemoveAt(q, k)
<1>1. Len(q) \in Nat /\ DOMAIN q = 1 .. Len(q) /\ k \in 1 .. Len(q)
  BY LenProperties
<1>2. /\ r \in Seq(S) /\ Len(r) = Len(q) - 1
      /\ \A j \in 1 .. Len(q) - 1 : r[j] = IF j < k THEN q[j] ELSE q[j + 1]
  BY RemoveAtElements
<1>3. DOMAIN r = 1 .. Len(q) - 1
  BY <1>2, LenProperties
<1> HIDE DEF r
<1>4. \A m \in DOMAIN q : q[m] # q[k] => \E j \in DOMAIN r : r[j] = q[m]
  <2> SUFFICES ASSUME NEW m \in DOMAIN q, q[m] # q[k]
               PROVE  \E j \in DOMAIN r : r[j] = q[m]
    OBVIOUS
  <2>1. CASE m < k
    BY <1>1, <1>2, <1>3, <2>1
  <2>2. CASE m > k
    <3>1. m - 1 \in DOMAIN r /\ r[m - 1] = q[m]
      BY <1>1, <1>2, <1>3, <2>2
    <3>2. QED
      BY <3>1
  <2>3. QED
    BY <1>1, <2>1, <2>2
<1>5. \A j \in DOMAIN r : r[j] # q[k] /\ \E m \in DOMAIN q : r[j] = q[m]
  BY <1>1, <1>2, <1>3 DEF Distinct
<1>6. \A j, l \in DOMAIN r : j < l =>
        \E m, n \in DOMAIN q : m < n /\ r[j] = q[m] /\ r[l] = q[n]
  <2> SUFFICES ASSUME NEW j \in DOMAIN r, NEW l \in DOMAIN r, j < l
               PROVE  \E m, n \in DOMAIN q : m < n /\ r[j] = q[m] /\ r[l] = q[n]
    OBVIOUS
  <2> DEFINE m == IF j < k THEN j ELSE j + 1
             n == IF l < k THEN l ELSE l + 1
  <2>1. m \in DOMAIN q /\ n \in DOMAIN q /\ m < n
    BY <1>1, <1>3
  <2>2. r[j] = q[m] /\ r[l] = q[n]
    BY <1>1, <1>2, <1>3
  <2>3. QED
    BY <2>1, <2>2
<1>7. QED
  BY <1>2, <1>4, <1>5, <1>6 DEF Without, r

\* Erasing the front of a list leaves the list without it.
LEMMA TailIsWithout ==
  ASSUME NEW S, NEW q \in Seq(S), Distinct(q), q # <<>>
  PROVE  Tail(q) \in Seq(S) /\ Without(Tail(q), q, Head(q))
<1> DEFINE r == Tail(q)
<1>1. /\ r \in Seq(S) /\ Len(r) = Len(q) - 1
      /\ \A j \in 1 .. Len(r) : r[j] = q[j + 1]
      /\ Len(q) \in Nat \ {0} /\ DOMAIN q = 1 .. Len(q)
  BY HeadTailProperties, EmptySeq, LenProperties
<1>2. DOMAIN r = 1 .. Len(q) - 1
  BY <1>1, LenProperties
<1>3. Head(q) = q[1]
  BY DEF Head
<1> HIDE DEF r
<1>4. \A m \in DOMAIN q : q[m] # q[1] => \E j \in DOMAIN r : r[j] = q[m]
  <2> SUFFICES ASSUME NEW m \in DOMAIN q, q[m] # q[1]
               PROVE  \E j \in DOMAIN r : r[j] = q[m]
    OBVIOUS
  <2>1. m - 1 \in DOMAIN r /\ r[m - 1] = q[m]
    BY <1>1, <1>2
  <2>2. QED
    BY <2>1
<1>5. \A j \in DOMAIN r : r[j] # q[1] /\ \E m \in DOMAIN q : r[j] = q[m]
  BY <1>1, <1>2 DEF Distinct
<1>6. \A j, l \in DOMAIN r : j < l =>
        \E m, n \in DOMAIN q : m < n /\ r[j] = q[m] /\ r[l] = q[n]
  <2> SUFFICES ASSUME NEW j \in DOMAIN r, NEW l \in DOMAIN r, j < l
               PROVE  \E m, n \in DOMAIN q : m < n /\ r[j] = q[m] /\ r[l] = q[n]
    OBVIOUS
  <2>1. j + 1 \in DOMAIN q /\ l + 1 \in DOMAIN q /\ j + 1 < l + 1
    BY <1>1, <1>2
  <2>2. QED
    BY <1>1, <1>2, <2>1
<1>7. QED
  BY <1>1, <1>3, <1>4, <1>5, <1>6 DEF Without, r
-----------------------------------------------------------------------------
(***************************************************************************)
(* The sums of the lists: what happens to a level's total when an order    *)
(* leaves its list, joins it, or changes what it offers.                   *)
(***************************************************************************)

\* The partial sums behind SumsTo, with their types.
LEMMA SumsToParts ==
  ASSUME NEW q \in Seq(Ids), NEW r \in [Ids -> Quantities], NEW t, SumsTo(q, r, t)
  PROVE  \E f \in [0 .. Len(q) -> Quantities] :
           /\ f[0] = 0 /\ f[Len(q)] = t /\ t \in Quantities
           /\ \A k \in 1 .. Len(q) : f[k] = f[k - 1] + r[q[k]]
           /\ \A j, k \in 0 .. Len(q) : j <= k => f[j] <= f[k]
<1>1. Len(q) \in 0 .. Len(q)
  BY LenProperties
<1>2. QED
  BY <1>1 DEF SumsTo

\* An empty list sums to zero.
LEMMA NoneSumToZero ==
  ASSUME NEW r
  PROVE  SumsTo(<<>>, r, 0)
<1> DEFINE f == [k \in 0 .. 0 |-> 0]
<1>1. Len(<<>>) = 0
  OBVIOUS
<1>2. f \in [0 .. 0 -> Quantities]
  BY MaxQuantityAssumption DEF Quantities
<1>3. /\ f[0] = 0
      /\ \A k \in 1 .. 0 : f[k] = f[k - 1] + r[<<>>[k]]
      /\ \A j, k \in 0 .. 0 : j <= k => f[j] <= f[k]
  OBVIOUS
<1> HIDE DEF f
<1>4. QED
  BY <1>1, <1>2, <1>3 DEF SumsTo

\* A list that loses its k-th order loses what that order offers.
LEMMA SumsWithoutOne ==
  ASSUME NEW q \in Seq(Ids), NEW r \in [Ids -> Quantities], NEW t, SumsTo(q, r, t),
         NEW k \in DOMAIN q, NEW q1 \in Seq(Ids),
         Len(q1) = Len(q) - 1,
         \A j \in 1 .. Len(q) - 1 : q1[j] = IF j < k THEN q[j] ELSE q[j + 1]
  PROVE  t - r[q[k]] \in Quantities /\ SumsTo(q1, r, t - r[q[k]])
<1>1. PICK f \in [0 .. Len(q) -> Quantities] :
        /\ f[0] = 0 /\ f[Len(q)] = t /\ t \in Quantities
        /\ \A j \in 1 .. Len(q) : f[j] = f[j - 1] + r[q[j]]
        /\ \A j, l \in 0 .. Len(q) : j <= l => f[j] <= f[l]
  <2>1. Len(q) \in 0 .. Len(q)
    BY LenProperties
  <2>2. QED
    BY <2>1 DEF SumsTo
<1> DEFINE n == Len(q)
           d == r[q[k]]
           g == [j \in 0 .. n - 1 |-> IF j < k THEN f[j] ELSE f[j + 1] - d]
<1>2. /\ n \in Nat /\ k \in 1 .. n /\ MaxQuantity \in Nat
      /\ \A j \in 1 .. n : q[j] \in Ids
  BY LenProperties, ElementOfSeq, MaxQuantityAssumption
<1>3. \A j \in 1 .. n : r[q[j]] \in Nat
  BY <1>2 DEF Quantities
<1>4. \A j \in 0 .. n : f[j] \in Nat /\ f[j] <= MaxQuantity
  <2>1. \A j \in 0 .. n : f[j] \in Quantities
    OBVIOUS
  <2>2. \A m \in Quantities : m \in Nat /\ m <= MaxQuantity
    BY <1>2 DEF Quantities
  <2>3. QED
    BY <2>1, <2>2
<1>5. d \in Nat /\ f[k] = f[k - 1] + d
  BY <1>1, <1>2, <1>3
<1> HIDE DEF d
<1>6. \A j \in k .. n : f[j] - d \in Nat /\ f[j] - d <= MaxQuantity /\ f[k - 1] <= f[j] - d
  <2> SUFFICES ASSUME NEW j \in k .. n
               PROVE  f[j] - d \in Nat /\ f[j] - d <= MaxQuantity /\ f[k - 1] <= f[j] - d
    OBVIOUS
  <2>1. j \in 0 .. n /\ k \in 0 .. n /\ k - 1 \in 0 .. n /\ k <= j
    BY <1>2
  <2>2. f[k] <= f[j]
    BY <1>1, <2>1
  <2>3. f[j] \in Nat /\ f[k - 1] \in Nat /\ f[j] <= MaxQuantity
    BY <1>4, <2>1
  <2>4. /\ f[k] = f[k - 1] + d /\ f[k] <= f[j] /\ d \in Nat /\ MaxQuantity \in Nat
        /\ f[j] \in Nat /\ f[k - 1] \in Nat /\ f[j] <= MaxQuantity
    BY ONLY <1>2, <1>5, <2>2, <2>3
  <2>5. \A x, y, z, c, top \in Nat :
          z = y + c /\ z <= x /\ x <= top => x - c \in Nat /\ x - c <= top /\ y <= x - c
    BY ONLY TRUE
  <2>6. f[k] \in Nat
    BY <2>4
  <2>7. QED
    BY <2>4, <2>5, <2>6
<1>7. \A j \in 0 .. n - 1 : g[j] \in Nat /\ g[j] <= MaxQuantity
  BY <1>2, <1>4, <1>6
<1>8. g \in [0 .. n - 1 -> Quantities]
  <2>1. \A j \in 0 .. n - 1 : g[j] \in Quantities
    <3> HIDE DEF g
    <3>1. QED
      BY <1>2, <1>7 DEF Quantities
  <2>2. QED
    BY <2>1
<1>9. g[0] = 0 /\ g[n - 1] = t - d
  <2>1. 0 < k /\ 0 \in 0 .. n - 1 /\ n - 1 \in 0 .. n - 1
    BY <1>2
  <2>2. g[0] = 0
    BY <1>1, <2>1
  <2>3. g[n - 1] = t - d
    <3>1. CASE k = n
      <4>1. f[n - 1] = f[n] - d
        BY <1>2, <1>4, <1>5, <3>1
      <4>2. QED
        BY <1>1, <1>2, <2>1, <3>1, <4>1
    <3>2. CASE k < n
      BY <1>1, <1>2, <2>1, <3>2
    <3>3. QED
      BY <1>2, <3>1, <3>2
  <2>4. QED
    BY <2>2, <2>3
<1>10. ASSUME NEW j \in 1 .. n - 1
       PROVE  g[j] = g[j - 1] + r[q1[j]]
  <2>1. j \in 0 .. n - 1 /\ j - 1 \in 0 .. n - 1 /\ j \in 1 .. n /\ j + 1 \in 1 .. n
    BY <1>2
  <2>2. CASE j < k
    <3>1. g[j] = f[j] /\ g[j - 1] = f[j - 1] /\ q1[j] = q[j]
      BY <1>2, <2>1, <2>2
    <3>2. f[j] = f[j - 1] + r[q[j]]
      BY <1>1, <2>1
    <3> HIDE DEF g
    <3>3. QED
      BY <3>1, <3>2
  <2>3. CASE j = k
    <3>1. g[j] = f[j + 1] - d /\ g[j - 1] = f[j - 1] /\ q1[j] = q[j + 1]
      BY <1>2, <2>1, <2>3
    <3>2. f[j + 1] = f[j] + r[q[j + 1]] /\ f[j] = f[j - 1] + d
      BY <1>1, <1>5, <2>1, <2>3
    <3>3. f[j] \in Nat /\ f[j + 1] \in Nat /\ f[j - 1] \in Nat /\ r[q[j + 1]] \in Nat
      BY <1>3, <1>4, <2>1
    <3> HIDE DEF g
    <3> DEFINE x == f[j + 1]
               y == f[j]
               z == f[j - 1]
               w == r[q[j + 1]]
    <3>4. x \in Nat /\ y \in Nat /\ z \in Nat /\ w \in Nat /\ x = y + w /\ y = z + d
      BY <3>2, <3>3
    <3>5. g[j] = x - d /\ g[j - 1] = z /\ r[q1[j]] = w
      BY <3>1
    <3> HIDE DEF x, y, z, w
    <3>6. x - d = z + w
      BY <1>5, <3>4
    <3>7. QED
      BY <3>5, <3>6
  <2>4. CASE j > k
    <3>1. g[j] = f[j + 1] - d /\ g[j - 1] = f[j] - d /\ q1[j] = q[j + 1]
      BY <1>2, <2>1, <2>4
    <3>2. f[j + 1] = f[j] + r[q[j + 1]]
      BY <1>1, <2>1
    <3>3. f[j] \in Nat /\ f[j + 1] \in Nat /\ r[q[j + 1]] \in Nat
      BY <1>3, <1>4, <2>1
    <3> HIDE DEF g
    <3> DEFINE x == f[j + 1]
               y == f[j]
               w == r[q[j + 1]]
    <3>4. x \in Nat /\ y \in Nat /\ w \in Nat /\ x = y + w
      BY <3>2, <3>3
    <3>5. g[j] = x - d /\ g[j - 1] = y - d /\ r[q1[j]] = w
      BY <3>1
    <3> HIDE DEF x, y, w
    <3>6. x - d = (y - d) + w
      BY <1>5, <3>4
    <3>7. QED
      BY <3>5, <3>6
  <2>5. QED
    BY <1>2, <2>2, <2>3, <2>4
<1>11. ASSUME NEW j \in 0 .. n - 1, NEW l \in 0 .. n - 1, j <= l
       PROVE  g[j] <= g[l]
  <2>1. /\ j \in 0 .. n /\ l \in 0 .. n /\ j + 1 \in 0 .. n /\ l + 1 \in 0 .. n
        /\ k - 1 \in 0 .. n
    BY <1>2
  <2>2. CASE l < k
    BY <1>1, <1>2, <1>11, <2>1, <2>2
  <2>3. CASE j < k /\ ~(l < k)
    <3>1. f[j] <= f[k - 1]
      BY <1>1, <1>2, <2>1, <2>3
    <3>2. l + 1 \in k .. n
      BY <1>2, <2>3
    <3>3. f[k - 1] <= f[l + 1] - d /\ f[l + 1] - d \in Nat
      BY <1>6, <3>2
    <3>4. g[j] = f[j] /\ g[l] = f[l + 1] - d
      BY <2>3
    <3>5. f[j] \in Nat /\ f[k - 1] \in Nat
      BY <1>4, <2>1
    <3> HIDE DEF g
    <3>6. QED
      BY <3>1, <3>3, <3>4, <3>5
  <2>4. CASE ~(j < k) /\ ~(l < k)
    <3>1. f[j + 1] <= f[l + 1]
      BY <1>1, <1>2, <1>11, <2>1
    <3>2. g[j] = f[j + 1] - d /\ g[l] = f[l + 1] - d
      BY <2>4
    <3>3. f[j + 1] \in Nat /\ f[l + 1] \in Nat
      BY <1>4, <2>1
    <3> HIDE DEF g
    <3>4. QED
      BY <1>5, <3>1, <3>2, <3>3
  <2>5. QED
    BY <1>2, <1>11, <2>2, <2>3, <2>4
<1> HIDE DEF g
<1>12. t - d \in Quantities
  <2>1. n - 1 \in 0 .. n - 1
    BY <1>2
  <2>2. QED
    BY <1>8, <1>9, <2>1
<1>13. SumsTo(q1, r, t - d)
  BY <1>8, <1>9, <1>10, <1>11 DEF SumsTo
<1>14. QED
  BY <1>12, <1>13 DEF d

\* A list that an order joins gains what that order offers.
LEMMA SumsWithOneMore ==
  ASSUME NEW q \in Seq(Ids), NEW r \in [Ids -> Quantities], NEW t, SumsTo(q, r, t),
         NEW i \in Ids
  PROVE  t + r[i] <= MaxQuantity => SumsTo(Append(q, i), r, t + r[i])
<1>1. PICK f \in [0 .. Len(q) -> Quantities] :
        /\ f[0] = 0 /\ f[Len(q)] = t /\ t \in Quantities
        /\ \A j \in 1 .. Len(q) : f[j] = f[j - 1] + r[q[j]]
        /\ \A j, l \in 0 .. Len(q) : j <= l => f[j] <= f[l]
  BY SumsToParts
<1> HAVE t + r[i] <= MaxQuantity
<1> DEFINE n == Len(q)
           g == [j \in 0 .. n + 1 |-> IF j <= n THEN f[j] ELSE t + r[i]]
           q1 == Append(q, i)
<1>2. /\ n \in Nat /\ MaxQuantity \in Nat /\ Len(q1) = n + 1
      /\ \A j \in 1 .. n : q1[j] = q[j]
      /\ q1[n + 1] = i
  BY LenProperties, AppendProperties, MaxQuantityAssumption
<1>3. r[i] \in Nat /\ t \in Nat
  BY <1>1, <1>2 DEF Quantities
<1>4. \A j \in 0 .. n : f[j] \in Nat /\ f[j] <= MaxQuantity
  <2>1. \A j \in 0 .. n : f[j] \in Quantities
    OBVIOUS
  <2>2. \A m \in Quantities : m \in Nat /\ m <= MaxQuantity
    BY <1>2 DEF Quantities
  <2>3. QED
    BY <2>1, <2>2
<1>5. \A j \in 0 .. n + 1 : g[j] \in Nat /\ g[j] <= MaxQuantity
  BY <1>2, <1>3, <1>4
<1>6. g \in [0 .. n + 1 -> Quantities]
  BY <1>2, <1>5 DEF Quantities
<1>7. g[0] = 0 /\ g[n + 1] = t + r[i]
  BY <1>1, <1>2
<1>8. ASSUME NEW j \in 1 .. n + 1
      PROVE  g[j] = g[j - 1] + r[q1[j]]
  <2>1. CASE j = n + 1
    BY <1>1, <1>2, <2>1
  <2>2. CASE j # n + 1
    <3>1. j \in 1 .. n /\ g[j] = f[j] /\ g[j - 1] = f[j - 1]
      BY <1>2, <2>2
    <3>2. f[j] = f[j - 1] + r[q[j]] /\ q1[j] = q[j]
      BY <1>1, <1>2, <3>1
    <3> HIDE DEF g, q1
    <3>3. QED
      BY <3>1, <3>2
  <2>3. QED
    BY <2>1, <2>2
<1>9. ASSUME NEW j \in 0 .. n + 1, NEW l \in 0 .. n + 1, j <= l
      PROVE  g[j] <= g[l]
  <2>1. CASE l = n + 1
    <3>1. CASE j = n + 1
      BY <1>2, <1>3, <2>1, <3>1
    <3>2. CASE j # n + 1
      <4>1. j \in 0 .. n /\ n \in 0 .. n /\ j <= n
        BY <1>2, <3>2
      <4>2. f[j] <= t /\ f[j] \in Nat
        BY <1>1, <1>4, <4>1
      <4>3. g[j] = f[j] /\ g[l] = t + r[i]
        BY <1>2, <2>1, <4>1
      <4> HIDE DEF g
      <4>4. QED
        BY <1>3, <4>2, <4>3
    <3>3. QED
      BY <3>1, <3>2
  <2>2. CASE l # n + 1
    <3>1. j \in 0 .. n /\ l \in 0 .. n
      BY <1>2, <1>9, <2>2
    <3>2. QED
      BY <1>1, <1>9, <3>1
  <2>3. QED
    BY <2>1, <2>2
<1> HIDE DEF g, q1
<1>10. SumsTo(q1, r, t + r[i])
  BY <1>2, <1>6, <1>7, <1>8, <1>9 DEF SumsTo
<1>11. QED
  BY <1>10 DEF q1

\* A list sums to what it did when its orders offer what they did.
LEMMA SumsOfTheSame ==
  ASSUME NEW q \in Seq(Ids), NEW r, NEW r1, NEW t, SumsTo(q, r, t),
         \A j \in DOMAIN q : r1[q[j]] = r[q[j]]
  PROVE  SumsTo(q, r1, t)
<1>1. DOMAIN q = 1 .. Len(q)
  BY LenProperties
<1>2. QED
  BY <1>1 DEF SumsTo

\* A list one of whose orders offers less sums to that much less.
LEMMA SumsWithOneLess ==
  ASSUME NEW q \in Seq(Ids), Distinct(q),
         NEW r \in [Ids -> Quantities], NEW r1 \in [Ids -> Quantities],
         NEW t, SumsTo(q, r, t), NEW k \in DOMAIN q,
         \A j \in DOMAIN q : j # k => r1[q[j]] = r[q[j]],
         r1[q[k]] <= r[q[k]]
  PROVE  /\ t - (r[q[k]] - r1[q[k]]) \in Quantities
         /\ SumsTo(q, r1, t - (r[q[k]] - r1[q[k]]))
<1>1. PICK f \in [0 .. Len(q) -> Quantities] :
        /\ f[0] = 0 /\ f[Len(q)] = t /\ t \in Quantities
        /\ \A j \in 1 .. Len(q) : f[j] = f[j - 1] + r[q[j]]
        /\ \A j, l \in 0 .. Len(q) : j <= l => f[j] <= f[l]
  BY SumsToParts
<1> DEFINE n == Len(q)
           old == r[q[k]]
           new == r1[q[k]]
           d == old - new
           g == [j \in 0 .. n |-> IF j < k THEN f[j] ELSE f[j] - d]
<1>2. /\ n \in Nat /\ DOMAIN q = 1 .. n /\ k \in 1 .. n /\ MaxQuantity \in Nat
      /\ \A j \in 1 .. n : q[j] \in Ids
  BY LenProperties, ElementOfSeq, MaxQuantityAssumption
<1>3. /\ \A j \in 1 .. n : r[q[j]] \in Nat
      /\ old \in Nat /\ new \in Nat
  BY <1>2 DEF Quantities
<1>4. \A j \in 0 .. n : f[j] \in Nat /\ f[j] <= MaxQuantity
  <2>1. \A j \in 0 .. n : f[j] \in Quantities
    OBVIOUS
  <2>2. \A m \in Quantities : m \in Nat /\ m <= MaxQuantity
    BY <1>2 DEF Quantities
  <2>3. QED
    BY <2>1, <2>2
<1>5. f[k] = f[k - 1] + old /\ f[k] \in Nat /\ f[k - 1] \in Nat
  BY <1>1, <1>2, <1>4
<1>6. d \in Nat /\ d <= old /\ old - d = new
  <2> HIDE DEF old, new
  <2>1. new <= old
    BY DEF old, new
  <2>2. QED
    BY <1>3, <2>1
<1> HIDE DEF d, old, new
<1>7. \A j \in k .. n : f[j] - d \in Nat /\ f[j] - d <= MaxQuantity /\ f[k - 1] <= f[j] - d
  <2> SUFFICES ASSUME NEW j \in k .. n
               PROVE  f[j] - d \in Nat /\ f[j] - d <= MaxQuantity /\ f[k - 1] <= f[j] - d
    OBVIOUS
  <2>1. j \in 0 .. n /\ k \in 0 .. n /\ k <= j
    BY <1>2
  <2>2. f[k] <= f[j]
    BY <1>1, <2>1
  <2>3. f[j] \in Nat /\ f[j] <= MaxQuantity
    BY <1>4, <2>1
  <2>4. QED
    BY <1>2, <1>3, <1>5, <1>6, <2>2, <2>3
<1>8. \A j \in 0 .. n : g[j] \in Nat /\ g[j] <= MaxQuantity
  BY <1>2, <1>4, <1>7
<1>9. g \in [0 .. n -> Quantities]
  BY <1>2, <1>8 DEF Quantities
<1>10. g[0] = 0 /\ g[n] = t - d
  BY <1>1, <1>2
<1>11. ASSUME NEW j \in 1 .. n
       PROVE  g[j] = g[j - 1] + r1[q[j]]
  <2>1. j \in 0 .. n /\ j - 1 \in 0 .. n
    BY <1>2
  <2>2. f[j] = f[j - 1] + r[q[j]] /\ f[j] \in Nat /\ f[j - 1] \in Nat /\ r[q[j]] \in Nat
    BY <1>1, <1>3, <1>4, <2>1
  <2>3. CASE j < k
    BY <1>2, <2>1, <2>2, <2>3
  <2>4. CASE j = k
    <3>1. g[j] = f[j] - d /\ g[j - 1] = f[j - 1] /\ r1[q[j]] = new /\ r[q[j]] = old
      BY <1>2, <2>1, <2>4 DEF old, new
    <3> HIDE DEF g
    <3>2. QED
      BY <1>3, <1>6, <2>2, <3>1
  <2>5. CASE j > k
    <3>1. g[j] = f[j] - d /\ g[j - 1] = f[j - 1] - d /\ r1[q[j]] = r[q[j]]
      BY <1>2, <2>1, <2>5
    <3> HIDE DEF g
    <3>2. QED
      BY <1>6, <2>2, <3>1
  <2>6. QED
    BY <1>2, <2>3, <2>4, <2>5
<1>12. ASSUME NEW j \in 0 .. n, NEW l \in 0 .. n, j <= l
       PROVE  g[j] <= g[l]
  <2>1. f[j] <= f[l] /\ f[j] \in Nat /\ f[l] \in Nat
    BY <1>1, <1>4, <1>12
  <2>2. CASE l < k
    BY <1>2, <1>12, <2>1, <2>2
  <2>3. CASE j < k /\ ~(l < k)
    <3>1. f[j] <= f[k - 1]
      BY <1>1, <1>2, <2>3
    <3>2. l \in k .. n
      BY <1>2, <2>3
    <3>3. f[k - 1] <= f[l] - d /\ f[l] - d \in Nat
      BY <1>7, <3>2
    <3>4. g[j] = f[j] /\ g[l] = f[l] - d
      BY <2>3
    <3> HIDE DEF g
    <3>5. QED
      BY <1>5, <2>1, <3>1, <3>3, <3>4
  <2>4. CASE ~(j < k) /\ ~(l < k)
    <3>1. g[j] = f[j] - d /\ g[l] = f[l] - d
      BY <2>4
    <3> HIDE DEF g
    <3>2. QED
      BY <1>6, <2>1, <3>1
  <2>5. QED
    BY <1>2, <1>12, <2>2, <2>3, <2>4
<1>13. t - d \in Quantities
  BY <1>2, <1>9, <1>10
<1> HIDE DEF g
<1>14. SumsTo(q, r1, t - d)
  BY <1>9, <1>10, <1>11, <1>12 DEF SumsTo
<1>15. QED
  BY <1>13, <1>14 DEF d, old, new
-----------------------------------------------------------------------------
\* The types of the parts of an order, and of a level, for the steps below.
LEMMA TypesOfParts ==
  ASSUME TypeOK
  PROVE  /\ \A i \in Ids :
              /\ order[i] \in Orders
              /\ order[i].side \in Sides /\ Opposite(order[i].side) \in Sides
              /\ order[i].type \in OrderTypes
              /\ order[i].price \in Prices \cup {0} /\ order[i].price \in Int
              /\ order[i].sequence \in Nat /\ order[i].notional \in Int
              /\ order[i].original \in Nat /\ order[i].remaining \in Nat
              /\ order[i].original <= MaxQuantity /\ order[i].remaining <= MaxQuantity
         /\ \A s \in Sides, p \in Prices :
              /\ queue[s][p] \in Seq(Ids) /\ total[s][p] \in Int
              /\ \A k \in DOMAIN queue[s][p] : queue[s][p][k] \in Ids
<1>1. \A i \in Ids : order[i] \in Orders
  BY DEF TypeOK
<1>2. ASSUME NEW o \in Orders
      PROVE  /\ o.side \in Sides /\ Opposite(o.side) \in Sides
             /\ o.type \in OrderTypes
             /\ o.price \in Prices \cup {0} /\ o.price \in Int
             /\ o.sequence \in Nat /\ o.notional \in Int
             /\ o.original \in Nat /\ o.remaining \in Nat
             /\ o.original <= MaxQuantity /\ o.remaining <= MaxQuantity
  <2>1. /\ o.side \in Sides /\ o.type \in OrderTypes /\ o.price \in Prices \cup {0}
        /\ o.original \in Quantities /\ o.remaining \in Quantities
        /\ o.sequence \in Nat /\ o.notional \in Int
    BY DEF Orders
  <2>2. Opposite(o.side) \in Sides
    BY <2>1 DEF Sides, Opposite
  <2>3. o.price \in Int
    <3>1. \A p \in Prices \cup {0} : p \in Int
      BY PricesAssumption
    <3>2. QED
      BY <2>1, <3>1
  <2>4. /\ o.original \in Nat /\ o.original <= MaxQuantity
        /\ o.remaining \in Nat /\ o.remaining <= MaxQuantity
    BY <2>1, MaxQuantityAssumption DEF Quantities
  <2>5. QED
    BY <2>1, <2>2, <2>3, <2>4
<1>3. \A s \in Sides, p \in Prices : queue[s][p] \in Seq(Ids) /\ total[s][p] \in Int
  BY DEF TypeOK
<1>4. \A s \in Sides, p \in Prices : \A k \in DOMAIN queue[s][p] : queue[s][p][k] \in Ids
  BY <1>3, LenProperties, ElementOfSeq
<1>5. QED
  BY <1>1, <1>2, <1>3, <1>4

\* Strictly increasing sequence numbers make the members of a list distinct.
LEMMA ListsAreDistinct ==
  ASSUME TypeOK, OldestFirst
  PROVE  \A s \in Sides, p \in Prices : Distinct(queue[s][p])
<1> SUFFICES ASSUME NEW s \in Sides, NEW p \in Prices,
                    NEW j \in DOMAIN queue[s][p], NEW k \in DOMAIN queue[s][p], j # k
             PROVE  queue[s][p][j] # queue[s][p][k]
  BY DEF Distinct
<1>1. j \in Nat /\ k \in Nat
  BY TypesOfParts, LenProperties
<1>2. /\ order[queue[s][p][j]].sequence \in Nat
      /\ order[queue[s][p][k]].sequence \in Nat
  BY TypesOfParts
<1>3. QED
  BY <1>1, <1>2 DEF OldestFirst

\* Where a linked order stands in its list.
LEMMA IndexOfLinked ==
  ASSUME BookInvariant, NEW i \in Ids, level[i] # None
  PROVE  LET s == order[i].side
             q == queue[s][level[i]]
         IN  /\ i \in active /\ s \in Sides /\ level[i] \in Prices
             /\ order[i].price = level[i]
             /\ q \in Seq(Ids) /\ Distinct(q)
             /\ IndexOf(q, i) \in DOMAIN q /\ q[IndexOf(q, i)] = i
<1>1. /\ i \in active /\ order[i].side \in Sides /\ level[i] \in Prices
      /\ order[i].price = level[i]
      /\ \E k \in DOMAIN queue[order[i].side][level[i]] :
           queue[order[i].side][level[i]][k] = i
  BY TypesOfParts DEF BookInvariant, LinkedAreQueued, TypeOK
<1>2. QED
  BY <1>1, ListsAreDistinct, TypesOfParts DEF BookInvariant, IndexOf

\* The list an order is not linked to does not hold it.
LEMMA WithoutUnlinked ==
  ASSUME BookInvariant, NEW i \in Ids, NEW s \in Sides, NEW p \in Prices,
         level[i] # p \/ order[i].side # s
  PROVE  Without(queue[s][p], queue[s][p], i)
BY DEF BookInvariant, QueuedAreLinked, Without

\* Setting the list of a level keeps the map of levels that of the non-empty lists.
LEMMA SetLevelResult ==
  ASSUME BookInvariant, NEW s \in Sides, NEW p \in Prices, NEW q \in Seq(Ids),
         NEW t \in Int, SetLevel(s, p, q, t)
  PROVE  /\ queue' \in [Sides -> [Prices -> Seq(Ids)]]
         /\ total' \in [Sides -> [Prices -> Int]]
         /\ levels' \in [Sides -> SUBSET Prices]
         /\ \A u \in Sides, v \in Prices :
              queue'[u][v] = IF u = s /\ v = p THEN q ELSE queue[u][v]
         /\ \A u \in Sides :
              levels'[u] = IF u = s THEN (IF q = <<>> THEN levels[u] \ {p}
                                                      ELSE levels[u] \cup {p})
                                    ELSE levels[u]
         /\ LevelsAreNonEmpty'
<1>1. /\ queue' = [queue EXCEPT ![s][p] = q]
      /\ levels' = [levels EXCEPT ![s] = IF q = <<>> THEN @ \ {p} ELSE @ \cup {p}]
  BY DEF SetLevel
<1>2. queue' \in [Sides -> [Prices -> Seq(Ids)]] /\ levels' \in [Sides -> SUBSET Prices]
  BY <1>1 DEF BookInvariant, TypeOK
<1>3. total' \in [Sides -> [Prices -> Int]]
  <2> DEFINE value == IF q = <<>> THEN 0 ELSE t
  <2>1. total' = [total EXCEPT ![s][p] = value]
    BY DEF SetLevel
  <2>2. value \in Int
    OBVIOUS
  <2> HIDE DEF value
  <2>3. QED
    BY <2>1, <2>2 DEF BookInvariant, TypeOK
<1>4. \A u \in Sides, v \in Prices :
        queue'[u][v] = IF u = s /\ v = p THEN q ELSE queue[u][v]
  BY <1>1 DEF BookInvariant, TypeOK
<1>5. \A u \in Sides :
        levels'[u] = IF u = s THEN (IF q = <<>> THEN levels[u] \ {p}
                                                ELSE levels[u] \cup {p})
                              ELSE levels[u]
  BY <1>1 DEF BookInvariant, TypeOK
<1>6. ASSUME NEW u \in Sides, NEW v \in Prices
      PROVE  v \in levels'[u] <=> queue'[u][v] # <<>>
  <2>1. CASE u = s /\ v = p
    BY <1>4, <1>5, <2>1
  <2>2. CASE ~(u = s /\ v = p)
    <3>1. queue'[u][v] = queue[u][v]
      BY <1>4, <2>2
    <3>2. v \in levels'[u] <=> v \in levels[u]
      BY <1>5, <2>2
    <3>3. QED
      BY <3>1, <3>2 DEF BookInvariant, LevelsAreNonEmpty
  <2>3. QED
    BY <2>1, <2>2
<1>7. LevelsAreNonEmpty'
  BY <1>6 DEF LevelsAreNonEmpty
<1>8. QED
  BY <1>2, <1>3, <1>4, <1>5, <1>7

\* RemoveFromLevel takes an order out of the lists and nothing else.
LEMMA RemoveFromLevelUnlinks ==
  ASSUME BookInvariant, NEW i \in Ids, level[i] # None, RemoveFromLevel(i)
  PROVE  /\ queue' \in [Sides -> [Prices -> Seq(Ids)]]
         /\ total' \in [Sides -> [Prices -> Int]]
         /\ levels' \in [Sides -> SUBSET Prices]
         /\ LevelsAreNonEmpty'
         /\ \A s \in Sides : levels'[s] \subseteq levels[s]
         /\ \A s \in Sides, p \in Prices : Without(queue'[s][p], queue[s][p], i)
<1> DEFINE s == order[i].side
           p == level[i]
           q == queue[s][p]
           r == SeqX!RemoveAt(q, IndexOf(q, i))
           t == total[s][p] - order[i].remaining
<1>1. /\ s \in Sides /\ p \in Prices /\ p \in levels[s]
      /\ r \in Seq(Ids) /\ Without(r, q, i)
  <2>1. /\ s \in Sides /\ p \in Prices
        /\ q \in Seq(Ids) /\ Distinct(q)
        /\ IndexOf(q, i) \in DOMAIN q /\ q[IndexOf(q, i)] = i
    BY IndexOfLinked
  <2>2. q # <<>>
    BY <2>1, EmptySeq
  <2>3. p \in levels[s]
    BY <2>1, <2>2 DEF BookInvariant, LevelsAreNonEmpty
  <2>4. QED
    BY <2>1, <2>3, RemoveAtIsWithout
<1>2. t \in Int
  BY <1>1, TypesOfParts DEF BookInvariant
<1>3. SetLevel(s, p, r, t)
  BY DEF RemoveFromLevel
<1> HIDE DEF r, t
<1>4. /\ queue' \in [Sides -> [Prices -> Seq(Ids)]]
      /\ total' \in [Sides -> [Prices -> Int]]
      /\ levels' \in [Sides -> SUBSET Prices]
      /\ \A u \in Sides, v \in Prices :
           queue'[u][v] = IF u = s /\ v = p THEN r ELSE queue[u][v]
      /\ \A u \in Sides :
           levels'[u] = IF u = s THEN (IF r = <<>> THEN levels[u] \ {p}
                                                   ELSE levels[u] \cup {p})
                                 ELSE levels[u]
      /\ LevelsAreNonEmpty'
  BY <1>1, <1>2, <1>3, SetLevelResult
<1>5. \A u \in Sides, v \in Prices : Without(queue'[u][v], queue[u][v], i)
  BY <1>1, <1>4, WithoutUnlinked
<1>6. \A u \in Sides : levels'[u] \subseteq levels[u]
  BY <1>1, <1>4
<1>7. QED
  BY <1>4, <1>5, <1>6

\* When one order leaves the lists and the others keep their place, their links
\* and their sequence, the book stays linked, in order, and uncrossed.
LEMMA UnlinkingKeepsTheRest ==
  ASSUME BookInvariant, NEW i \in Ids,
         \A s \in Sides : levels'[s] \subseteq levels[s],
         \A s \in Sides, p \in Prices : Without(queue'[s][p], queue[s][p], i),
         level' = [level EXCEPT ![i] = None],
         active \ {i} \subseteq active',
         \A j \in Ids \ {i} :
           /\ order'[j].side = order[j].side
           /\ order'[j].price = order[j].price
           /\ order'[j].sequence = order[j].sequence
  PROVE  QueuedAreLinked' /\ LinkedAreQueued' /\ OldestFirst' /\ Uncrossed'
<1> USE DEF BookInvariant
<1>1. ASSUME NEW s \in Sides, NEW p \in Prices, NEW k \in DOMAIN queue'[s][p]
      PROVE  /\ queue'[s][p][k] \in active \ {i}
             /\ level[queue'[s][p][k]] = p
             /\ order[queue'[s][p][k]].side = s
  BY <1>1 DEF Without, QueuedAreLinked
<1>2. QueuedAreLinked'
  <2> SUFFICES ASSUME NEW s \in Sides, NEW p \in Prices, NEW k \in DOMAIN queue'[s][p]
               PROVE  LET j == queue'[s][p][k] IN
                      j \in active' /\ level'[j] = p /\ order'[j].side = s
    BY DEF QueuedAreLinked
  <2>1. queue'[s][p][k] \in Ids \ {i}
    BY <1>1 DEF TypeOK
  <2>2. level'[queue'[s][p][k]] = level[queue'[s][p][k]]
    BY <2>1 DEF TypeOK
  <2>3. QED
    BY <1>1, <2>1, <2>2
<1>3. LinkedAreQueued'
  <2> SUFFICES ASSUME NEW j \in Ids, level'[j] # None
               PROVE  /\ j \in active'
                      /\ order'[j].price = level'[j]
                      /\ \E k \in DOMAIN queue'[order'[j].side][level'[j]] :
                           queue'[order'[j].side][level'[j]][k] = j
    BY DEF LinkedAreQueued
  <2>1. j # i /\ level'[j] = level[j]
    BY DEF TypeOK
  <2>2. j \in active /\ order[j].side \in Sides /\ level[j] \in Prices
    BY <2>1, IndexOfLinked
  <2>3. \E k \in DOMAIN queue'[order[j].side][level[j]] :
          queue'[order[j].side][level[j]][k] = j
    BY <2>1, <2>2 DEF Without, LinkedAreQueued
  <2>4. QED
    BY <2>1, <2>2, <2>3 DEF LinkedAreQueued
<1>4. OldestFirst'
  <2> SUFFICES ASSUME NEW s \in Sides, NEW p \in Prices,
                      NEW j \in DOMAIN queue'[s][p], NEW k \in DOMAIN queue'[s][p],
                      j < k
               PROVE  order'[queue'[s][p][j]].sequence < order'[queue'[s][p][k]].sequence
    BY DEF OldestFirst
  <2>1. \E m, n \in DOMAIN queue[s][p] :
          m < n /\ queue'[s][p][j] = queue[s][p][m] /\ queue'[s][p][k] = queue[s][p][n]
    BY DEF Without
  <2>2. order[queue'[s][p][j]].sequence < order[queue'[s][p][k]].sequence
    BY <2>1 DEF OldestFirst
  <2>3. QED
    BY <1>1, <2>2 DEF TypeOK
<1>5. Uncrossed'
  BY DEF Uncrossed, Sides
<1>6. QED
  BY <1>2, <1>3, <1>4, <1>5

\* When an order joins the back of a list with the youngest sequence number, the
\* lists stay linked and in order.
LEMMA LinkingKeepsTheRest ==
  ASSUME BookInvariant, NEW i \in active, NEW s \in Sides, NEW p \in Prices,
         NEW q \in Seq(Ids), Without(q, queue[s][p], i),
         \A t \in Sides, u \in Prices :
           t # s \/ u # p => Without(queue[t][u], queue[t][u], i),
         queue' = [queue EXCEPT ![s][p] = Append(q, i)],
         level' = [level EXCEPT ![i] = p],
         active' = active,
         order'[i].side = s, order'[i].price = p,
         \A j \in Ids \ {i} :
           /\ order'[j].side = order[j].side
           /\ order'[j].price = order[j].price
           /\ order'[j].sequence = order[j].sequence,
         \A j \in active \ {i} : order[j].sequence < order'[i].sequence
  PROVE  /\ queue' \in [Sides -> [Prices -> Seq(Ids)]]
         /\ level' \in [Ids -> Prices \cup {None}]
         /\ QueuedAreLinked' /\ LinkedAreQueued' /\ OldestFirst'
<1> USE DEF BookInvariant
<1> DEFINE r == Append(q, i)
<1>0. i \in Ids
  BY DEF TypeOK
<1>1. /\ r \in Seq(Ids) /\ Len(q) \in Nat /\ Len(r) = Len(q) + 1
      /\ DOMAIN q = 1 .. Len(q) /\ DOMAIN r = 1 .. Len(q) + 1
      /\ \A k \in DOMAIN q : r[k] = q[k]
      /\ r[Len(q) + 1] = i
  BY <1>0, AppendProperties, LenProperties
<1> HIDE DEF r
<1>2. queue' \in [Sides -> [Prices -> Seq(Ids)]] /\ level' \in [Ids -> Prices \cup {None}]
  BY <1>0, <1>1 DEF TypeOK, r
<1>3. \A t \in Sides, u \in Prices :
        queue'[t][u] = IF t = s /\ u = p THEN r ELSE queue[t][u]
  BY DEF TypeOK, r
<1>4. \A j \in Ids : level'[j] = IF j = i THEN p ELSE level[j]
  BY DEF TypeOK
<1>40. queue'[s][p] = r
  BY DEF TypeOK, r
\* Every member of a list but i was a member of that list before.
<1>5. ASSUME NEW t \in Sides, NEW u \in Prices, NEW k \in DOMAIN queue'[t][u],
             queue'[t][u][k] # i
      PROVE  /\ queue'[t][u][k] \in active \ {i}
             /\ level[queue'[t][u][k]] = u
             /\ order[queue'[t][u][k]].side = t
  <2>1. \E m \in DOMAIN queue[t][u] : queue'[t][u][k] = queue[t][u][m]
    <3>1. CASE t = s /\ u = p
      <4>1. k \in DOMAIN q /\ queue'[t][u][k] = q[k]
        BY <1>1, <1>3, <1>5, <3>1
      <4>2. QED
        BY <3>1, <4>1 DEF Without
    <3>2. CASE ~(t = s /\ u = p)
      BY <1>3, <3>2
    <3>3. QED
      BY <3>1, <3>2
  <2>2. QED
    BY <1>5, <2>1 DEF QueuedAreLinked
\* Only the level it joins has i, at its end.
<1>6. ASSUME NEW t \in Sides, NEW u \in Prices, NEW k \in DOMAIN queue'[t][u],
             queue'[t][u][k] = i
      PROVE  t = s /\ u = p /\ k = Len(q) + 1
  <2>1. CASE t = s /\ u = p
    <3>1. k \in 1 .. Len(q) + 1 /\ r[k] = i
      BY <1>1, <1>6, <1>40, <2>1
    <3>2. k \notin DOMAIN q
      BY <1>1, <3>1 DEF Without
    <3>3. QED
      BY <1>1, <2>1, <3>1, <3>2
  <2>2. CASE ~(t = s /\ u = p)
    BY <1>3, <1>6, <2>2 DEF Without
  <2>3. QED
    BY <2>1, <2>2
<1>7. QueuedAreLinked'
  <2> SUFFICES ASSUME NEW t \in Sides, NEW u \in Prices, NEW k \in DOMAIN queue'[t][u]
               PROVE  LET j == queue'[t][u][k] IN
                      j \in active' /\ level'[j] = u /\ order'[j].side = t
    BY DEF QueuedAreLinked
  <2>1. CASE queue'[t][u][k] = i
    BY <1>0, <1>4, <1>6, <2>1
  <2>2. CASE queue'[t][u][k] # i
    <3>1. queue'[t][u][k] \in Ids \ {i}
      BY <1>5, <2>2 DEF TypeOK
    <3>2. QED
      BY <1>4, <1>5, <2>2, <3>1
  <2>3. QED
    BY <2>1, <2>2
<1>8. LinkedAreQueued'
  <2> SUFFICES ASSUME NEW j \in Ids, level'[j] # None
               PROVE  /\ j \in active'
                      /\ order'[j].price = level'[j]
                      /\ \E k \in DOMAIN queue'[order'[j].side][level'[j]] :
                           queue'[order'[j].side][level'[j]][k] = j
    BY DEF LinkedAreQueued
  <2>1. CASE j = i
    <3>1. Len(q) + 1 \in DOMAIN r
      BY <1>1
    <3>2. level'[i] = p /\ i \in active'
      BY <1>0, <1>4
    <3>3. \E k \in DOMAIN queue'[s][p] : queue'[s][p][k] = i
      BY <1>1, <1>40, <3>1
    <3>4. QED
      BY <2>1, <3>2, <3>3
  <2>2. CASE j # i
    <3>1. /\ level'[j] = level[j] /\ order'[j].side = order[j].side
          /\ order'[j].price = order[j].price
      BY <1>4, <2>2
    <3>2. /\ j \in active /\ order[j].side \in Sides /\ level[j] \in Prices
          /\ order[j].price = level[j]
      BY <3>1, IndexOfLinked
    <3>3. PICK m \in DOMAIN queue[order[j].side][level[j]] :
            queue[order[j].side][level[j]][m] = j
      BY <3>1 DEF LinkedAreQueued
    <3>4. \E k \in DOMAIN queue'[order[j].side][level[j]] :
            queue'[order[j].side][level[j]][k] = j
      <4>1. CASE order[j].side = s /\ level[j] = p
        <5>1. PICK k \in DOMAIN q : q[k] = j
          BY <2>2, <3>3, <4>1 DEF Without
        <5>2. k \in DOMAIN r /\ r[k] = j
          BY <1>1, <5>1
        <5>3. QED
          BY <1>40, <4>1, <5>2
      <4>2. CASE ~(order[j].side = s /\ level[j] = p)
        BY <1>3, <3>2, <3>3, <4>2
      <4>3. QED
        BY <4>1, <4>2
    <3>5. QED
      BY <3>1, <3>2, <3>4
  <2>3. QED
    BY <2>1, <2>2
<1>9. OldestFirst'
  <2> SUFFICES ASSUME NEW t \in Sides, NEW u \in Prices,
                      NEW j \in DOMAIN queue'[t][u], NEW k \in DOMAIN queue'[t][u],
                      j < k
               PROVE  order'[queue'[t][u][j]].sequence < order'[queue'[t][u][k]].sequence
    BY DEF OldestFirst
  <2>1. queue'[t][u][j] # i
    <3>1. SUFFICES ASSUME queue'[t][u][j] = i PROVE FALSE
      OBVIOUS
    <3>2. t = s /\ u = p /\ j = Len(q) + 1
      BY <1>6, <3>1
    <3>3. k \in 1 .. Len(q) + 1
      BY <1>1, <1>3, <3>2
    <3>4. QED
      BY <1>1, <3>2, <3>3
  <2>2. queue'[t][u][j] \in active \ {i}
    BY <1>5, <2>1
  <2>3. CASE queue'[t][u][k] = i
    BY <2>2, <2>3 DEF TypeOK
  <2>4. CASE queue'[t][u][k] # i
    <3>1. queue'[t][u][k] \in active \ {i}
      BY <1>5, <2>4
    <3>2. \E m, n \in DOMAIN queue[t][u] :
            m < n /\ queue'[t][u][j] = queue[t][u][m] /\ queue'[t][u][k] = queue[t][u][n]
      <4>1. CASE t = s /\ u = p
        <5>1. /\ j \in DOMAIN q /\ k \in DOMAIN q
              /\ queue'[t][u][j] = q[j] /\ queue'[t][u][k] = q[k]
          <6>1. j \in 1 .. Len(q) + 1 /\ k \in 1 .. Len(q) + 1
            BY <1>1, <1>40, <4>1
          <6>2. j # Len(q) + 1 /\ k # Len(q) + 1
            BY <1>1, <1>40, <2>1, <2>4, <4>1
          <6>3. QED
            BY <1>1, <1>40, <4>1, <6>1, <6>2
        <5>2. \E m, n \in DOMAIN queue[s][p] :
                m < n /\ q[j] = queue[s][p][m] /\ q[k] = queue[s][p][n]
          BY <5>1 DEF Without
        <5>3. QED
          BY <4>1, <5>1, <5>2
      <4>2. CASE ~(t = s /\ u = p)
        BY <1>3, <4>2
      <4>3. QED
        BY <4>1, <4>2
    <3>3. order[queue'[t][u][j]].sequence < order[queue'[t][u][k]].sequence
      BY <3>2 DEF OldestFirst
    <3>4. QED
      BY <2>2, <3>1, <3>3 DEF TypeOK
  <2>5. QED
    BY <2>3, <2>4
<1>10. QED
  BY <1>2, <1>7, <1>8, <1>9

\* What the orders offer, before and after a step.
LEMMA OpenTypes ==
  /\ TypeOK => /\ Open \in [Ids -> Quantities]
               /\ \A i \in Ids : Open[i] = order[i].remaining
  /\ order' \in [Ids -> Orders] =>
               /\ Open' \in [Ids -> Quantities]
               /\ \A i \in Ids : Open'[i] = order'[i].remaining
<1>1. \A o \in Orders : o.remaining \in Quantities
  BY DEF Orders
<1>2. QED
  BY <1>1 DEF Open, TypeOK

\* A step that sets one level, to a list and its total, keeps all totals right
\* when the orders in the other lists offer what they did.
LEMMA SetLevelAddsUp ==
  ASSUME BookInvariant, NEW s \in Sides, NEW p \in Prices, NEW q \in Seq(Ids),
         NEW t \in Int, SetLevel(s, p, q, t), SumsTo(q, Open', t),
         order' \in [Ids -> Orders],
         \A u \in Sides, v \in Prices : u # s \/ v # p =>
           \A k \in DOMAIN queue[u][v] :
             order'[queue[u][v][k]].remaining = order[queue[u][v][k]].remaining
  PROVE  TotalsAddUp'
<1> DEFINE value == IF q = <<>> THEN 0 ELSE t
<1>1. /\ queue' = [queue EXCEPT ![s][p] = q]
      /\ total' = [total EXCEPT ![s][p] = value]
  BY DEF SetLevel
<1>2. SumsTo(q, Open', value)
  BY NoneSumToZero
<1> HIDE DEF value
<1>3. SUFFICES ASSUME NEW u \in Sides, NEW v \in Prices
               PROVE  SumsTo(queue'[u][v], Open', total'[u][v])
  BY DEF TotalsAddUp
<1>4. CASE u = s /\ v = p
  <2>1. queue'[u][v] = q /\ total'[u][v] = value
    BY <1>1, <1>4 DEF BookInvariant, TypeOK
  <2>2. QED
    BY <1>2, <2>1
<1>5. CASE ~(u = s /\ v = p)
  <2>1. queue'[u][v] = queue[u][v] /\ total'[u][v] = total[u][v]
    BY <1>1, <1>5 DEF BookInvariant, TypeOK
  <2>2. SumsTo(queue[u][v], Open, total[u][v])
    BY DEF BookInvariant, TotalsAddUp
  <2>3. /\ queue[u][v] \in Seq(Ids)
        /\ \A k \in DOMAIN queue[u][v] : queue[u][v][k] \in Ids
    BY TypesOfParts DEF BookInvariant
  <2>4. \A k \in DOMAIN queue[u][v] : Open'[queue[u][v][k]] = Open[queue[u][v][k]]
    <3>1. /\ \A i \in Ids : Open[i] = order[i].remaining
          /\ \A i \in Ids : Open'[i] = order'[i].remaining
      BY OpenTypes DEF BookInvariant
    <3>2. QED
      BY <1>5, <2>3, <3>1
  <2>5. SumsTo(queue[u][v], Open', total[u][v])
    BY <2>2, <2>3, <2>4, SumsOfTheSame
  <2>6. QED
    BY <2>1, <2>5
<1>6. QED
  BY <1>4, <1>5

\* Neither does a step that sets no level and changes an order in no list.
LEMMA UntouchedAddsUp ==
  ASSUME BookInvariant, NEW i \in Ids, level[i] = None,
         UNCHANGED <<queue, total>>, order' \in [Ids -> Orders],
         \A j \in Ids \ {i} : order'[j] = order[j]
  PROVE  TotalsAddUp'
<1>1. SUFFICES ASSUME NEW u \in Sides, NEW v \in Prices
               PROVE  SumsTo(queue[u][v], Open', total[u][v])
  BY DEF TotalsAddUp
<1>2. SumsTo(queue[u][v], Open, total[u][v])
  BY DEF BookInvariant, TotalsAddUp
<1>3. /\ queue[u][v] \in Seq(Ids)
      /\ \A k \in DOMAIN queue[u][v] : queue[u][v][k] \in Ids \ {i}
  BY TypesOfParts, NoneAssumption, PricesAssumption DEF BookInvariant, QueuedAreLinked
<1>4. \A k \in DOMAIN queue[u][v] : Open'[queue[u][v][k]] = Open[queue[u][v][k]]
  BY <1>3, OpenTypes DEF BookInvariant
<1>5. QED
  BY <1>2, <1>3, <1>4, SumsOfTheSame

\* What a linked order leaves behind when its node is erased: a list without it,
\* which sums to the level's total less what the order has left.
LEMMA LeftBehind ==
  ASSUME BookInvariant, NEW i \in Ids, level[i] # None
  PROVE  LET s == order[i].side
             p == level[i]
             q == queue[s][p]
             r == SeqX!RemoveAt(q, IndexOf(q, i))
             t == total[s][p] - order[i].remaining
         IN  /\ i \in active /\ s \in Sides /\ p \in Prices /\ order[i].price = p
             /\ q \in Seq(Ids) /\ q # <<>> /\ p \in levels[s]
             /\ r \in Seq(Ids) /\ Without(r, q, i)
             /\ t \in Quantities /\ SumsTo(r, Open, t)
<1> DEFINE s == order[i].side
           p == level[i]
           q == queue[s][p]
           k == IndexOf(q, i)
           r == SeqX!RemoveAt(q, k)
           u == total[s][p]
           t == u - order[i].remaining
<1>1. /\ i \in active /\ s \in Sides /\ p \in Prices /\ order[i].price = p
      /\ q \in Seq(Ids) /\ Distinct(q) /\ k \in DOMAIN q /\ q[k] = i
  BY IndexOfLinked
<1>2. /\ r \in Seq(Ids) /\ Len(r) = Len(q) - 1
      /\ \A j \in 1 .. Len(q) - 1 : r[j] = IF j < k THEN q[j] ELSE q[j + 1]
      /\ Without(r, q, i)
  <2> HIDE DEF k, q
  <2>1. QED
    BY <1>1, RemoveAtElements, RemoveAtIsWithout
<1>3. q # <<>>
  <2> HIDE DEF k, q
  <2>1. QED
    BY <1>1, EmptySeq
<1>4. p \in levels[s]
  BY <1>1, <1>3 DEF BookInvariant, LevelsAreNonEmpty
<1>5. SumsTo(q, Open, u)
  BY <1>1 DEF BookInvariant, TotalsAddUp
<1>6. Open \in [Ids -> Quantities] /\ Open[i] = order[i].remaining
  BY OpenTypes DEF BookInvariant
<1>7. t \in Quantities /\ SumsTo(r, Open, t)
  <2>1. t = u - Open[q[k]]
    BY <1>1, <1>6
  <2> HIDE DEF t, r, q, k, u
  <2>2. QED
    BY <1>1, <1>2, <1>5, <1>6, <2>1, SumsWithoutOne
<1>8. QED
  BY <1>1, <1>2, <1>3, <1>4, <1>7

\* What a list sums to does not depend on an order that is not in it.
LEMMA SumsWithoutTheChanged ==
  ASSUME TypeOK, order' \in [Ids -> Orders], NEW i \in Ids,
         \A j \in Ids \ {i} : order'[j] = order[j],
         NEW q \in Seq(Ids), \A k \in DOMAIN q : q[k] # i,
         NEW t, SumsTo(q, Open, t)
  PROVE  SumsTo(q, Open', t)
<1>1. \A k \in DOMAIN q : q[k] \in Ids \ {i}
  BY LenProperties, ElementOfSeq
<1>2. \A j \in Ids \ {i} : Open'[j] = Open[j]
  BY OpenTypes
<1>3. \A k \in DOMAIN q : Open'[q[k]] = Open[q[k]]
  BY <1>1, <1>2
<1>4. QED
  BY <1>3, SumsOfTheSame

\* The orders of all levels but the one an order is linked to are other orders.
LEMMA OthersElsewhere ==
  ASSUME BookInvariant, NEW i \in Ids, NEW s \in Sides, NEW p \in Prices,
         s = order[i].side, p = level[i],
         \A j \in Ids \ {i} : order'[j] = order[j]
  PROVE  \A u \in Sides, v \in Prices : u # s \/ v # p =>
           \A k \in DOMAIN queue[u][v] :
             order'[queue[u][v][k]].remaining = order[queue[u][v][k]].remaining
<1>1. \A u \in Sides, v \in Prices : \A k \in DOMAIN queue[u][v] :
        u # s \/ v # p => queue[u][v][k] \in Ids \ {i}
  BY TypesOfParts DEF BookInvariant, QueuedAreLinked
<1>2. QED
  BY <1>1

\* RemoveFromLevel takes what the order has left from its level's total.
LEMMA RemoveFromLevelAddsUp ==
  ASSUME BookInvariant, NEW i \in Ids, level[i] # None, RemoveFromLevel(i),
         order' \in [Ids -> Orders],
         \A j \in Ids \ {i} : order'[j] = order[j]
  PROVE  TotalsAddUp'
<1> DEFINE s == order[i].side
           p == level[i]
           q == queue[s][p]
           r == SeqX!RemoveAt(q, IndexOf(q, i))
           t == total[s][p] - order[i].remaining
<1>1. /\ s \in Sides /\ p \in Prices
      /\ r \in Seq(Ids) /\ Without(r, q, i)
      /\ t \in Quantities /\ SumsTo(r, Open, t)
  BY LeftBehind
<1>2. SetLevel(s, p, r, t)
  BY DEF RemoveFromLevel
<1> HIDE DEF r, t, q
<1>3. \A k \in DOMAIN r : r[k] # i
  BY <1>1 DEF Without
<1>4. TypeOK
  BY DEF BookInvariant
<1>5. SumsTo(r, Open', t)
  BY <1>1, <1>3, <1>4, SumsWithoutTheChanged
<1>6. \A u \in Sides, v \in Prices : u # s \/ v # p =>
        \A k \in DOMAIN queue[u][v] :
          order'[queue[u][v][k]].remaining = order[queue[u][v][k]].remaining
  BY <1>1, OthersElsewhere
<1>7. t \in Int
  BY <1>1, MaxQuantityAssumption DEF Quantities
<1> HIDE DEF s, p
<1>8. QED
  BY <1>1, <1>2, <1>5, <1>6, <1>7, SetLevelAddsUp
-----------------------------------------------------------------------------
\* What the operations of one order return.
LEMMA FillResult ==
  ASSUME NEW o \in Orders, NEW quantity \in Nat, quantity <= o.remaining,
         NEW price \in Int
  PROVE  /\ Fill(o, quantity, price) \in Orders
         /\ Fill(o, quantity, price).side = o.side
         /\ Fill(o, quantity, price).type = o.type
         /\ Fill(o, quantity, price).price = o.price
         /\ Fill(o, quantity, price).sequence = o.sequence
         /\ Fill(o, quantity, price).original = o.original
         /\ Fill(o, quantity, price).remaining = o.remaining - quantity
         /\ quantity # o.remaining => IsActive(Fill(o, quantity, price))
<1>1. o.remaining \in Nat /\ o.remaining <= MaxQuantity /\ o.notional \in Int
  BY MaxQuantityAssumption DEF Orders, Quantities
<1>2. o.notional + price * quantity \in Int
  BY <1>1
<1>3. o.remaining - quantity \in Quantities
  BY <1>1, MaxQuantityAssumption DEF Quantities
<1>4. QED
  BY <1>2, <1>3 DEF Fill, Orders, Statuses, IsActive

\* A replaced order keeps its side and its fills, and takes price, total and sequence.
LEMMA ReplaceResult ==
  ASSUME NEW o \in Orders, o.remaining <= o.original,
         NEW price \in Prices, NEW total_quantity \in Quantities, NEW sequence \in Nat,
         total_quantity >= FilledQuantity(o)
  PROVE  /\ Replace(o, price, total_quantity, sequence) \in Orders
         /\ Replace(o, price, total_quantity, sequence).side = o.side
         /\ Replace(o, price, total_quantity, sequence).type = o.type
         /\ Replace(o, price, total_quantity, sequence).price = price
         /\ Replace(o, price, total_quantity, sequence).sequence = sequence
         /\ Replace(o, price, total_quantity, sequence).original = total_quantity
         /\ Replace(o, price, total_quantity, sequence).remaining
              = total_quantity - FilledQuantity(o)
         /\ FilledQuantity(o) \in Nat
         /\ total_quantity # FilledQuantity(o) =>
              IsActive(Replace(o, price, total_quantity, sequence))
<1>1. /\ o.remaining \in Nat /\ o.original \in Nat /\ o.original <= MaxQuantity
      /\ total_quantity \in Nat /\ total_quantity <= MaxQuantity
  BY MaxQuantityAssumption DEF Orders, Quantities
<1>2. FilledQuantity(o) \in Nat /\ total_quantity - FilledQuantity(o) \in Quantities
  BY <1>1, MaxQuantityAssumption DEF FilledQuantity, Quantities
<1>3. QED
  BY <1>2 DEF Replace, Orders, Statuses, IsActive

\* A cancelled order keeps everything but its status.
LEMMA CancelledResult ==
  ASSUME NEW o \in Orders
  PROVE  /\ Cancelled(o) \in Orders
         /\ Cancelled(o).side = o.side /\ Cancelled(o).price = o.price
         /\ Cancelled(o).type = o.type
         /\ Cancelled(o).sequence = o.sequence
         /\ Cancelled(o).remaining = o.remaining /\ Cancelled(o).original = o.original
BY DEF Cancelled, Orders, Statuses
-----------------------------------------------------------------------------
(***************************************************************************)
(* One lemma per action: it preserves the book's invariant.                *)
(***************************************************************************)

\* A step that changes neither the book nor the orders.
LEMMA QuietStep ==
  ASSUME BookInvariant,
         UNCHANGED <<order, active, completed, level, levels, queue, total, trades,
                     nextSequence, taker, rejected>>,
         error' \in {"none", "overflow", "missing level", "null level"}
  PROVE  BookInvariant'
<1> USE DEF BookInvariant
<1>0. /\ active' = active /\ queue' = queue /\ level' = level /\ order' = order
      /\ QueuedAreLinked /\ LinkedAreQueued
  OBVIOUS
<1>1. TypeOK'
  BY DEF TypeOK
<1>2. OneMapPerId' /\ TakerInHand'
  BY DEF OneMapPerId, TakerInHand
<1>3. ActiveAreOpen'
  BY DEF ActiveAreOpen, IsActive
<1>4. QueuedAreLinked'
  <2> SUFFICES ASSUME NEW s \in Sides, NEW p \in Prices, NEW k \in DOMAIN queue'[s][p]
               PROVE  LET j == queue'[s][p][k] IN
                      j \in active' /\ level'[j] = p /\ order'[j].side = s
    BY DEF QueuedAreLinked
  <2>1. k \in DOMAIN queue[s][p] /\ queue'[s][p][k] = queue[s][p][k]
    BY <1>0
  <2>2. queue[s][p][k] \in active /\ level[queue[s][p][k]] = p /\ order[queue[s][p][k]].side = s
    BY <1>0, <2>1 DEF QueuedAreLinked
  <2>3. QED
    BY <1>0, <2>1, <2>2
<1>5. LinkedAreQueued'
  <2> HIDE DEF BookInvariant
  <2>1. QED
    BY <1>0 DEF LinkedAreQueued
<1>6. LevelsAreNonEmpty' /\ OldestFirst' /\ Uncrossed'
  BY DEF LevelsAreNonEmpty, OldestFirst, Uncrossed
<1>7. TotalsAddUp'
  <2>1. Open' = Open /\ queue' = queue /\ total' = total /\ TotalsAddUp
    BY DEF Open
  <2> HIDE DEF BookInvariant
  <2>2. QED
    BY <2>1 DEF TotalsAddUp
<1>8. QED
  BY <1>1, <1>2, <1>3, <1>4, <1>5, <1>6, <1>7

\* A refused submit burns its id at most, and only an id no other map holds.
LEMMA RejectSubmitStep ==
  ASSUME BookInvariant, NEW r \in OrderRequests, RejectSubmit(r)
  PROVE  BookInvariant'
<1> USE DEF BookInvariant
<1>1. rejected' \subseteq Ids
  BY DEF RejectSubmit, TypeOK, OrderRequests
<1>2. OneMapPerId'
  BY DEF RejectSubmit, OneMapPerId, HasUsedOrderId
<1>3. /\ error' = "none"
      /\ UNCHANGED <<order, active, completed, level, levels, queue, total, trades,
                     nextSequence, taker>>
  BY DEF RejectSubmit
<1>4. TypeOK'
  BY <1>1, <1>3 DEF TypeOK
<1>5. TakerInHand' /\ LevelsAreNonEmpty' /\ OldestFirst' /\ Uncrossed'
  BY <1>3 DEF TakerInHand, LevelsAreNonEmpty, OldestFirst, Uncrossed
<1>6. ActiveAreOpen'
  BY <1>3 DEF ActiveAreOpen, IsActive
<1>7. QueuedAreLinked'
  BY <1>3 DEF QueuedAreLinked
<1>8. LinkedAreQueued'
  BY <1>3 DEF LinkedAreQueued
<1>9. TotalsAddUp'
  BY <1>3 DEF TotalsAddUp, Open, SumsTo
<1>10. QED
  BY <1>2, <1>4, <1>5, <1>6, <1>7, <1>8, <1>9

\* A new order starts active, unlinked and youngest, in the taker's place.
LEMMA SubmitStep ==
  ASSUME BookInvariant, NEW r \in OrderRequests, Submit(r)
  PROVE  BookInvariant'
<1> USE DEF BookInvariant
<1> DEFINE i     == r.id
           price == IF r.type = "Limit" THEN r.price ELSE 0
           o     == ActivatedOrder(r.side, r.type, price, r.quantity, nextSequence)
<1>1. /\ i \in Ids /\ r.side \in Sides /\ r.type \in OrderTypes
      /\ r.quantity \in Quantities /\ r.quantity # 0
      /\ r.type = "Limit" => r.price \in Prices
      /\ i \notin active /\ i \notin completed /\ i \notin rejected
  BY DEF Submit, Acceptable, HasUsedOrderId, OrderRequests
<1>2. /\ order' = [order EXCEPT ![i] = o] /\ nextSequence' = nextSequence + 1
      /\ active' = active \cup {i} /\ taker = None /\ taker' = i /\ error' = "none"
      /\ UNCHANGED <<completed, level, levels, queue, total, trades, rejected>>
  BY DEF Submit, AddOrder, Idle
<1>3. /\ o \in Orders /\ o.sequence = nextSequence /\ o.remaining = o.original
      /\ o.remaining > 0 /\ IsActive(o) /\ o.type = r.type /\ o.price = price
      /\ nextSequence \in Nat
  <2>1. price \in Prices \cup {0}
    BY <1>1
  <2>2. r.quantity > 0
    BY <1>1, MaxQuantityAssumption DEF Quantities
  <2>3. nextSequence \in Nat
    BY DEF TypeOK
  <2> HIDE DEF price
  <2>4. o \in Orders
    BY <1>1, <2>1, <2>3 DEF ActivatedOrder, Orders, Statuses
  <2>5. QED
    BY <2>2, <2>3, <2>4 DEF ActivatedOrder, IsActive
<1>4. level[i] = None
  BY <1>1 DEF LinkedAreQueued
<1>5. /\ order'[i] = o
      /\ \A j \in Ids \ {i} : order'[j] = order[j]
  BY <1>1, <1>2 DEF TypeOK
<1> HIDE DEF o
<1>6. TypeOK'
  <2>1. order' \in [Ids -> Orders]
    BY <1>1, <1>2, <1>3 DEF TypeOK
  <2>2. active' \subseteq Ids /\ taker' \in Ids \cup {None}
    BY <1>1, <1>2 DEF TypeOK
  <2>3. nextSequence' \in Nat \ {0}
    BY <1>2, <1>3
  <2>4. QED
    BY <1>2, <2>1, <2>2, <2>3 DEF TypeOK
<1>7. OneMapPerId'
  BY <1>1, <1>2 DEF OneMapPerId
<1>8. TakerInHand'
  <2>1. \A j \in active' \ {i} : order'[j].sequence < nextSequence
    BY <1>2, <1>5 DEF ActiveAreOpen, TypeOK
  <2>2. QED
    BY <1>2, <1>3, <1>4, <1>5, <2>1 DEF TakerInHand
<1>9. ActiveAreOpen'
  <2> SUFFICES ASSUME NEW j \in active'
               PROVE  /\ order'[j].sequence < nextSequence'
                      /\ order'[j].remaining <= order'[j].original
                      /\ order'[j].remaining > 0 => IsActive(order'[j])
                      /\ order'[j].type = "Limit" => order'[j].price \in Prices
                      /\ j # taker' => order'[j].remaining > 0 /\ order'[j].type = "Limit"
    BY DEF ActiveAreOpen, IsActive
  <2>1. CASE j = i
    <3>1. o.sequence < nextSequence' /\ o.remaining <= o.original
      BY <1>2, <1>3 DEF Orders, Quantities
    <3>2. QED
      BY <1>1, <1>2, <1>3, <1>5, <2>1, <3>1
  <2>2. CASE j # i
    <3>1. j \in active /\ j \in Ids /\ order'[j] = order[j] /\ j # taker
      BY <1>2, <1>5, <2>2, NoneAssumption DEF TypeOK
    <3>2. order[j].sequence < nextSequence'
      BY <1>2, <1>3, <3>1, TypesOfParts DEF ActiveAreOpen
    <3>3. QED
      BY <3>1, <3>2 DEF ActiveAreOpen
  <2>3. QED
    BY <2>1, <2>2
<1>10. QueuedAreLinked' /\ LinkedAreQueued' /\ OldestFirst'
  <2>1. \A s \in Sides, p \in Prices : \A k \in DOMAIN queue[s][p] :
          queue[s][p][k] \in Ids \ {i}
    BY <1>1, TypesOfParts DEF QueuedAreLinked
  <2>2. QueuedAreLinked'
    BY <1>2, <1>5, <2>1 DEF QueuedAreLinked
  <2>3. LinkedAreQueued'
    BY <1>2, <1>4, <1>5 DEF LinkedAreQueued
  <2>4. OldestFirst'
    BY <1>2, <1>5, <2>1 DEF OldestFirst
  <2>5. QED
    BY <2>2, <2>3, <2>4
<1>11. LevelsAreNonEmpty' /\ Uncrossed'
  BY <1>2 DEF LevelsAreNonEmpty, Uncrossed
<1>12. TotalsAddUp'
  <2>1. order' \in [Ids -> Orders]
    BY <1>6 DEF TypeOK
  <2>2. QED
    BY <1>1, <1>2, <1>4, <1>5, <2>1, UntouchedAddsUp
<1>13. QED
  BY <1>6, <1>7, <1>8, <1>9, <1>10, <1>11, <1>12

\* A turn of the matching loop: both orders are filled by what the smaller has,
\* and a resting order that is used up leaves its list.
LEMMA MatchFrontStep ==
  ASSUME BookInvariant, MatchFront, UNCHANGED rejected
  PROVE  BookInvariant'
<1> USE DEF BookInvariant
<1> DEFINE far == Opposite(order[taker].side)
<1>1. PICK p \in levels[far] :
        LET maker    == Head(queue[far][p])
            price    == order[maker].price
            quantity == MatchQuantity(order[taker], order[maker])
            done     == order[maker].remaining = quantity
        IN
        /\ queue[far][p] # <<>>
        /\ order' = [order EXCEPT ![maker] = Fill(@, quantity, price),
                                  ![taker] = Fill(@, quantity, price)]
        /\ trades' = Append(trades,
             [buy   |-> IF far = "Sell" THEN taker ELSE maker,
              sell  |-> IF far = "Sell" THEN maker ELSE taker,
              price |-> price, quantity |-> quantity])
        /\ SetLevel(far, p, IF done THEN Tail(queue[far][p]) ELSE queue[far][p],
                    total[far][p] - quantity)
        /\ active' = IF done THEN active \ {maker} ELSE active
        /\ completed' = IF done THEN completed \cup {maker} ELSE completed
        /\ level' = IF done THEN [level EXCEPT ![maker] = None] ELSE level
  BY DEF MatchFront
<1> DEFINE maker    == Head(queue[far][p])
           price    == order[maker].price
           quantity == MatchQuantity(order[taker], order[maker])
           done     == order[maker].remaining = quantity
           q1       == IF done THEN Tail(queue[far][p]) ELSE queue[far][p]
<1>2. /\ taker \in active /\ taker \in Ids /\ level[taker] = None
      /\ taker # None /\ taker' = taker
      /\ order[taker].remaining > 0
      /\ far \in Sides /\ p \in Prices
      /\ nextSequence' = nextSequence /\ error' = error
  BY TypesOfParts DEF MatchFront, TakerInHand, TypeOK
<1>3. /\ maker \in active /\ maker \in Ids /\ maker # taker
      /\ level[maker] = p /\ order[maker].side = far /\ price = p
      /\ order[maker].remaining > 0
  <2>1. queue[far][p] \in Seq(Ids) /\ queue[far][p] # <<>>
    BY <1>1, <1>2, TypesOfParts
  <2>2. 1 \in DOMAIN queue[far][p] /\ maker = queue[far][p][1]
    BY <2>1, EmptySeq, LenProperties DEF Head
  <2>3. maker \in active /\ level[maker] = p /\ order[maker].side = far
    BY <1>2, <2>2 DEF QueuedAreLinked
  <2>4. maker # taker
    BY <1>2, <2>3, NoneAssumption, PricesAssumption
  <2>5. price = p
    <3>1. maker \in Ids /\ level[maker] # None
      <4>1. active \subseteq Ids
        BY DEF TypeOK
      <4>2. p # None
        BY <1>2, NoneAssumption, PricesAssumption
      <4>3. QED
        BY <2>3, <4>1, <4>2
    <3>2. QED
      BY <2>3, <3>1 DEF LinkedAreQueued
  <2>6. QED
    BY <2>3, <2>4, <2>5 DEF ActiveAreOpen, TypeOK
<1> DEFINE t1 == Fill(order[taker], quantity, price)
           m1 == Fill(order[maker], quantity, price)
<1>4. /\ order[taker] \in Orders /\ order[maker] \in Orders
      /\ order[taker].remaining \in Nat /\ order[maker].remaining \in Nat
      /\ order[taker].remaining <= MaxQuantity
      /\ price \in Int
  BY <1>2, <1>3, TypesOfParts
<1>5. /\ quantity \in Nat /\ quantity > 0
      /\ quantity <= order[taker].remaining /\ quantity <= order[maker].remaining
  <2> HIDE DEF maker
  <2>1. CASE order[taker].remaining <= order[maker].remaining
    BY <1>2, <1>3, <1>4, <2>1 DEF MatchQuantity
  <2>2. CASE ~(order[taker].remaining <= order[maker].remaining)
    BY <1>2, <1>3, <1>4, <2>2 DEF MatchQuantity
  <2>3. QED
    BY <2>1, <2>2
<1>6. /\ order' = [order EXCEPT ![maker] = m1, ![taker] = t1]
      /\ trades' = Append(trades,
           [buy   |-> IF far = "Sell" THEN taker ELSE maker,
            sell  |-> IF far = "Sell" THEN maker ELSE taker,
            price |-> price, quantity |-> quantity])
      /\ SetLevel(far, p, q1, total[far][p] - quantity)
      /\ active' = IF done THEN active \ {maker} ELSE active
      /\ completed' = IF done THEN completed \cup {maker} ELSE completed
      /\ level' = IF done THEN [level EXCEPT ![maker] = None] ELSE level
  BY <1>1, <1>3
<1>7. /\ t1 \in Orders /\ t1.side = order[taker].side /\ t1.type = order[taker].type
      /\ t1.price = order[taker].price /\ t1.sequence = order[taker].sequence
      /\ t1.original = order[taker].original
      /\ t1.remaining = order[taker].remaining - quantity
      /\ quantity # order[taker].remaining => IsActive(t1)
  BY <1>4, <1>5, FillResult
<1>8. /\ m1 \in Orders /\ m1.side = order[maker].side /\ m1.type = order[maker].type
      /\ m1.price = order[maker].price /\ m1.sequence = order[maker].sequence
      /\ m1.original = order[maker].original
      /\ m1.remaining = order[maker].remaining - quantity
      /\ quantity # order[maker].remaining => IsActive(m1)
  BY <1>4, <1>5, FillResult
<1>9. Distinct(queue[far][p]) /\ queue[far][p] \in Seq(Ids) /\ queue[far][p] # <<>>
  BY <1>1, <1>2, ListsAreDistinct, TypesOfParts
<1> HIDE DEF t1, m1, quantity, far
<1>10. /\ order'[taker] = t1 /\ order'[maker] = m1
       /\ \A j \in Ids \ {taker, maker} : order'[j] = order[j]
       /\ order' \in [Ids -> Orders]
  BY <1>2, <1>3, <1>6, <1>7, <1>8 DEF TypeOK
<1>11. \A j \in Ids : /\ order'[j].side = order[j].side
                      /\ order'[j].type = order[j].type
                      /\ order'[j].price = order[j].price
                      /\ order'[j].sequence = order[j].sequence
                      /\ order'[j].original = order[j].original
                      /\ order'[j].remaining <= order[j].remaining
  <2>1. t1.remaining <= order[taker].remaining /\ m1.remaining <= order[maker].remaining
    BY <1>4, <1>5, <1>7, <1>8
  <2>2. \A j \in Ids : order[j].remaining <= order[j].remaining
    BY TypesOfParts
  <2>3. QED
    BY <1>7, <1>8, <1>10, <2>1, <2>2
<1>12. q1 \in Seq(Ids) /\ (done => Without(q1, queue[far][p], maker))
  BY <1>9, TailIsWithout
<1> HIDE DEF q1, maker
<1>13. /\ queue' \in [Sides -> [Prices -> Seq(Ids)]]
       /\ total' \in [Sides -> [Prices -> Int]]
       /\ levels' \in [Sides -> SUBSET Prices]
       /\ \A s \in Sides, u \in Prices :
            queue'[s][u] = IF s = far /\ u = p THEN q1 ELSE queue[s][u]
       /\ \A s \in Sides :
            levels'[s] = IF s = far THEN (IF q1 = <<>> THEN levels[s] \ {p}
                                                       ELSE levels[s] \cup {p})
                                    ELSE levels[s]
       /\ LevelsAreNonEmpty'
  <2>1. total[far][p] - quantity \in Int
    BY <1>2, <1>5, TypesOfParts
  <2>2. QED
    BY <1>2, <1>6, <1>12, <2>1, SetLevelResult
<1>14. TypeOK'
  <2>1. trades' \in Seq(Trades)
    <3>1. /\ quantity \in 1 .. MaxQuantity /\ price \in Prices
      BY <1>2, <1>3, <1>4, <1>5, MaxQuantityAssumption
    <3>2. [buy   |-> IF far = "Sell" THEN taker ELSE maker,
           sell  |-> IF far = "Sell" THEN maker ELSE taker,
           price |-> price, quantity |-> quantity] \in Trades
      BY <1>2, <1>3, <3>1 DEF Trades
    <3>3. QED
      BY <1>6, <3>2, AppendProperties DEF TypeOK
  <2>2. level' \in [Ids -> Prices \cup {None}]
    BY <1>3, <1>6 DEF TypeOK
  <2>3. active' \subseteq Ids /\ completed' \subseteq Ids
    BY <1>3, <1>6 DEF TypeOK
  <2>4. QED
    BY <1>2, <1>10, <1>13, <2>1, <2>2, <2>3 DEF TypeOK
<1>15. OneMapPerId'
  BY <1>3, <1>6 DEF OneMapPerId
<1>16. TakerInHand'
  <2>1. taker \in active' /\ level'[taker] = None
    BY <1>2, <1>3, <1>6 DEF TypeOK
  <2>2. \A j \in active' \ {taker} : order'[j].sequence < order'[taker].sequence
    BY <1>2, <1>6, <1>11 DEF TakerInHand, TypeOK
  <2>3. QED
    BY <1>2, <2>1, <2>2 DEF TakerInHand
<1>17. ActiveAreOpen'
  <2> SUFFICES ASSUME NEW j \in active'
               PROVE  /\ order'[j].sequence < nextSequence'
                      /\ order'[j].remaining <= order'[j].original
                      /\ order'[j].remaining > 0 => IsActive(order'[j])
                      /\ order'[j].type = "Limit" => order'[j].price \in Prices
                      /\ j # taker' => order'[j].remaining > 0 /\ order'[j].type = "Limit"
    BY DEF ActiveAreOpen, IsActive
  <2>1. j \in active /\ j \in Ids
    BY <1>6 DEF TypeOK
  <2>2. /\ order'[j].sequence < nextSequence'
        /\ order'[j].type = "Limit" => order'[j].price \in Prices
        /\ j # taker' => order'[j].type = "Limit"
    BY <1>2, <1>11, <2>1 DEF ActiveAreOpen
  <2>3. order'[j].remaining <= order'[j].original
    <3>1. order'[j] \in Orders
      BY <1>10, <2>1
    <3>2. order'[j].remaining \in Quantities
      BY <3>1 DEF Orders
    <3>3. order'[j].remaining \in Int
      BY <3>2, MaxQuantityAssumption DEF Quantities
    <3>4. /\ order[j].remaining \in Int /\ order[j].original \in Int
          /\ order[j].remaining <= order[j].original
      BY <2>1, TypesOfParts DEF ActiveAreOpen
    <3>5. order'[j].remaining <= order[j].remaining /\ order'[j].original = order[j].original
      BY <1>11, <2>1
    <3>6. QED
      BY <3>3, <3>4, <3>5
  <2>4. order'[j].remaining > 0 => IsActive(order'[j])
    <3>1. CASE j = taker
      BY <1>4, <1>5, <1>7, <1>10, <3>1
    <3>2. CASE j = maker
      BY <1>4, <1>5, <1>8, <1>10, <3>2
    <3>3. CASE j # taker /\ j # maker
      BY <1>10, <2>1, <3>3 DEF ActiveAreOpen
    <3>4. QED
      BY <3>1, <3>2, <3>3
  <2>5. j # taker' => order'[j].remaining > 0
    <3>1. CASE j = maker
      <4>1. ~done
        BY <1>6, <3>1
      <4>2. QED
        BY <1>4, <1>5, <1>8, <1>10, <3>1, <4>1
    <3>2. CASE j # taker /\ j # maker
      BY <1>10, <2>1, <3>2 DEF ActiveAreOpen
    <3>3. QED
      BY <1>2, <3>1, <3>2
  <2>6. QED
    BY <2>2, <2>3, <2>4, <2>5
<1>18. QueuedAreLinked' /\ LinkedAreQueued' /\ OldestFirst' /\ Uncrossed'
  <2>1. \A s \in Sides : levels'[s] \subseteq levels[s]
    BY <1>13
  <2>2. CASE done
    <3>1. \A s \in Sides, u \in Prices : Without(queue'[s][u], queue[s][u], maker)
      <4>1. \A s \in Sides, u \in Prices :
              s # far \/ u # p => Without(queue[s][u], queue[s][u], maker)
        BY <1>3, WithoutUnlinked
      <4>2. QED
        BY <1>12, <1>13, <2>2, <4>1
    <3>2. /\ level' = [level EXCEPT ![maker] = None]
          /\ active \ {maker} \subseteq active'
      BY <1>6, <2>2
    <3>3. QED
      BY <1>3, <1>11, <2>1, <3>1, <3>2, UnlinkingKeepsTheRest
  <2>3. CASE ~done
    <3>1. /\ \A s \in Sides, u \in Prices : queue'[s][u] = queue[s][u]
          /\ level' = level /\ active' = active
      BY <1>2, <1>6, <1>13, <2>3 DEF q1
    <3>2. QueuedAreLinked'
      <4> SUFFICES ASSUME NEW s \in Sides, NEW u \in Prices, NEW k \in DOMAIN queue'[s][u]
                   PROVE  LET j == queue'[s][u][k] IN
                          j \in active' /\ level'[j] = u /\ order'[j].side = s
        BY DEF QueuedAreLinked
      <4>1. k \in DOMAIN queue[s][u] /\ queue'[s][u][k] = queue[s][u][k]
        BY <3>1
      <4>2. /\ queue[s][u][k] \in active /\ level[queue[s][u][k]] = u
            /\ order[queue[s][u][k]].side = s /\ queue[s][u][k] \in Ids
        BY <4>1, TypesOfParts DEF QueuedAreLinked
      <4>3. QED
        BY <1>11, <3>1, <4>1, <4>2
    <3>3. LinkedAreQueued'
      <4> SUFFICES ASSUME NEW j \in Ids, level'[j] # None
                   PROVE  /\ j \in active'
                          /\ order'[j].price = level'[j]
                          /\ \E k \in DOMAIN queue'[order'[j].side][level'[j]] :
                               queue'[order'[j].side][level'[j]][k] = j
        BY DEF LinkedAreQueued
      <4>1. level'[j] = level[j]
        BY <3>1
      <4>2. order[j].side \in Sides /\ level[j] \in Prices
        BY <4>1, IndexOfLinked
      <4>3. order'[j].side = order[j].side /\ order'[j].price = order[j].price
        BY <1>11
      <4>4. queue'[order[j].side][level[j]] = queue[order[j].side][level[j]]
        BY <3>1, <4>2
      <4>5. QED
        BY <3>1, <4>1, <4>3, <4>4 DEF LinkedAreQueued
    <3>4. OldestFirst'
      BY <1>11, <3>1, TypesOfParts DEF OldestFirst
    <3>5. Uncrossed'
      BY <2>1 DEF Uncrossed, Sides
    <3>6. QED
      BY <3>2, <3>3, <3>4, <3>5
  <2>4. QED
    BY <2>2, <2>3
<1>19. TotalsAddUp'
  <2> DEFINE q == queue[far][p]
             t == total[far][p]
  <2>1. /\ q \in Seq(Ids) /\ q # <<>> /\ Distinct(q) /\ t \in Int
        /\ \A j \in DOMAIN q : q[j] \in Ids \ {taker}
    <3>1. \A j \in DOMAIN q : q[j] \in Ids /\ level[q[j]] = p
      BY <1>2, <1>9, TypesOfParts DEF QueuedAreLinked
    <3>2. p # None
      BY <1>2, NoneAssumption, PricesAssumption
    <3>3. QED
      BY <1>2, <1>9, <3>1, <3>2, TypesOfParts
  <2>2. /\ 1 \in DOMAIN q /\ q[1] = maker
        /\ \A j \in DOMAIN q : j # 1 => q[j] \in Ids \ {taker, maker}
    <3>1. 1 \in DOMAIN q /\ q[1] = maker
      BY <1>9, EmptySeq, LenProperties DEF maker, Head
    <3>2. QED
      BY <2>1, <3>1 DEF Distinct
  <2>3. SumsTo(q, Open, t)
    BY <1>2 DEF TotalsAddUp
  <2>4. /\ Open \in [Ids -> Quantities] /\ Open' \in [Ids -> Quantities]
        /\ \A j \in Ids : Open[j] = order[j].remaining /\ Open'[j] = order'[j].remaining
    BY <1>10, OpenTypes
  <2>5. /\ Open[maker] = order[maker].remaining
        /\ Open'[maker] = order[maker].remaining - quantity
        /\ Open'[maker] <= Open[maker]
        /\ Open[maker] - Open'[maker] = quantity
    <3>1. Open[maker] = order[maker].remaining /\ Open'[maker] = order[maker].remaining - quantity
      BY <1>3, <1>8, <1>10, <2>4
    <3>2. QED
      BY <1>4, <1>5, <3>1
  <2>6. \A j \in DOMAIN q : j # 1 => Open'[q[j]] = Open[q[j]]
    BY <1>10, <2>2, <2>4
  <2> HIDE DEF q, t
  <2>7. SumsTo(q, Open', t - quantity)
    <3> HIDE DEF BookInvariant
    <3>1. SumsTo(q, Open', t - (Open[q[1]] - Open'[q[1]]))
      BY <2>1, <2>2, <2>3, <2>4, <2>5, <2>6, SumsWithOneLess
    <3>2. QED
      BY <2>2, <2>5, <3>1
  <2>8. SumsTo(q1, Open', t - quantity)
    <3>1. CASE done
      <4>1. Open'[maker] = 0 /\ t - quantity \in Int /\ (t - quantity) - 0 = t - quantity
        BY <1>4, <1>5, <2>1, <2>5, <3>1 DEF t
      <4>2. q1 = Tail(q)
        BY <3>1 DEF q1, q
      <4>3. /\ q1 \in Seq(Ids) /\ Len(q1) = Len(q) - 1
            /\ \A j \in 1 .. Len(q) - 1 : q1[j] = IF j < 1 THEN q[j] ELSE q[j + 1]
        BY <2>1, <4>2, HeadTailProperties, EmptySeq, LenProperties
      <4> HIDE DEF BookInvariant
      <4>4. SumsTo(q1, Open', (t - quantity) - Open'[q[1]])
        BY <2>1, <2>2, <2>4, <2>7, <4>3, SumsWithoutOne
      <4>5. QED
        BY <2>2, <4>1, <4>4
    <3>2. CASE ~done
      BY <2>7, <3>2 DEF q1, q
    <3>3. QED
      BY <3>1, <3>2
  <2>9. \A u \in Sides, v \in Prices : u # far \/ v # p =>
          \A k \in DOMAIN queue[u][v] :
            order'[queue[u][v][k]].remaining = order[queue[u][v][k]].remaining
    <3> SUFFICES ASSUME NEW u \in Sides, NEW v \in Prices, u # far \/ v # p,
                        NEW k \in DOMAIN queue[u][v]
                 PROVE  order'[queue[u][v][k]] = order[queue[u][v][k]]
      OBVIOUS
    <3>1. /\ queue[u][v][k] \in Ids /\ level[queue[u][v][k]] = v
          /\ order[queue[u][v][k]].side = u
      BY TypesOfParts DEF QueuedAreLinked
    <3>2. queue[u][v][k] # maker /\ queue[u][v][k] # taker
      BY <1>2, <1>3, <3>1, NoneAssumption, PricesAssumption
    <3>3. QED
      BY <1>10, <3>1, <3>2
  <2>10. SetLevel(far, p, q1, t - quantity) /\ t - quantity \in Int
    BY <1>5, <1>6, <2>1 DEF t
  <2> HIDE DEF BookInvariant
  <2>11. QED
    BY <1>2, <1>10, <1>12, <2>8, <2>9, <2>10, SetLevelAddsUp
<1>20. QED
  BY <1>13, <1>14, <1>15, <1>16, <1>17, <1>18, <1>19

\* An active order becomes o and leaves the book for the completed orders: the
\* end of a cancel, of a matching loop, and of a modification to what is executed.
LEMMA LeavingStep ==
  ASSUME BookInvariant, NEW i \in active, NEW o \in Orders,
         taker \in {None, i},
         order' = [order EXCEPT ![i] = o],
         active' = active \ {i}, completed' = completed \cup {i},
         level' = [level EXCEPT ![i] = None],
         queue' \in [Sides -> [Prices -> Seq(Ids)]],
         total' \in [Sides -> [Prices -> Int]],
         levels' \in [Sides -> SUBSET Prices],
         LevelsAreNonEmpty', TotalsAddUp',
         \A s \in Sides : levels'[s] \subseteq levels[s],
         \A s \in Sides, p \in Prices : Without(queue'[s][p], queue[s][p], i),
         nextSequence' \in Nat \ {0},
         \A k \in Nat : k < nextSequence => k < nextSequence',
         taker' = None,
         error' \in {"none", "overflow", "missing level", "null level"},
         UNCHANGED <<trades, rejected>>
  PROVE  BookInvariant'
<1> USE DEF BookInvariant
<1>1. /\ i \in Ids /\ nextSequence \in Nat \ {0}
      /\ order' \in [Ids -> Orders]
      /\ \A j \in Ids \ {i} : order'[j] = order[j]
  BY DEF TypeOK
<1>2. TypeOK'
  <2>1. active' \subseteq Ids /\ completed' \subseteq Ids /\ rejected' \subseteq Ids
    BY <1>1 DEF TypeOK
  <2>2. level' \in [Ids -> Prices \cup {None}] /\ taker' \in Ids \cup {None}
    BY <1>1 DEF TypeOK
  <2>3. nextSequence' \in Nat \ {0} /\ trades' \in Seq(Trades)
    BY DEF TypeOK
  <2>4. QED
    BY <1>1, <2>1, <2>2, <2>3 DEF TypeOK
<1>3. OneMapPerId'
  BY DEF OneMapPerId
<1>4. TakerInHand'
  BY DEF TakerInHand
<1>5. ActiveAreOpen'
  <2> SUFFICES ASSUME NEW j \in active'
               PROVE  /\ order'[j].sequence < nextSequence'
                      /\ order'[j].remaining <= order'[j].original
                      /\ order'[j].remaining > 0 => IsActive(order'[j])
                      /\ order'[j].type = "Limit" => order'[j].price \in Prices
                      /\ j # taker' => order'[j].remaining > 0 /\ order'[j].type = "Limit"
    BY DEF ActiveAreOpen, IsActive
  <2>1. j \in active /\ j \in Ids /\ j # taker /\ order'[j] = order[j]
    BY <1>1, NoneAssumption DEF TypeOK
  <2>2. order[j].sequence < nextSequence /\ order[j].sequence \in Nat
    BY <2>1, TypesOfParts DEF ActiveAreOpen
  <2>3. order[j].sequence < nextSequence'
    BY <1>1, <2>2
  <2>4. QED
    BY <2>1, <2>3 DEF ActiveAreOpen
<1>6. QueuedAreLinked' /\ LinkedAreQueued' /\ OldestFirst' /\ Uncrossed'
  BY <1>1, UnlinkingKeepsTheRest
<1>7. QED
  BY <1>2, <1>3, <1>4, <1>5, <1>6

\* The book's lists do not hold an order that is in no level.
LEMMA InNoList ==
  ASSUME BookInvariant, NEW i \in Ids, level[i] = None
  PROVE  \A s \in Sides, p \in Prices : Without(queue[s][p], queue[s][p], i)
<1>1. \A s \in Sides, p \in Prices : level[i] # p
  BY NoneAssumption, PricesAssumption
<1>2. QED
  BY <1>1, WithoutUnlinked

\* Orders in no list may change without disturbing the lists.
LEMMA UntouchedLists ==
  ASSUME BookInvariant, NEW i \in Ids, level[i] = None,
         UNCHANGED <<level, levels, queue, total>>
  PROVE  /\ level' = [level EXCEPT ![i] = None]
         /\ queue' \in [Sides -> [Prices -> Seq(Ids)]]
         /\ total' \in [Sides -> [Prices -> Int]]
         /\ levels' \in [Sides -> SUBSET Prices]
         /\ LevelsAreNonEmpty'
         /\ \A s \in Sides : levels'[s] \subseteq levels[s]
         /\ \A s \in Sides, p \in Prices : Without(queue'[s][p], queue[s][p], i)
<1> USE DEF BookInvariant
<1>1. LevelsAreNonEmpty'
  BY DEF LevelsAreNonEmpty
<1>2. QED
  BY <1>1, InNoList DEF TypeOK

\* A taker that is used up leaves the active map.
LEMMA CompleteTakerStep ==
  ASSUME BookInvariant, CompleteTaker, UNCHANGED rejected
  PROVE  BookInvariant'
<1>1. taker # None /\ taker \in Ids /\ taker \in active /\ level[taker] = None
  BY DEF CompleteTaker, MatchingOver, BookInvariant, TakerInHand, TypeOK
<1>2. /\ active' = active \ {taker} /\ completed' = completed \cup {taker}
      /\ level' = [level EXCEPT ![taker] = None] /\ taker' = None
      /\ UNCHANGED <<order, levels, queue, total, trades, nextSequence, error>>
  BY DEF CompleteTaker, Complete
<1>3. level' = level /\ order' = [order EXCEPT ![taker] = order[taker]]
  BY <1>1, <1>2 DEF BookInvariant, TypeOK
<1>4. order[taker] \in Orders /\ error' \in {"none", "overflow", "missing level", "null level"}
  BY <1>1, <1>2 DEF BookInvariant, TypeOK
<1>5. /\ queue' \in [Sides -> [Prices -> Seq(Ids)]]
      /\ total' \in [Sides -> [Prices -> Int]]
      /\ levels' \in [Sides -> SUBSET Prices]
      /\ LevelsAreNonEmpty'
      /\ \A s \in Sides : levels'[s] \subseteq levels[s]
      /\ \A s \in Sides, p \in Prices : Without(queue'[s][p], queue[s][p], taker)
  BY <1>1, <1>2, <1>3, UntouchedLists
<1>6. /\ nextSequence' \in Nat \ {0}
      /\ \A k \in Nat : k < nextSequence => k < nextSequence'
  BY <1>2 DEF BookInvariant, TypeOK
<1>7. TotalsAddUp'
  <2>1. order' \in [Ids -> Orders]
    BY <1>2 DEF BookInvariant, TypeOK
  <2>2. QED
    BY <1>1, <1>2, <2>1, UntouchedAddsUp
<1>8. QED
  BY <1>1, <1>2, <1>3, <1>4, <1>5, <1>6, <1>7, LeavingStep

\* What is left of a market order leaves the active map, cancelled.
LEMMA CancelRemainderStep ==
  ASSUME BookInvariant, CancelRemainder, UNCHANGED rejected
  PROVE  BookInvariant'
<1>1. taker # None /\ taker \in Ids /\ taker \in active /\ level[taker] = None
  BY DEF CancelRemainder, MatchingOver, BookInvariant, TakerInHand, TypeOK
<1>2. /\ order' = [order EXCEPT ![taker] = Cancelled(order[taker])]
      /\ active' = active \ {taker} /\ completed' = completed \cup {taker}
      /\ level' = [level EXCEPT ![taker] = None] /\ taker' = None
      /\ UNCHANGED <<levels, queue, total, trades, nextSequence, error>>
  BY DEF CancelRemainder, Complete
<1>3. level' = level
  BY <1>1, <1>2 DEF BookInvariant, TypeOK
<1>4. /\ Cancelled(order[taker]) \in Orders
      /\ error' \in {"none", "overflow", "missing level", "null level"}
  BY <1>1, <1>2, CancelledResult DEF BookInvariant, TypeOK
<1>5. /\ queue' \in [Sides -> [Prices -> Seq(Ids)]]
      /\ total' \in [Sides -> [Prices -> Int]]
      /\ levels' \in [Sides -> SUBSET Prices]
      /\ LevelsAreNonEmpty'
      /\ \A s \in Sides : levels'[s] \subseteq levels[s]
      /\ \A s \in Sides, p \in Prices : Without(queue'[s][p], queue[s][p], taker)
  BY <1>1, <1>2, <1>3, UntouchedLists
<1>6. /\ nextSequence' \in Nat \ {0}
      /\ \A k \in Nat : k < nextSequence => k < nextSequence'
  BY <1>2 DEF BookInvariant, TypeOK
<1>7. TotalsAddUp'
  <2>1. /\ order' \in [Ids -> Orders]
        /\ \A j \in Ids \ {taker} : order'[j] = order[j]
    BY <1>1, <1>2, <1>4 DEF BookInvariant, TypeOK
  <2>2. QED
    BY <1>1, <1>2, <2>1, UntouchedAddsUp
<1>8. QED
  BY <1>1, <1>2, <1>4, <1>5, <1>6, <1>7, LeavingStep

\* A cancelled order leaves its list and the active map.
LEMMA CancelOrderStep ==
  ASSUME BookInvariant, NEW i \in Ids, CancelOrder(i), UNCHANGED rejected
  PROVE  BookInvariant'
<1>1. /\ i \in active /\ level[i] # None /\ RemoveFromLevel(i)
      /\ order' = [order EXCEPT ![i] = Cancelled(order[i])]
      /\ active' = active \ {i} /\ completed' = completed \cup {i}
      /\ level' = [level EXCEPT ![i] = None]
      /\ taker = None /\ taker' = None /\ error' = "none"
      /\ UNCHANGED <<trades, nextSequence>>
  BY DEF CancelOrder, Complete, Idle
<1>2. Cancelled(order[i]) \in Orders
  BY CancelledResult DEF BookInvariant, TypeOK
<1>3. /\ queue' \in [Sides -> [Prices -> Seq(Ids)]]
      /\ total' \in [Sides -> [Prices -> Int]]
      /\ levels' \in [Sides -> SUBSET Prices]
      /\ LevelsAreNonEmpty'
      /\ \A s \in Sides : levels'[s] \subseteq levels[s]
      /\ \A s \in Sides, p \in Prices : Without(queue'[s][p], queue[s][p], i)
  BY <1>1, RemoveFromLevelUnlinks
<1>4. /\ nextSequence' \in Nat \ {0}
      /\ \A k \in Nat : k < nextSequence => k < nextSequence'
  BY <1>1 DEF BookInvariant, TypeOK
<1>5. TotalsAddUp'
  <2>1. /\ order' \in [Ids -> Orders]
        /\ \A j \in Ids \ {i} : order'[j] = order[j]
    BY <1>1, <1>2 DEF BookInvariant, TypeOK
  <2>2. QED
    BY <1>1, <2>1, RemoveFromLevelAddsUp
<1>6. QED
  BY <1>1, <1>2, <1>3, <1>4, <1>5, LeavingStep

\* An order shrunk to what it has executed leaves its list and the active map.
LEMMA ShrinkToExecutedStep ==
  ASSUME BookInvariant, NEW i \in Ids, NEW price, NEW quantity \in Quantities,
         ShrinkToExecuted(i, price, quantity), UNCHANGED rejected
  PROVE  BookInvariant'
<1> DEFINE o == Replace(order[i], price, quantity, order[i].sequence)
<1>1. /\ i \in active /\ level[i] # None /\ RemoveFromLevel(i)
      /\ price = order[i].price /\ quantity >= FilledQuantity(order[i])
      /\ order' = [order EXCEPT ![i] = o]
      /\ active' = active \ {i} /\ completed' = completed \cup {i}
      /\ level' = [level EXCEPT ![i] = None]
      /\ taker = None /\ taker' = None /\ error' = "none"
      /\ UNCHANGED <<trades, nextSequence>>
  BY DEF ShrinkToExecuted, Replaceable, CanReplace, Complete, Idle
<1>2. o \in Orders
  <2>1. /\ order[i] \in Orders /\ order[i].sequence \in Nat
        /\ order[i].remaining <= order[i].original
    BY <1>1, TypesOfParts DEF BookInvariant, ActiveAreOpen
  <2>2. price \in Prices
    BY <1>1, IndexOfLinked
  <2>3. QED
    BY <1>1, <2>1, <2>2, ReplaceResult
<1> HIDE DEF o
<1>3. /\ queue' \in [Sides -> [Prices -> Seq(Ids)]]
      /\ total' \in [Sides -> [Prices -> Int]]
      /\ levels' \in [Sides -> SUBSET Prices]
      /\ LevelsAreNonEmpty'
      /\ \A s \in Sides : levels'[s] \subseteq levels[s]
      /\ \A s \in Sides, p \in Prices : Without(queue'[s][p], queue[s][p], i)
  BY <1>1, RemoveFromLevelUnlinks
<1>4. /\ nextSequence' \in Nat \ {0}
      /\ \A k \in Nat : k < nextSequence => k < nextSequence'
  BY <1>1 DEF BookInvariant, TypeOK
<1>5. TotalsAddUp'
  <2>1. /\ order' \in [Ids -> Orders]
        /\ \A j \in Ids \ {i} : order'[j] = order[j]
    BY <1>1, <1>2 DEF BookInvariant, TypeOK
  <2>2. QED
    BY <1>1, <2>1, RemoveFromLevelAddsUp
<1>6. QED
  BY <1>1, <1>2, <1>3, <1>4, <1>5, LeavingStep

\* An active order that becomes o, and stays, is still open.
LEMMA StayingIsOpen ==
  ASSUME BookInvariant, NEW i \in active, NEW o \in Orders,
         taker \in {None, i}, taker' \in {None, i},
         order' = [order EXCEPT ![i] = o], active' = active,
         \A k \in Nat : k < nextSequence => k < nextSequence',
         o.sequence < nextSequence', IsActive(o), o.type = "Limit", o.price \in Prices,
         o.remaining > 0, o.remaining <= o.original
  PROVE  /\ ActiveAreOpen'
         /\ order' \in [Ids -> Orders]
         /\ order'[i] = o /\ \A j \in Ids \ {i} : order'[j] = order[j]
<1> USE DEF BookInvariant
<1>1. /\ i \in Ids /\ order' \in [Ids -> Orders]
      /\ order'[i] = o /\ \A j \in Ids \ {i} : order'[j] = order[j]
  BY DEF TypeOK
<1>2. ASSUME NEW j \in active'
      PROVE  /\ order'[j].sequence < nextSequence'
             /\ order'[j].remaining <= order'[j].original
             /\ order'[j].remaining > 0 => IsActive(order'[j])
             /\ order'[j].type = "Limit" => order'[j].price \in Prices
             /\ j # taker' => order'[j].remaining > 0 /\ order'[j].type = "Limit"
  <2>1. CASE j = i
    BY <1>1, <2>1
  <2>2. CASE j # i
    <3>01. j \in active /\ active \subseteq Ids
      BY DEF TypeOK
    <3>02. j # taker
      BY <2>2, <3>01, NoneAssumption
    <3>1. j \in active /\ j \in Ids /\ j # taker /\ order'[j] = order[j]
      BY <1>1, <2>2, <3>01, <3>02
    <3>2. order[j].sequence < nextSequence /\ order[j].sequence \in Nat
      BY <3>1, TypesOfParts DEF ActiveAreOpen
    <3>3. order[j].sequence < nextSequence'
      BY <3>2
    <3>4. QED
      BY <3>1, <3>3 DEF ActiveAreOpen
  <2>3. QED
    BY <2>1, <2>2
<1>3. ActiveAreOpen'
  BY <1>2 DEF ActiveAreOpen, IsActive
<1>4. QED
  BY <1>1, <1>3

\* When the loop is over, what is left of a limit order crosses no resting price.
LEMMA RemainderDoesNotCross ==
  ASSUME BookInvariant, MatchingOver, order[taker].remaining > 0,
         order[taker].type = "Limit"
  PROVE  /\ taker \in active /\ taker \in Ids /\ level[taker] = None
         /\ order[taker] \in Orders /\ order[taker].side \in Sides
         /\ order[taker].price \in Prices
         /\ order[taker].side = "Buy" => \A u \in levels["Sell"] : order[taker].price < u
         /\ order[taker].side = "Sell" => \A u \in levels["Buy"] : u < order[taker].price
<1> USE DEF BookInvariant
<1> DEFINE far == Opposite(order[taker].side)
<1>1. /\ taker \in active /\ taker \in Ids /\ level[taker] = None
      /\ order[taker] \in Orders /\ order[taker].side \in Sides
  BY TypesOfParts DEF MatchingOver, TakerInHand, TypeOK
<1>2. order[taker].price \in Prices
  BY <1>1 DEF ActiveAreOpen
<1>3. \/ levels[far] = {}
      \/ \E p \in levels[far] : IsBest(far, p) /\ ~Reaches(order[taker], p)
  BY <1>1, TypesOfParts DEF MatchingOver
<1>4. \A s \in Sides : \A u \in levels[s] : u \in Int
  <2>1. \A s \in Sides : levels[s] \subseteq Prices
    BY DEF TypeOK
  <2>2. Prices \subseteq Int
    BY PricesAssumption
  <2>3. QED
    BY <2>1, <2>2
<1>5. order[taker].price \in Int
  BY <1>1, TypesOfParts
<1>6. CASE order[taker].side = "Buy"
  <2>1. far = "Sell" /\ far \in Sides
    BY <1>6 DEF Opposite, Sides
  <2>2. ASSUME NEW u \in levels["Sell"]
        PROVE  order[taker].price < u
    <3>1. PICK p \in levels["Sell"] : IsBest("Sell", p) /\ ~Reaches(order[taker], p)
      BY <1>3, <2>1
    <3>2. ~(p <= order[taker].price)
      BY <1>6, <3>1 DEF Reaches
    <3>3. u = p \/ p < u
      BY <3>1 DEF IsBest, Better
    <3>4. p \in Int /\ u \in Int
      BY <1>4, <2>1
    <3>5. QED
      BY <1>5, <3>2, <3>3, <3>4
  <2>3. QED
    BY <1>1, <1>2, <1>6, <2>2
<1>7. CASE order[taker].side = "Sell"
  <2>1. far = "Buy" /\ far \in Sides
    BY <1>7 DEF Opposite, Sides
  <2>2. ASSUME NEW u \in levels["Buy"]
        PROVE  u < order[taker].price
    <3>1. PICK p \in levels["Buy"] : IsBest("Buy", p) /\ ~Reaches(order[taker], p)
      BY <1>3, <2>1
    <3>2. ~(p >= order[taker].price)
      BY <1>7, <3>1 DEF Reaches
    <3>3. u = p \/ p > u
      BY <3>1 DEF IsBest, Better
    <3>4. p \in Int /\ u \in Int
      BY <1>4, <2>1
    <3>5. QED
      BY <1>5, <3>2, <3>3, <3>4
  <2>3. QED
    BY <1>1, <1>2, <1>7, <2>2
<1>8. QED
  BY <1>1, <1>6, <1>7 DEF Sides

\* The remainder of a limit order joins the back of a level it does not cross.
LEMMA RestStep ==
  ASSUME BookInvariant, Rest, UNCHANGED rejected
  PROVE  BookInvariant'
<1> USE DEF BookInvariant
<1> DEFINE s == order[taker].side
           p == order[taker].price
           r == PushBack(queue[s][p], taker)
           t == total[s][p] + order[taker].remaining
<1>1. /\ MatchingOver /\ order[taker].remaining > 0 /\ order[taker].type = "Limit"
      /\ SetLevel(s, p, r, t)
      /\ level' = [level EXCEPT ![taker] = p] /\ taker # None /\ taker' = None
      /\ UNCHANGED <<order, active, completed, trades, nextSequence, error>>
  BY DEF Rest, MatchingOver
<1>2. /\ taker \in active /\ taker \in Ids /\ level[taker] = None
      /\ order[taker] \in Orders /\ s \in Sides /\ p \in Prices
      /\ s = "Buy" => \A u \in levels["Sell"] : p < u
      /\ s = "Sell" => \A u \in levels["Buy"] : u < p
  BY <1>1, RemainderDoesNotCross
<1>3. queue[s][p] \in Seq(Ids) /\ t \in Int
  BY <1>2, TypesOfParts
<1>4. r = Append(queue[s][p], taker)
  BY DEF PushBack
<1>5. r \in Seq(Ids) /\ r # <<>>
  BY <1>2, <1>3, <1>4, AppendProperties, EmptySeq
<1>6. queue' = [queue EXCEPT ![s][p] = r]
  BY <1>1 DEF SetLevel
<1> HIDE DEF r, t
<1>7. /\ queue' \in [Sides -> [Prices -> Seq(Ids)]]
      /\ total' \in [Sides -> [Prices -> Int]]
      /\ levels' \in [Sides -> SUBSET Prices]
      /\ \A u \in Sides : levels'[u] = IF u = s THEN levels[u] \cup {p} ELSE levels[u]
      /\ LevelsAreNonEmpty'
  <2>1. SetLevel(s, p, r, t)
    BY <1>1
  <2>2. s \in Sides /\ p \in Prices /\ r \in Seq(Ids) /\ t \in Int
    BY <1>2, <1>3, <1>5
  <2> HIDE DEF BookInvariant, s, p
  <2>3. /\ queue' \in [Sides -> [Prices -> Seq(Ids)]]
        /\ total' \in [Sides -> [Prices -> Int]]
        /\ levels' \in [Sides -> SUBSET Prices]
        /\ \A u \in Sides :
             levels'[u] = IF u = s THEN (IF r = <<>> THEN levels[u] \ {p}
                                                     ELSE levels[u] \cup {p})
                                   ELSE levels[u]
        /\ LevelsAreNonEmpty'
    BY <2>1, <2>2, SetLevelResult
  <2>4. QED
    BY <1>5, <2>3
<1>8. \A u \in Sides, v \in Prices : Without(queue[u][v], queue[u][v], taker)
  BY <1>1, <1>2, InNoList
<1>9. \A j \in active \ {taker} : order[j].sequence < order'[taker].sequence
  BY <1>1 DEF TakerInHand
<1>10. /\ level' \in [Ids -> Prices \cup {None}]
       /\ QueuedAreLinked' /\ LinkedAreQueued' /\ OldestFirst'
  <2>1. \A j \in Ids \ {taker} : /\ order'[j].side = order[j].side
                                 /\ order'[j].price = order[j].price
                                 /\ order'[j].sequence = order[j].sequence
    BY <1>1
  <2>2. order'[taker].side = s /\ order'[taker].price = p /\ active' = active
    BY <1>1
  <2>3. queue' = [queue EXCEPT ![s][p] = Append(queue[s][p], taker)]
    BY <1>4, <1>6
  <2> HIDE DEF BookInvariant, s, p
  <2>4. QED
    BY <1>1, <1>2, <1>3, <1>8, <1>9, <2>1, <2>2, <2>3, LinkingKeepsTheRest
<1>11. ActiveAreOpen' /\ order' \in [Ids -> Orders]
  <2>1. /\ IsActive(order[taker]) /\ order[taker].remaining <= order[taker].original
        /\ order[taker].sequence < nextSequence
    BY <1>1, <1>2 DEF ActiveAreOpen
  <2>2. order' = [order EXCEPT ![taker] = order[taker]]
    BY <1>1, <1>2 DEF TypeOK
  <2> HIDE DEF BookInvariant
  <2>3. QED
    BY <1>1, <1>2, <2>1, <2>2, StayingIsOpen
<1>12. Uncrossed'
  <2>1. \A b \in levels'["Buy"], a \in levels'["Sell"] : b < a
    <3>1. CASE s = "Buy"
      BY <1>2, <1>7, <3>1 DEF Uncrossed, Sides
    <3>2. CASE s = "Sell"
      BY <1>2, <1>7, <3>2 DEF Uncrossed, Sides
    <3>3. QED
      BY <1>2, <3>1, <3>2 DEF Sides
  <2>2. QED
    BY <2>1 DEF Uncrossed
<1>13. TypeOK'
  BY <1>1, <1>7, <1>10, <1>11 DEF TypeOK
<1>14. OneMapPerId' /\ TakerInHand'
  BY <1>1 DEF OneMapPerId, TakerInHand
<1>15. TotalsAddUp'
  <2>1. SumsTo(queue[s][p], Open, total[s][p])
    BY <1>2 DEF TotalsAddUp
  <2>2. Open \in [Ids -> Quantities] /\ Open[taker] = order[taker].remaining /\ Open' = Open
    BY <1>1, <1>2, OpenTypes DEF Open
  <2>3. total[s][p] + order[taker].remaining <= MaxQuantity
    <3>1. ~(order[taker].remaining > MaxQuantity - total[s][p])
      BY DEF Rest, WouldOverflow
    <3>2. /\ order[taker].remaining \in Int /\ total[s][p] \in Int
      BY <1>2, TypesOfParts
    <3>3. QED
      BY <3>1, <3>2, MaxQuantityAssumption
  <2> DEFINE q == queue[s][p]
             tt == total[s][p]
  <2>4. SumsTo(r, Open', t)
    <3>1. r = Append(q, taker) /\ t = tt + Open[taker]
      BY <1>4, <2>2 DEF t
    <3>2. tt + Open[taker] <= MaxQuantity /\ q \in Seq(Ids) /\ SumsTo(q, Open, tt)
      BY <1>3, <2>1, <2>2, <2>3
    <3> HIDE DEF BookInvariant, q, tt
    <3>3. SumsTo(Append(q, taker), Open, tt + Open[taker])
      BY <1>2, <2>2, <3>2, SumsWithOneMore
    <3>4. QED
      BY <2>2, <3>1, <3>3
  <2>5. t \in Int
    BY <1>3
  <2>6. SetLevel(s, p, r, t)
    BY <1>1
  <2>7. \A j \in Ids : order'[j] = order[j]
    BY <1>1
  <2>8. \A u \in Sides, v \in Prices : u # s \/ v # p =>
          \A k \in DOMAIN queue[u][v] :
            order'[queue[u][v][k]].remaining = order[queue[u][v][k]].remaining
    BY <2>7, TypesOfParts
  <2> HIDE DEF BookInvariant, s, p
  <2>9. QED
    BY <1>2, <1>5, <1>11, <2>4, <2>5, <2>6, <2>8, SetLevelAddsUp
<1>16. QED
  BY <1>7, <1>10, <1>11, <1>12, <1>13, <1>14, <1>15

\* A remainder that overflows its level leaves the book as it is.
LEMMA RestOverflowsStep ==
  ASSUME BookInvariant, RestOverflows, UNCHANGED rejected
  PROVE  BookInvariant'
<1> USE DEF BookInvariant
<1>1. /\ MatchingOver /\ order[taker].remaining > 0 /\ order[taker].type = "Limit"
      /\ taker' = None /\ error' = "overflow"
      /\ UNCHANGED <<order, active, completed, level, levels, queue, total, trades,
                     nextSequence>>
  BY DEF RestOverflows, MatchingOver
<1>2. TypeOK'
  BY <1>1 DEF TypeOK
<1>3. OneMapPerId' /\ TakerInHand' /\ LevelsAreNonEmpty' /\ OldestFirst' /\ Uncrossed'
  BY <1>1 DEF OneMapPerId, TakerInHand, LevelsAreNonEmpty, OldestFirst, Uncrossed
<1>4. ActiveAreOpen'
  BY <1>1 DEF ActiveAreOpen, IsActive
<1>5. QueuedAreLinked'
  BY <1>1 DEF QueuedAreLinked
<1>6. LinkedAreQueued'
  BY <1>1 DEF LinkedAreQueued
<1>7. TotalsAddUp'
  BY <1>1 DEF TotalsAddUp, Open, SumsTo
<1>8. QED
  BY <1>2, <1>3, <1>4, <1>5, <1>6, <1>7

\* The links do not notice a step that keeps every order's side, price and
\* sequence number, and where the orders stand.
LEMMA KeptLinks ==
  ASSUME BookInvariant, UNCHANGED <<active, level, queue>>,
         \A j \in Ids : /\ order'[j].side = order[j].side
                        /\ order'[j].price = order[j].price
                        /\ order'[j].sequence = order[j].sequence
  PROVE  QueuedAreLinked' /\ LinkedAreQueued' /\ OldestFirst'
<1> USE DEF BookInvariant
<1>1. \A s \in Sides, p \in Prices : \A k \in DOMAIN queue[s][p] : queue[s][p][k] \in Ids
  BY TypesOfParts
<1>2. QueuedAreLinked'
  <2> SUFFICES ASSUME NEW s \in Sides, NEW p \in Prices, NEW k \in DOMAIN queue[s][p]
               PROVE  LET j == queue[s][p][k] IN
                      j \in active /\ level[j] = p /\ order'[j].side = s
    BY DEF QueuedAreLinked
  <2>1. QED
    BY <1>1 DEF QueuedAreLinked
<1>3. LinkedAreQueued'
  <2> SUFFICES ASSUME NEW j \in Ids, level[j] # None
               PROVE  /\ j \in active
                      /\ order'[j].price = level[j]
                      /\ \E k \in DOMAIN queue[order'[j].side][level[j]] :
                           queue[order'[j].side][level[j]][k] = j
    BY DEF LinkedAreQueued
  <2>1. QED
    BY DEF LinkedAreQueued
<1>4. OldestFirst'
  <2> SUFFICES ASSUME NEW s \in Sides, NEW p \in Prices,
                      NEW j \in DOMAIN queue[s][p], NEW k \in DOMAIN queue[s][p], j < k
               PROVE  order'[queue[s][p][j]].sequence < order'[queue[s][p][k]].sequence
    BY DEF OldestFirst
  <2>1. order[queue[s][p][j]].sequence < order[queue[s][p][k]].sequence
    BY DEF OldestFirst
  <2>2. QED
    BY <1>1, <2>1
<1>5. QED
  BY <1>2, <1>3, <1>4

\* What a modification of a linked order starts from.
LEMMA ReplacedOrder ==
  ASSUME BookInvariant, NEW i \in Ids, level[i] # None,
         NEW price \in Prices, NEW quantity \in Quantities, NEW sequence \in Nat,
         Replaceable(i, price, quantity)
  PROVE  LET o == Replace(order[i], price, quantity, sequence) IN
         /\ i \in active /\ taker = None /\ order[i] \in Orders
         /\ o \in Orders /\ o.side = order[i].side /\ o.type = "Limit" /\ o.price = price
         /\ o.sequence = sequence /\ o.original = quantity
         /\ order[i].remaining \in Nat /\ order[i].original \in Nat
         /\ order[i].remaining <= order[i].original
         /\ FilledQuantity(order[i]) \in Nat
         /\ o.remaining = quantity - FilledQuantity(order[i])
         /\ o.remaining \in Nat /\ o.remaining <= MaxQuantity /\ o.remaining <= o.original
         /\ quantity # FilledQuantity(order[i]) => IsActive(o) /\ o.remaining > 0
<1>1. /\ i \in active /\ taker = None /\ order[i] \in Orders /\ order[i].type = "Limit"
      /\ order[i].remaining <= order[i].original
      /\ quantity >= FilledQuantity(order[i])
      /\ order[i].remaining \in Nat /\ order[i].original \in Nat
  BY TypesOfParts DEF Replaceable, CanReplace, Idle, BookInvariant, ActiveAreOpen
<1> DEFINE o == Replace(order[i], price, quantity, sequence)
           x == order[i]
<1>2. /\ o \in Orders /\ o.side = order[i].side /\ o.type = "Limit" /\ o.price = price
      /\ o.sequence = sequence /\ o.original = quantity
      /\ o.remaining = quantity - FilledQuantity(order[i])
      /\ FilledQuantity(order[i]) \in Nat
      /\ quantity # FilledQuantity(order[i]) => IsActive(o)
  <2>1. /\ x \in Orders /\ x.remaining <= x.original /\ quantity >= FilledQuantity(x)
    BY <1>1
  <2> HIDE DEF x
  <2>2. /\ Replace(x, price, quantity, sequence) \in Orders
        /\ Replace(x, price, quantity, sequence).side = x.side
        /\ Replace(x, price, quantity, sequence).type = x.type
        /\ Replace(x, price, quantity, sequence).price = price
        /\ Replace(x, price, quantity, sequence).sequence = sequence
        /\ Replace(x, price, quantity, sequence).original = quantity
        /\ Replace(x, price, quantity, sequence).remaining = quantity - FilledQuantity(x)
        /\ FilledQuantity(x) \in Nat
        /\ quantity # FilledQuantity(x) => IsActive(Replace(x, price, quantity, sequence))
    BY <2>1, ReplaceResult
  <2>3. QED
    BY <1>1, <2>2 DEF x
<1> HIDE DEF o
<1>3. quantity \in Nat /\ quantity <= MaxQuantity
  BY MaxQuantityAssumption DEF Quantities
<1>4. /\ o.remaining \in Nat /\ o.remaining <= MaxQuantity /\ o.remaining <= o.original
      /\ quantity # FilledQuantity(order[i]) => o.remaining > 0
  BY <1>1, <1>2, <1>3, MaxQuantityAssumption
<1>5. QED
  BY <1>1, <1>2, <1>4 DEF o

\* A decrease in place changes one order and the total of its level alike.
LEMMA ShrinkInPlaceStep ==
  ASSUME BookInvariant, NEW i \in Ids, NEW price, NEW quantity \in Quantities,
         ShrinkInPlace(i, price, quantity), UNCHANGED rejected
  PROVE  BookInvariant'
<1> DEFINE s == order[i].side
           p == level[i]
           q == queue[s][p]
           u == total[s][p]
           o == Replace(order[i], price, quantity, order[i].sequence)
           d == order[i].remaining - o.remaining
<1>1. /\ Replaceable(i, price, quantity) /\ Shrinks(i, price, quantity)
      /\ level[i] # None /\ price = order[i].price
      /\ order' = [order EXCEPT ![i] = o]
      /\ total' = [total EXCEPT ![s][p] = u - d]
      /\ error' = "none"
      /\ UNCHANGED <<active, completed, level, levels, queue, trades, nextSequence, taker>>
  BY DEF ShrinkInPlace, Shrinks
<1>2. /\ i \in active /\ s \in Sides /\ p \in Prices /\ price = p
      /\ q \in Seq(Ids) /\ q # <<>> /\ p \in levels[s] /\ Distinct(q)
      /\ \E k \in DOMAIN q : q[k] = i
  BY <1>1, LeftBehind, IndexOfLinked
<1>3. order[i].sequence \in Nat /\ order[i].sequence < nextSequence
  BY <1>2, TypesOfParts DEF BookInvariant, ActiveAreOpen
<1>4. /\ taker = None /\ order[i] \in Orders
      /\ o \in Orders /\ o.side = order[i].side /\ o.type = "Limit" /\ o.price = price
      /\ o.sequence = order[i].sequence /\ o.original = quantity
      /\ order[i].remaining \in Nat /\ order[i].original \in Nat
      /\ order[i].remaining <= order[i].original
      /\ FilledQuantity(order[i]) \in Nat
      /\ o.remaining = quantity - FilledQuantity(order[i])
      /\ o.remaining \in Nat /\ o.remaining <= MaxQuantity /\ o.remaining <= o.original
      /\ quantity # FilledQuantity(order[i]) => IsActive(o) /\ o.remaining > 0
  BY <1>1, <1>2, <1>3, ReplacedOrder
<1> HIDE DEF o
<1>5. /\ IsActive(o) /\ o.remaining > 0 /\ o.remaining <= order[i].remaining
      /\ d \in Int
  <2>1. quantity < order[i].original /\ quantity > FilledQuantity(order[i])
    BY <1>1 DEF Shrinks
  <2>2. quantity \in Nat
    BY MaxQuantityAssumption DEF Quantities
  <2>3. quantity # FilledQuantity(order[i])
    BY <1>4, <2>1, <2>2
  <2>4. o.remaining <= order[i].remaining
    <3>1. FilledQuantity(order[i]) = order[i].original - order[i].remaining
      BY DEF FilledQuantity
    <3>2. QED
      BY <1>4, <2>1, <2>2, <3>1
  <2>5. QED
    BY <1>4, <2>3, <2>4
<1>6. /\ ActiveAreOpen' /\ order' \in [Ids -> Orders]
      /\ order'[i] = o /\ \A j \in Ids \ {i} : order'[j] = order[j]
  <2>1. /\ taker \in {None, i} /\ taker' \in {None, i}
        /\ o.sequence < nextSequence' /\ o.price \in Prices
        /\ \A k \in Nat : k < nextSequence => k < nextSequence'
    BY <1>1, <1>2, <1>3, <1>4
  <2>2. QED
    BY <1>1, <1>2, <1>4, <1>5, <2>1, StayingIsOpen
<1>7. QueuedAreLinked' /\ LinkedAreQueued' /\ OldestFirst'
  <2>1. \A j \in Ids : /\ order'[j].side = order[j].side
                       /\ order'[j].price = order[j].price
                       /\ order'[j].sequence = order[j].sequence
    BY <1>1, <1>4, <1>6
  <2>2. QED
    BY <1>1, <2>1, KeptLinks
<1>8. u \in Int
  BY <1>2, TypesOfParts DEF BookInvariant
<1>9. SetLevel(s, p, q, u - d) /\ u - d \in Int
  <2>1. queue' = [queue EXCEPT ![s][p] = q]
    BY <1>1, <1>2 DEF BookInvariant, TypeOK
  <2>2. levels' = [levels EXCEPT ![s] = levels[s] \cup {p}]
    BY <1>1, <1>2 DEF BookInvariant, TypeOK
  <2>3. total' = [total EXCEPT ![s][p] = u - d]
    BY <1>1
  <2>4. u - d \in Int
    BY <1>5, <1>8
  <2> HIDE DEF s, p, q, u, d
  <2>5. QED
    BY <1>2, <2>1, <2>2, <2>3, <2>4 DEF SetLevel
<1>10. SumsTo(q, Open', u - d)
  <2>1. SumsTo(q, Open, u)
    BY <1>2 DEF BookInvariant, TotalsAddUp
  <2>2. /\ Open \in [Ids -> Quantities] /\ Open' \in [Ids -> Quantities]
        /\ \A j \in Ids : Open[j] = order[j].remaining /\ Open'[j] = order'[j].remaining
    BY <1>6, OpenTypes DEF BookInvariant
  <2> HIDE DEF q, u
  <2>3. PICK k \in DOMAIN q : q[k] = i
    BY <1>2
  <2>4. \A j \in DOMAIN q : j # k => Open'[q[j]] = Open[q[j]]
    <3>1. \A j \in DOMAIN q : q[j] \in Ids
      BY <1>2, LenProperties, ElementOfSeq
    <3>2. \A j \in DOMAIN q : j # k => q[j] # i
      BY <1>2, <2>3 DEF Distinct
    <3>3. QED
      BY <1>6, <2>2, <3>1, <3>2
  <2>5. Open'[q[k]] <= Open[q[k]] /\ d = Open[q[k]] - Open'[q[k]]
    BY <1>5, <1>6, <2>2, <2>3
  <2> HIDE DEF d
  <2>6. SumsTo(q, Open', u - (Open[q[k]] - Open'[q[k]]))
    BY <1>2, <2>1, <2>2, <2>4, <2>5, SumsWithOneLess
  <2>7. QED
    BY <2>5, <2>6
<1> HIDE DEF d
<1>11. TotalsAddUp' /\ total' \in [Sides -> [Prices -> Int]]
  <2>1. \A v \in Sides, w \in Prices : v # s \/ w # p =>
          \A k \in DOMAIN queue[v][w] :
            order'[queue[v][w][k]].remaining = order[queue[v][w][k]].remaining
    BY <1>2, <1>6, OthersElsewhere
  <2> HIDE DEF s, p, q, u
  <2>2. TotalsAddUp'
    BY <1>2, <1>6, <1>9, <1>10, <2>1, SetLevelAddsUp
  <2>3. total' \in [Sides -> [Prices -> Int]]
    BY <1>2, <1>9, SetLevelResult
  <2>4. QED
    BY <2>2, <2>3
<1>12. TypeOK'
  BY <1>1, <1>6, <1>11 DEF BookInvariant, TypeOK
<1>13. OneMapPerId' /\ TakerInHand' /\ LevelsAreNonEmpty' /\ Uncrossed'
  BY <1>1, <1>4 DEF BookInvariant, OneMapPerId, TakerInHand, LevelsAreNonEmpty, Uncrossed
<1>14. QED
  BY <1>6, <1>7, <1>11, <1>12, <1>13 DEF BookInvariant

\* An increase requeues the order behind its level, or strands it when the total overflows.
LEMMA GrowRequeueStep ==
  ASSUME BookInvariant, NEW i \in Ids, NEW price, NEW quantity \in Quantities,
         GrowRequeue(i, price, quantity), UNCHANGED rejected
  PROVE  BookInvariant'
<1> DEFINE s == order[i].side
           p == level[i]
           q == queue[s][p]
           r == SeqX!RemoveAt(q, IndexOf(q, i))
           t == total[s][p] - order[i].remaining
           o == Replace(order[i], price, quantity, nextSequence)
           Fits == /\ o.remaining <= MaxQuantity - t
                   /\ queue' = [queue EXCEPT ![s][p] = PushBack(r, i)]
                   /\ total' = [total EXCEPT ![s][p] = t + o.remaining]
                   /\ error' = "none"
                   /\ UNCHANGED level
           Throws == /\ o.remaining > MaxQuantity - t
                     /\ queue' = [queue EXCEPT ![s][p] = r]
                     /\ total' = [total EXCEPT ![s][p] = t]
                     /\ level' = [level EXCEPT ![i] = None]
                     /\ error' = "overflow"
<1>1. level[i] # None /\ price = order[i].price
  BY DEF GrowRequeue, Grows
<1>2. /\ i \in active /\ s \in Sides /\ p \in Prices /\ order[i].price = p
      /\ q \in Seq(Ids) /\ q # <<>> /\ p \in levels[s]
      /\ r \in Seq(Ids) /\ Without(r, q, i)
      /\ t \in Quantities /\ SumsTo(r, Open, t)
  BY <1>1, LeftBehind
<1>3. price = p
  BY <1>1, <1>2
<1>4. /\ Replaceable(i, price, quantity) /\ Grows(i, price, quantity)
      /\ order' = [order EXCEPT ![i] = o]
      /\ nextSequence' = nextSequence + 1
      /\ UNCHANGED <<active, completed, levels, trades, taker>>
  BY DEF GrowRequeue
<1>5. Fits \/ Throws
  BY <1>3 DEF GrowRequeue
<1>6. nextSequence \in Nat /\ nextSequence' \in Nat \ {0}
      /\ \A k \in Nat : k < nextSequence => k < nextSequence'
  <2>1. nextSequence \in Nat
    BY DEF BookInvariant, TypeOK
  <2>2. QED
    BY <1>4, <2>1
<1>7. /\ taker = None /\ order[i] \in Orders
      /\ o \in Orders /\ o.side = order[i].side /\ o.type = "Limit" /\ o.price = price
      /\ o.sequence = nextSequence /\ o.original = quantity
      /\ order[i].remaining \in Nat /\ order[i].original \in Nat
      /\ order[i].remaining <= order[i].original
      /\ FilledQuantity(order[i]) \in Nat
      /\ o.remaining = quantity - FilledQuantity(order[i])
      /\ o.remaining \in Nat /\ o.remaining <= MaxQuantity /\ o.remaining <= o.original
      /\ quantity # FilledQuantity(order[i]) => IsActive(o) /\ o.remaining > 0
  BY <1>1, <1>2, <1>3, <1>4, <1>6, ReplacedOrder
<1>8. t \in Nat /\ t <= MaxQuantity /\ MaxQuantity \in Nat
  BY <1>2, MaxQuantityAssumption DEF Quantities
<1> HIDE DEF o, t, r, q
<1>9. quantity # FilledQuantity(order[i])
  <2>1. quantity > order[i].original /\ quantity \in Nat
    BY <1>4, MaxQuantityAssumption DEF Grows, Quantities
  <2>2. FilledQuantity(order[i]) <= order[i].original
    BY <1>7 DEF FilledQuantity
  <2>3. QED
    BY <1>7, <2>1, <2>2
<1>10. /\ ActiveAreOpen' /\ order' \in [Ids -> Orders]
       /\ order'[i] = o /\ \A j \in Ids \ {i} : order'[j] = order[j]
  <2>1. /\ taker \in {None, i} /\ taker' \in {None, i}
        /\ o.sequence < nextSequence' /\ o.price \in Prices
        /\ \A k \in Nat : k < nextSequence => k < nextSequence'
    BY <1>2, <1>3, <1>4, <1>6, <1>7
  <2>2. QED
    BY <1>2, <1>4, <1>7, <1>9, <2>1, StayingIsOpen
<1>11. SumsTo(r, Open', t)
  <2>1. \A k \in DOMAIN r : r[k] # i
    BY <1>2 DEF Without
  <2>2. TypeOK
    BY DEF BookInvariant
  <2>3. QED
    BY <1>2, <1>10, <2>1, <2>2, SumsWithoutTheChanged
<1>12. \A u \in Sides, v \in Prices : u # s \/ v # p =>
         \A k \in DOMAIN queue[u][v] :
           order'[queue[u][v][k]].remaining = order[queue[u][v][k]].remaining
  BY <1>2, <1>10, OthersElsewhere
<1>13. \A u \in Sides, v \in Prices : u # s \/ v # p => Without(queue[u][v], queue[u][v], i)
  BY <1>2, WithoutUnlinked
<1>14. /\ Without(r, queue[s][p], i)
       /\ levels' = [levels EXCEPT ![s] = levels[s] \cup {p}]
  <2>1. levels' = levels /\ levels \in [Sides -> SUBSET Prices]
    BY <1>4 DEF BookInvariant, TypeOK
  <2>2. QED
    BY <1>2, <2>1 DEF q
<1>15. OneMapPerId' /\ TakerInHand' /\ Uncrossed'
  BY <1>4, <1>7 DEF BookInvariant, OneMapPerId, TakerInHand, Uncrossed
<1>16. CASE Fits
  <2> DEFINE r2 == Append(r, i)
             t2 == t + o.remaining
  <2>1. r2 \in Seq(Ids) /\ r2 # <<>> /\ t2 \in Int /\ t2 <= MaxQuantity
    <3>1. r2 \in Seq(Ids) /\ r2 # <<>>
      BY <1>2, AppendProperties, EmptySeq
    <3>2. QED
      BY <1>7, <1>8, <1>16, <3>1
  <2>2. /\ queue' = [queue EXCEPT ![s][p] = r2]
        /\ total' = [total EXCEPT ![s][p] = t2]
        /\ level' = level /\ error' = "none"
    BY <1>16 DEF PushBack
  <2>3. SumsTo(r2, Open', t2)
    <3>1. Open' \in [Ids -> Quantities] /\ Open'[i] = o.remaining
      BY <1>10, OpenTypes
    <3>2. SumsTo(Append(r, i), Open', t + Open'[i])
      BY <1>2, <1>11, <2>1, <3>1, SumsWithOneMore
    <3>3. QED
      BY <3>1, <3>2
  <2> HIDE DEF t2
  <2>4. SetLevel(s, p, r2, t2)
    <3> HIDE DEF r2, s, p
    <3>1. QED
      BY <1>14, <2>1, <2>2 DEF SetLevel
  <2>5. /\ TotalsAddUp' /\ LevelsAreNonEmpty'
        /\ total' \in [Sides -> [Prices -> Int]] /\ levels' \in [Sides -> SUBSET Prices]
    <3> HIDE DEF r2, s, p
    <3>1. TotalsAddUp'
      BY <1>2, <1>10, <1>12, <2>1, <2>3, <2>4, SetLevelAddsUp
    <3>2. QED
      BY <1>2, <2>1, <2>4, <3>1, SetLevelResult
  <2>6. /\ queue' \in [Sides -> [Prices -> Seq(Ids)]]
        /\ level' \in [Ids -> Prices \cup {None}]
        /\ QueuedAreLinked' /\ LinkedAreQueued' /\ OldestFirst'
    <3>1. level' = [level EXCEPT ![i] = p]
      BY <2>2 DEF BookInvariant, TypeOK
    <3>2. \A j \in Ids \ {i} : /\ order'[j].side = order[j].side
                               /\ order'[j].price = order[j].price
                               /\ order'[j].sequence = order[j].sequence
      BY <1>10
    <3>3. order'[i].side = s /\ order'[i].price = p /\ active' = active
      BY <1>3, <1>4, <1>7, <1>10
    <3>4. \A j \in active \ {i} : order[j].sequence < order'[i].sequence
      BY <1>7, <1>10 DEF BookInvariant, ActiveAreOpen
    <3>5. i \in active /\ s \in Sides /\ p \in Prices /\ r \in Seq(Ids)
      BY <1>2
    <3>6. Without(r, queue[s][p], i) /\ queue' = [queue EXCEPT ![s][p] = Append(r, i)]
      BY <1>14, <2>2
    <3> HIDE DEF s, p, r2, Fits, Throws
    <3>7. QED
      BY <1>13, <3>1, <3>2, <3>3, <3>4, <3>5, <3>6, LinkingKeepsTheRest, ZenonT(60)
  <2>7. TypeOK'
    BY <1>4, <1>6, <1>10, <2>2, <2>5, <2>6 DEF BookInvariant, TypeOK
  <2>8. QED
    BY <1>10, <1>15, <2>5, <2>6, <2>7 DEF BookInvariant
<1>17. CASE Throws
  <2>1. /\ o.remaining > MaxQuantity - t
        /\ queue' = [queue EXCEPT ![s][p] = r] /\ total' = [total EXCEPT ![s][p] = t]
        /\ level' = [level EXCEPT ![i] = None] /\ error' = "overflow"
    BY <1>17
  <2>2. r # <<>>
    <3>1. SUFFICES ASSUME r = <<>> PROVE FALSE
      OBVIOUS
    <3>2. t = 0
      <4>1. Len(r) = 0
        BY <3>1
      <4>2. QED
        BY <1>2, <4>1 DEF SumsTo
    <3>3. QED
      BY <1>7, <1>8, <2>1, <3>2
  <2>3. SetLevel(s, p, r, t) /\ t \in Int
    <3> HIDE DEF s, p
    <3>1. QED
      BY <1>8, <1>14, <2>1, <2>2 DEF SetLevel
  <2>4. /\ queue' \in [Sides -> [Prices -> Seq(Ids)]]
        /\ TotalsAddUp' /\ LevelsAreNonEmpty'
        /\ total' \in [Sides -> [Prices -> Int]] /\ levels' \in [Sides -> SUBSET Prices]
        /\ \A u \in Sides, v \in Prices :
             queue'[u][v] = IF u = s /\ v = p THEN r ELSE queue[u][v]
    <3> HIDE DEF s, p
    <3>1. TotalsAddUp'
      BY <1>2, <1>10, <1>11, <1>12, <2>3, SetLevelAddsUp
    <3>2. QED
      BY <1>2, <2>3, <3>1, SetLevelResult
  <2>5. QueuedAreLinked' /\ LinkedAreQueued' /\ OldestFirst'
    <3>1. \A u \in Sides, v \in Prices : Without(queue'[u][v], queue[u][v], i)
      BY <1>13, <1>14, <2>4
    <3>2. \A u \in Sides : levels'[u] \subseteq levels[u]
      BY <1>4
    <3>3. \A j \in Ids \ {i} : /\ order'[j].side = order[j].side
                               /\ order'[j].price = order[j].price
                               /\ order'[j].sequence = order[j].sequence
      BY <1>10
    <3>4. active \ {i} \subseteq active'
      BY <1>4
    <3>5. QED
      BY <2>1, <3>1, <3>2, <3>3, <3>4, UnlinkingKeepsTheRest
  <2>6. TypeOK'
    <3>1. level' \in [Ids -> Prices \cup {None}]
      BY <2>1 DEF BookInvariant, TypeOK
    <3>2. QED
      BY <1>4, <1>6, <1>10, <2>1, <2>4, <3>1 DEF BookInvariant, TypeOK
  <2>7. QED
    BY <1>10, <1>15, <2>4, <2>5, <2>6 DEF BookInvariant
<1>18. QED
  BY <1>5, <1>16, <1>17

\* A repriced order leaves its list, and the active map or into the matching loop.
LEMMA RepriceStep ==
  ASSUME BookInvariant, NEW i \in Ids, NEW price \in Prices, NEW quantity \in Quantities,
         Reprice(i, price, quantity), UNCHANGED rejected
  PROVE  BookInvariant'
<1> DEFINE o == Replace(order[i], price, quantity, nextSequence)
<1>1. /\ level[i] # None /\ Replaceable(i, price, quantity) /\ RemoveFromLevel(i)
      /\ order' = [order EXCEPT ![i] = o]
      /\ nextSequence' = nextSequence + 1 /\ error' = "none"
      /\ UNCHANGED trades
  BY DEF Reprice
<1>2. /\ nextSequence \in Nat /\ nextSequence' \in Nat \ {0}
      /\ \A k \in Nat : k < nextSequence => k < nextSequence'
  <2>1. nextSequence \in Nat
    BY DEF BookInvariant, TypeOK
  <2>2. QED
    BY <1>1, <2>1
<1>3. /\ i \in active /\ taker = None
      /\ o \in Orders /\ o.type = "Limit" /\ o.price = price /\ o.sequence = nextSequence
      /\ o.remaining <= o.original
      /\ quantity # FilledQuantity(order[i]) => IsActive(o) /\ o.remaining > 0
  BY <1>1, <1>2, ReplacedOrder
<1> HIDE DEF o
<1>4. /\ queue' \in [Sides -> [Prices -> Seq(Ids)]]
      /\ total' \in [Sides -> [Prices -> Int]]
      /\ levels' \in [Sides -> SUBSET Prices]
      /\ LevelsAreNonEmpty'
      /\ \A s \in Sides : levels'[s] \subseteq levels[s]
      /\ \A s \in Sides, p \in Prices : Without(queue'[s][p], queue[s][p], i)
  BY <1>1, RemoveFromLevelUnlinks
<1>5. /\ order' \in [Ids -> Orders] /\ order'[i] = o
      /\ \A j \in Ids \ {i} : order'[j] = order[j]
  BY <1>1, <1>3 DEF BookInvariant, TypeOK
<1>6. TotalsAddUp'
  BY <1>1, <1>5, RemoveFromLevelAddsUp
<1>7. CASE quantity = FilledQuantity(order[i])
  <2>1. /\ active' = active \ {i} /\ completed' = completed \cup {i}
        /\ level' = [level EXCEPT ![i] = None] /\ taker' = None
    BY <1>3, <1>7 DEF Reprice, Complete
  <2>2. QED
    BY <1>1, <1>2, <1>3, <1>4, <1>6, <2>1, LeavingStep
<1>8. CASE quantity # FilledQuantity(order[i])
  <2>1. /\ level' = [level EXCEPT ![i] = None] /\ taker' = i
        /\ UNCHANGED <<active, completed>>
    BY <1>8 DEF Reprice
  <2>2. ActiveAreOpen'
    <3>1. /\ taker \in {None, i} /\ taker' \in {None, i} /\ o.sequence < nextSequence'
      BY <1>1, <1>2, <1>3, <2>1
    <3>2. QED
      BY <1>1, <1>2, <1>3, <1>8, <2>1, <3>1, StayingIsOpen
  <2>3. QueuedAreLinked' /\ LinkedAreQueued' /\ OldestFirst' /\ Uncrossed'
    <3>1. \A j \in Ids \ {i} : /\ order'[j].side = order[j].side
                               /\ order'[j].price = order[j].price
                               /\ order'[j].sequence = order[j].sequence
      BY <1>5
    <3>2. active \ {i} \subseteq active'
      BY <2>1
    <3>3. QED
      BY <1>4, <2>1, <3>1, <3>2, UnlinkingKeepsTheRest
  <2>4. TakerInHand'
    <3>1. i \in active' /\ level'[i] = None
      BY <1>3, <2>1 DEF BookInvariant, TypeOK
    <3>2. \A j \in active \ {i} : order'[j].sequence < order'[i].sequence
      BY <1>3, <1>5 DEF BookInvariant, ActiveAreOpen, TypeOK
    <3>3. QED
      BY <2>1, <3>1, <3>2 DEF TakerInHand
  <2>5. TypeOK'
    <3>1. level' \in [Ids -> Prices \cup {None}]
      BY <2>1 DEF BookInvariant, TypeOK
    <3>2. QED
      BY <1>1, <1>2, <1>4, <1>5, <2>1, <3>1 DEF BookInvariant, TypeOK
  <2>6. OneMapPerId'
    BY <2>1 DEF BookInvariant, OneMapPerId
  <2>7. QED
    BY <1>4, <1>6, <2>2, <2>3, <2>4, <2>5, <2>6 DEF BookInvariant
<1>9. QED
  BY <1>7, <1>8
-----------------------------------------------------------------------------
(***************************************************************************)
(* The invariant holds initially and every step preserves it.              *)
(***************************************************************************)
\* The empty book is consistent.
LEMMA InitStep ==
  ASSUME Init
  PROVE  BookInvariant
<1> USE DEF Init, BookInit
<1>1. TypeOK
  <2>1. BlankOrder \in Orders
    <3>1. 0 \in Quantities /\ 0 \in Nat /\ 0 \in Int
      BY MaxQuantityAssumption DEF Quantities
    <3>2. QED
      BY <3>1 DEF BlankOrder, Orders, Sides, OrderTypes, Statuses
  <2>2. order \in [Ids -> Orders] /\ level \in [Ids -> Prices \cup {None}]
    BY <2>1
  <2>3. /\ <<>> \in Seq(Ids) /\ <<>> \in Seq(Trades)
    OBVIOUS
  <2>4. /\ levels \in [Sides -> SUBSET Prices]
        /\ queue \in [Sides -> [Prices -> Seq(Ids)]]
        /\ total \in [Sides -> [Prices -> Int]]
        /\ trades \in Seq(Trades)
    BY <2>3
  <2>5. QED
    BY <2>2, <2>4 DEF TypeOK
<1>2. \A s \in Sides, p \in Prices : queue[s][p] = <<>> /\ total[s][p] = 0
  OBVIOUS
<1>3. OneMapPerId /\ TakerInHand /\ ActiveAreOpen
  BY DEF OneMapPerId, TakerInHand, ActiveAreOpen
<1>4. QueuedAreLinked /\ OldestFirst
  <2>1. \A s \in Sides, p \in Prices : \A k \in DOMAIN queue[s][p] : FALSE
    BY <1>2, EmptySeq, LenProperties
  <2>2. QED
    BY <2>1 DEF QueuedAreLinked, OldestFirst
<1>5. LinkedAreQueued
  BY DEF LinkedAreQueued
<1>6. LevelsAreNonEmpty /\ Uncrossed
  BY <1>2 DEF LevelsAreNonEmpty, Uncrossed, Sides
<1>7. TotalsAddUp
  <2>1. SumsTo(<<>>, Open, 0)
    BY NoneSumToZero
  <2>2. QED
    BY <1>2, <2>1 DEF TotalsAddUp
<1>8. QED
  BY <1>1, <1>3, <1>4, <1>5, <1>6, <1>7 DEF BookInvariant

\* What modify passes to replace_order is a price and a quantity.
LEMMA ModifyTargets ==
  ASSUME BookInvariant, NEW i \in Ids, NEW m \in ModifyRequests, Modifiable(i, m)
  PROVE  TargetPrice(i, m) \in Prices /\ TargetQuantity(i, m) \in Quantities
<1>1. /\ order[i] \in Orders /\ order[i].price \in Prices
      /\ order[i].original \in Quantities
  <2>1. i \in active /\ order[i].type = "Limit" /\ order[i] \in Orders
    BY DEF Modifiable, BookInvariant, TypeOK
  <2>2. order[i].original \in Quantities
    BY <2>1 DEF Orders
  <2>3. QED
    BY <2>1, <2>2 DEF BookInvariant, ActiveAreOpen
<1>2. m.price \in Prices \cup {0, None} /\ m.quantity \in Quantities \cup {None}
  BY RequestsAssumption
<1>3. TargetPrice(i, m) \in Prices
  <2>1. CASE m.price = None
    BY <1>1, <2>1 DEF TargetPrice
  <2>2. CASE m.price # None
    <3>1. TargetPrice(i, m) = m.price
      BY <2>2 DEF TargetPrice
    <3>2. m.price > 0
      BY <3>1 DEF Modifiable
    <3>3. QED
      BY <1>2, <2>2, <3>1, <3>2
  <2>3. QED
    BY <2>1, <2>2
<1>4. TargetQuantity(i, m) \in Quantities
  BY <1>1, <1>2 DEF TargetQuantity
<1>5. QED
  BY <1>3, <1>4

\* Every branch of a modification keeps the book consistent.
LEMMA ModifyStep ==
  ASSUME BookInvariant, NEW i \in Ids, NEW m \in ModifyRequests, Modify(i, m)
  PROVE  BookInvariant'
<1> DEFINE p == TargetPrice(i, m)
           q == TargetQuantity(i, m)
<1>1. p \in Prices /\ q \in Quantities
  BY ModifyTargets DEF Modify
<1>2. ReplaceOrder(i, p, q) /\ UNCHANGED rejected
  BY DEF Modify
<1> HIDE DEF p, q
<1>3. CASE ShrinkInPlace(i, p, q)
  BY <1>1, <1>2, <1>3, ShrinkInPlaceStep
<1>4. CASE ShrinkNullLevel(i, p, q)
  <2>1. /\ UNCHANGED <<order, active, completed, level, levels, queue, total, trades,
                       nextSequence, taker, rejected>>
        /\ error' = "null level"
    BY <1>2, <1>4 DEF ShrinkNullLevel
  <2>2. QED
    BY <2>1, QuietStep
<1>5. CASE GrowRequeue(i, p, q)
  BY <1>1, <1>2, <1>5, GrowRequeueStep
<1>6. CASE ShrinkToExecuted(i, p, q)
  BY <1>1, <1>2, <1>6, ShrinkToExecutedStep
<1>7. CASE Reprice(i, p, q)
  BY <1>1, <1>2, <1>7, RepriceStep
<1>8. CASE MissingLevel(i)
  <2>1. /\ UNCHANGED <<order, active, completed, level, levels, queue, total, trades,
                       nextSequence, taker, rejected>>
        /\ error' = "missing level"
    BY <1>2, <1>8 DEF MissingLevel
  <2>2. QED
    BY <2>1, QuietStep
<1>9. QED
  BY <1>2, <1>3, <1>4, <1>5, <1>6, <1>7, <1>8 DEF ReplaceOrder

\* A step of the engine, whoever called it: a submission may be any OrderRequest, as
\* those of the execution scheduler are.
AnyStep ==
  \/ \E r \in OrderRequests : Submit(r) \/ RejectSubmit(r)
  \/ \E i \in Ids : Cancel(i)
  \/ \E i \in Ids, m \in ModifyRequests : Modify(i, m)
  \/ Refuse
  \/ Match
  \/ UNCHANGED vars

\* The engine's own steps are among them.
LEMMA NextIsAnyStep == [Next]_vars => AnyStep
BY RequestsAssumption DEF Next, AnyStep

\* BookInvariant is inductive.
LEMMA NextStep ==
  ASSUME BookInvariant, AnyStep
  PROVE  BookInvariant'
<1>1. ASSUME NEW r \in OrderRequests, Submit(r)
      PROVE  BookInvariant'
  BY <1>1, SubmitStep
<1>2. ASSUME NEW r \in OrderRequests, RejectSubmit(r)
      PROVE  BookInvariant'
  BY <1>2, RejectSubmitStep
<1>3. ASSUME NEW i \in Ids, Cancel(i)
      PROVE  BookInvariant'
  <2>1. CASE CancelOrder(i)
    BY <1>3, <2>1, CancelOrderStep DEF Cancel
  <2>2. CASE MissingLevel(i)
    <3>1. /\ UNCHANGED <<order, active, completed, level, levels, queue, total, trades,
                         nextSequence, taker, rejected>>
          /\ error' = "missing level"
      BY <1>3, <2>2 DEF Cancel, MissingLevel
    <3>2. QED
      BY <3>1, QuietStep
  <2>3. QED
    BY <1>3, <2>1, <2>2 DEF Cancel
<1>4. ASSUME NEW i \in Ids, NEW m \in ModifyRequests, Modify(i, m)
      PROVE  BookInvariant'
  BY <1>4, ModifyStep
<1>5. CASE Refuse
  <2>1. /\ UNCHANGED <<order, active, completed, level, levels, queue, total, trades,
                       nextSequence, taker, rejected>>
        /\ error' = "none"
    BY <1>5 DEF Refuse
  <2>2. QED
    BY <2>1, QuietStep
<1>6. CASE Match
  <2>1. UNCHANGED rejected
    BY <1>6 DEF Match
  <2>2. QED
    BY <1>6, <2>1, MatchFrontStep, CompleteTakerStep, CancelRemainderStep, RestStep,
       RestOverflowsStep DEF Match, Matching
<1>7. CASE UNCHANGED vars
  <2>1. /\ UNCHANGED <<order, active, completed, level, levels, queue, total, trades,
                       nextSequence, taker, rejected>>
        /\ error' = error
    BY <1>7 DEF vars
  <2>2. error' \in {"none", "overflow", "missing level", "null level"}
    BY <2>1 DEF BookInvariant, TypeOK
  <2>3. QED
    BY <2>1, <2>2, QuietStep
<1>8. QED
  BY <1>1, <1>2, <1>3, <1>4, <1>5, <1>6, <1>7 DEF AnyStep
-----------------------------------------------------------------------------
(***************************************************************************)
(* The theorems.                                                           *)
(***************************************************************************)

\* The engine's maps, pointers, lists and cached totals describe the same orders
\* in every reachable state of every call, the ones that throw included.
THEOREM BookIsConsistent == Spec => []BookInvariant
<1>1. Init => BookInvariant
  BY InitStep
<1>2. BookInvariant /\ [Next]_vars => BookInvariant'
  BY NextIsAnyStep, NextStep
<1>3. QED
  BY <1>1, <1>2, PTL DEF Spec

\* Type correctness: in particular no operation leaves an order with a remaining
\* quantity outside the range of a Quantity.
THEOREM TypesAreRight == Spec => []TypeOK
<1>1. BookInvariant => TypeOK
  BY DEF BookInvariant
<1>2. QED
  BY <1>1, BookIsConsistent, PTL

\* Every level is served in the order of the sequence numbers: the list operations
\* of submit, cancel, modify and fill keep time priority.
THEOREM LevelsAreOldestFirst == Spec => []OldestFirst
<1>1. BookInvariant => OldestFirst
  BY DEF BookInvariant
<1>2. QED
  BY <1>1, BookIsConsistent, PTL

\* The cached total of every level is the sum of what its orders have left, and
\* fits a Quantity: no fill, removal or decrease makes it wrap around.
THEOREM TotalsAreSums == Spec => []TotalsAddUp
<1>1. BookInvariant => TotalsAddUp
  BY DEF BookInvariant
<1>2. QED
  BY <1>1, BookIsConsistent, PTL

\* No id is used twice: the active, completed and rejected maps share no id.
THEOREM IdsAreUsedOnce == Spec => []OneMapPerId
<1>1. BookInvariant => OneMapPerId
  BY DEF BookInvariant
<1>2. QED
  BY <1>1, BookIsConsistent, PTL
-----------------------------------------------------------------------------
(***************************************************************************)
(* The matching engine implements PriceTimePriority as long as no level    *)
(* overflows: an order that overflows its level is in no book, which       *)
(* nothing in PriceTimePriority allows.  Each action of the engine is a    *)
(* step of the auction, or leaves what clients see alone; there is one     *)
(* lemma for each kind of step.                                            *)
(***************************************************************************)
\* Where a resting order is, and what its entry says.
LEMMA RestingPlace ==
  ASSUME BookInvariant, NEW i \in Resting
  PROVE  /\ i \in active /\ i \in Ids /\ i # taker /\ i # None
         /\ order[i] \in Orders /\ order[i].side \in Sides
         /\ order[i].sequence \in Nat /\ order[i].sequence < nextSequence
         /\ order[i].remaining \in Nat /\ order[i].remaining > 0
         /\ order[i].remaining <= order[i].original /\ order[i].original \in Nat
         /\ order[i].price \in Prices /\ order[i].price \in Int /\ order[i].price = level[i]
         /\ level[i] \in levels[order[i].side]
<1>1. i \in active /\ level[i] # None /\ i \in Ids /\ i # None
  BY NoneAssumption DEF Resting, BookInvariant, TypeOK
<1>2. i # taker
  BY <1>1 DEF BookInvariant, TakerInHand
<1>3. /\ order[i] \in Orders /\ order[i].side \in Sides /\ order[i].sequence \in Nat
      /\ order[i].remaining \in Nat /\ order[i].original \in Nat /\ order[i].price \in Int
  BY <1>1, TypesOfParts DEF BookInvariant
<1>4. /\ order[i].sequence < nextSequence /\ order[i].remaining > 0
      /\ order[i].remaining <= order[i].original
  BY <1>1, <1>2 DEF BookInvariant, ActiveAreOpen
<1>5. /\ level[i] \in Prices /\ order[i].price = level[i]
      /\ \E k \in DOMAIN queue[order[i].side][level[i]] : TRUE
  BY <1>1, IndexOfLinked
<1>6. queue[order[i].side][level[i]] # <<>>
  BY <1>5, EmptySeq, LenProperties
<1>7. level[i] \in levels[order[i].side]
  BY <1>3, <1>5, <1>6 DEF BookInvariant, LevelsAreNonEmpty
<1>8. QED
  BY <1>1, <1>2, <1>3, <1>4, <1>5, <1>7

\* An entry tells which order it is.
LEMMA EntriesDiffer ==
  ASSUME NEW i, NEW j, Entry(i) = Entry(j)
  PROVE  i = j
BY DEF Entry

\* What one order would say with another price, rank and remainder.
EntryWith(i, price, rank, open) ==
  [id |-> i, side |-> order[i].side, type |-> order[i].type, price |-> price,
   rank |-> rank, open |-> open]

\* An entry is that of its order's own price, rank and remainder.
LEMMA EntryOf ==
  ASSUME NEW i
  PROVE  Entry(i) = EntryWith(i, order[i].price, order[i].sequence, order[i].remaining)
BY DEF Entry, EntryWith

\* EXCEPT, one field at a time: the price.
LEMMA NewPrice ==
  ASSUME NEW i, NEW price, NEW rank, NEW open, NEW p
  PROVE  [EntryWith(i, price, rank, open) EXCEPT !.price = p] = EntryWith(i, p, rank, open)
BY DEF EntryWith

\* The same for the rank.
LEMMA NewRank ==
  ASSUME NEW i, NEW price, NEW rank, NEW open, NEW r
  PROVE  [EntryWith(i, price, rank, open) EXCEPT !.rank = r] = EntryWith(i, price, r, open)
BY DEF EntryWith

\* The same for the remainder.
LEMMA NewOpen ==
  ASSUME NEW i, NEW price, NEW rank, NEW open, NEW x
  PROVE  [EntryWith(i, price, rank, open) EXCEPT !.open = x] = EntryWith(i, price, rank, x)
BY DEF EntryWith

\* The book's entries are those of its orders: nothing happens to any of them.
LEMMA BookIsKept ==
  ASSUME Resting' = Resting, \A j \in Resting : order'[j] = order[j]
  PROVE  BookEntries' = BookEntries
BY DEF BookEntries, Entry

\* One order leaves.
LEMMA BookLosesOne ==
  ASSUME NEW i \in Resting, Resting' = Resting \ {i},
         \A j \in Resting \ {i} : order'[j] = order[j]
  PROVE  BookEntries' = BookEntries \ {Entry(i)} /\ Entry(i) \in BookEntries
<1>1. BookEntries' = {Entry(j) : j \in Resting \ {i}}
  BY DEF BookEntries, Entry
<1>2. BookEntries = {Entry(j) : j \in Resting}
  BY DEF BookEntries
<1>3. \A j \in Resting \ {i} : Entry(j) # Entry(i)
  BY EntriesDiffer
<1>4. QED
  BY <1>1, <1>2, <1>3

\* One order stays, changed.
LEMMA BookChangesOne ==
  ASSUME NEW i \in Resting, Resting' = Resting,
         \A j \in Resting \ {i} : order'[j] = order[j]
  PROVE  BookEntries' = (BookEntries \ {Entry(i)}) \cup {Entry(i)'} /\ Entry(i) \in BookEntries
<1>1. \A j \in Resting \ {i} : Entry(j)' = Entry(j)
  BY DEF Entry
<1>2. BookEntries' = {Entry(j) : j \in Resting \ {i}} \cup {Entry(i)'}
  BY <1>1 DEF BookEntries
<1>3. BookEntries = {Entry(j) : j \in Resting}
  BY DEF BookEntries
<1>4. \A j \in Resting \ {i} : Entry(j) # Entry(i)
  BY EntriesDiffer
<1>5. QED
  BY <1>2, <1>3, <1>4

\* The order in hand is an entry of its own.
LEMMA TakerIsIncoming ==
  ASSUME BookInvariant, taker # None
  PROVE  /\ IncomingEntry = Entry(taker) /\ IncomingEntry # None
         /\ taker \in active /\ taker \in Ids /\ level[taker] = None /\ taker \notin Resting
         /\ Entry(taker) \in Auction!Entries
<1>1. taker \in active /\ taker \in Ids /\ level[taker] = None
  BY DEF BookInvariant, TakerInHand, TypeOK
<1>2. order[taker] \in Orders
  BY <1>1 DEF BookInvariant, TypeOK
<1>3. Entry(taker) \in Auction!Entries
  BY <1>1, <1>2 DEF Entry, Auction!Entries, Orders, Sides, OrderTypes, Quantities
<1>4. QED
  BY <1>1, <1>3, NoneIsNoEntry DEF IncomingEntry, Resting

\* And so it is after a step.
IncomingIsTaker ==
  taker # None =>
    IncomingEntry = Entry(taker) /\ IncomingEntry # None /\ Entry(taker) \in Auction!Entries

\* From TakerIsIncoming, one step later.
LEMMA IncomingIsTakerNext == BookInvariant' => IncomingIsTaker'
<1>1. BookInvariant => IncomingIsTaker
  BY TakerIsIncoming DEF IncomingIsTaker
<1>2. QED
  BY <1>1, PTL
-----------------------------------------------------------------------------
(***************************************************************************)
(* One lemma per kind of step.                                             *)
(***************************************************************************)

\* A call that is refused or throws at once, and a step outside the engine.
LEMMA QuietIsHidden ==
  ASSUME UNCHANGED <<order, active, level, trades, taker>>
  PROVE  UNCHANGED <<BookEntries, IncomingEntry, trades>>
BY DEF BookEntries, IncomingEntry, Entry, Resting

\* A new order is the incoming one, younger than all that rest.
LEMMA SubmitArrives ==
  ASSUME BookInvariant, NEW r \in OrderRequests, Submit(r)
  PROVE  Auction!Arrive
<1> DEFINE i == r.id
<1> DEFINE price == IF r.type = "Limit" THEN r.price ELSE 0
<1> DEFINE o == ActivatedOrder(r.side, r.type, price, r.quantity, nextSequence)
<1>1. /\ taker = None /\ i \notin active /\ taker' = i /\ active' = active \cup {i}
      /\ order' = [order EXCEPT ![i] = o] /\ UNCHANGED <<level, trades>>
  BY DEF Submit, AddOrder, Idle, HasUsedOrderId
<1>2. i \in Ids /\ i # None /\ r.quantity \in Nat /\ r.quantity > 0
  <2>1. i \in Ids /\ r.quantity \in Quantities /\ r.quantity # 0
    BY DEF Submit, Acceptable, OrderRequests
  <2>2. QED
    BY <2>1, NoneAssumption, MaxQuantityAssumption DEF Quantities
<1>3. BookInvariant'
  BY SubmitStep
<1>4. order'[i] = o /\ \A j \in Ids \ {i} : order'[j] = order[j]
  BY <1>1, <1>2 DEF BookInvariant, TypeOK
<1>5. o.remaining = r.quantity /\ o.sequence = nextSequence
  BY DEF ActivatedOrder
<1> HIDE DEF o, i
<1>6. level[i] = None
  BY <1>1, <1>2 DEF BookInvariant, LinkedAreQueued
<1>7. Resting' = Resting
  BY <1>1, <1>6 DEF Resting
<1>8. \A j \in Resting : j # i /\ order'[j] = order[j] /\ order[j].sequence < nextSequence
  BY <1>1, <1>4, RestingPlace
<1>9. BookEntries' = BookEntries
  BY <1>7, <1>8, BookIsKept
<1>10. IncomingEntry = None
  BY <1>1 DEF IncomingEntry
<1>11. /\ IncomingEntry' = Entry(i)' /\ IncomingEntry' # None
       /\ IncomingEntry' \in Auction!Entries
  <2>1. taker' # None
    BY <1>1, <1>2
  <2>2. /\ IncomingEntry' = Entry(taker)' /\ IncomingEntry' # None
        /\ Entry(taker)' \in Auction!Entries
    BY <1>3, <2>1, IncomingIsTakerNext DEF IncomingIsTaker
  <2>3. Entry(taker)' = Entry(i)'
    BY <1>1 DEF Entry
  <2>4. QED
    BY <2>2, <2>3
<1>12. Entry(i)'.open = r.quantity /\ Entry(i)'.rank = nextSequence /\ Entry(i)'.id = i
  BY <1>4, <1>5 DEF Entry
<1>13. \A n \in BookEntries : n.id # i /\ n.rank < nextSequence
  BY <1>8 DEF BookEntries, Entry
<1>14. QED
  BY <1>1, <1>2, <1>9, <1>10, <1>11, <1>12, <1>13 DEF Auction!Arrive, Auction!Latest

\* A resting order without a place is out of the book: cancelled, reduced to what is
\* executed, or thrown out by an increase that overflows its level.
LEMMA LeavingBook ==
  ASSUME BookInvariant, NEW i \in Resting, NEW o,
         order' = [order EXCEPT ![i] = o], level' = [level EXCEPT ![i] = None],
         active' = active \/ active' = active \ {i}
  PROVE  BookEntries' = BookEntries \ {Entry(i)} /\ Entry(i) \in BookEntries
<1>1. i \in Ids /\ Resting \subseteq Ids
  BY RestingPlace
<1>2. \A j \in Ids \ {i} : level'[j] = level[j] /\ order'[j] = order[j]
  BY <1>1 DEF BookInvariant, TypeOK
<1>3. level'[i] = None /\ active \subseteq Ids
  BY <1>1 DEF BookInvariant, TypeOK
<1>4. Resting' = Resting \ {i}
  BY <1>1, <1>2, <1>3 DEF Resting
<1>5. QED
  BY <1>1, <1>2, <1>4, BookLosesOne

\* Between calls, that withdraws it.
LEMMA LeavingWithdraws ==
  ASSUME BookInvariant, NEW i \in Resting, NEW o, taker = None, UNCHANGED <<taker, trades>>,
         order' = [order EXCEPT ![i] = o], level' = [level EXCEPT ![i] = None],
         active' = active \/ active' = active \ {i}
  PROVE  Auction!Withdraw
<1>1. BookEntries' = BookEntries \ {Entry(i)} /\ Entry(i) \in BookEntries
  BY LeavingBook
<1>2. IncomingEntry = None /\ IncomingEntry' = None
  BY DEF IncomingEntry
<1>3. QED
  BY <1>1, <1>2 DEF Auction!Withdraw

\* An order that is replaced at its own price keeps its place.
LEMMA ReplacedInBook ==
  ASSUME BookInvariant, NEW i \in Resting, NEW o,
         order' = [order EXCEPT ![i] = o], UNCHANGED <<active, level>>,
         o.side = order[i].side, o.type = order[i].type, o.price = order[i].price
  PROVE  /\ BookEntries' = (BookEntries \ {Entry(i)}) \cup {Entry(i)'}
         /\ Entry(i) \in BookEntries /\ Entry(i)' \in BookEntries'
         /\ Entry(i)' = EntryWith(i, order[i].price, o.sequence, o.remaining)
         /\ Entry(i)'.open = o.remaining /\ Entry(i)'.rank = o.sequence /\ Entry(i)'.id = i
<1>1. i \in Ids /\ Resting \subseteq Ids
  BY RestingPlace
<1>2. order'[i] = o /\ \A j \in Ids \ {i} : order'[j] = order[j]
  BY <1>1 DEF BookInvariant, TypeOK
<1>3. Resting' = Resting
  BY DEF Resting
<1>4. BookEntries' = (BookEntries \ {Entry(i)}) \cup {Entry(i)'} /\ Entry(i) \in BookEntries
  BY <1>1, <1>2, <1>3, BookChangesOne
<1>5. Entry(i)' = EntryWith(i, order[i].price, o.sequence, o.remaining)
  BY <1>2 DEF Entry, EntryWith
<1>6. QED
  BY <1>4, <1>5 DEF EntryWith

\* The rank of a new sequence number is behind every resting order's.
LEMMA NextIsLatest ==
  ASSUME BookInvariant
  PROVE  Auction!Latest(nextSequence)
<1>1. \A j \in Resting : order[j].sequence < nextSequence
  BY RestingPlace
<1>2. QED
  BY <1>1 DEF Auction!Latest, BookEntries, Entry

\* What modify passes to replace_order, and what comes back.
LEMMA ReplacingResult ==
  ASSUME BookInvariant, NEW i \in Ids, NEW price \in Prices, NEW quantity \in Quantities,
         Replaceable(i, price, quantity), NEW sequence \in Nat
  PROVE  LET o == Replace(order[i], price, quantity, sequence) IN
         /\ o.side = order[i].side /\ o.type = order[i].type /\ o.price = price
         /\ o.sequence = sequence /\ o.remaining = quantity - FilledQuantity(order[i])
         /\ FilledQuantity(order[i]) = order[i].original - order[i].remaining
         /\ quantity \in Nat /\ FilledQuantity(order[i]) \in Nat
         /\ order[i].original \in Nat /\ order[i].remaining \in Nat
<1>1. /\ order[i] \in Orders /\ order[i].remaining <= order[i].original
      /\ order[i].original \in Nat /\ order[i].remaining \in Nat
      /\ quantity >= FilledQuantity(order[i])
  BY TypesOfParts DEF BookInvariant, TypeOK, ActiveAreOpen, Replaceable, CanReplace
<1>2. quantity \in Nat
  BY MaxQuantityAssumption DEF Quantities
<1>3. QED
  BY <1>1, <1>2, ReplaceResult DEF FilledQuantity

\* A decrease changes the order where it stands.
LEMMA ShrinkingKeepsRank ==
  ASSUME BookInvariant, NEW i \in Ids, NEW price \in Prices, NEW quantity \in Quantities,
         ShrinkInPlace(i, price, quantity)
  PROVE  Auction!Shrink
<1> DEFINE o == Replace(order[i], price, quantity, order[i].sequence)
<1>1. /\ Replaceable(i, price, quantity) /\ price = order[i].price
      /\ quantity < order[i].original /\ quantity > FilledQuantity(order[i])
      /\ i \in Resting /\ taker = None
      /\ order' = [order EXCEPT ![i] = o] /\ UNCHANGED <<active, level, taker, trades>>
  BY DEF ShrinkInPlace, Shrinks, Replaceable, Idle, Resting
<1>2. order[i].sequence \in Nat
  BY <1>1, RestingPlace
<1>3. /\ o.side = order[i].side /\ o.type = order[i].type /\ o.price = order[i].price
      /\ o.sequence = order[i].sequence /\ o.remaining = quantity - FilledQuantity(order[i])
      /\ FilledQuantity(order[i]) = order[i].original - order[i].remaining
      /\ quantity \in Nat /\ FilledQuantity(order[i]) \in Nat
      /\ order[i].original \in Nat /\ order[i].remaining \in Nat
  BY <1>1, <1>2, ReplacingResult
<1> HIDE DEF o
<1>4. o.remaining \in 1 .. order[i].remaining - 1
  BY <1>1, <1>3
<1>5. /\ BookEntries' = (BookEntries \ {Entry(i)}) \cup {Entry(i)'} /\ Entry(i) \in BookEntries
      /\ Entry(i)' = EntryWith(i, order[i].price, o.sequence, o.remaining)
  BY <1>1, <1>3, ReplacedInBook
<1>6. Entry(i)' = [Entry(i) EXCEPT !.open = o.remaining]
  BY <1>3, <1>5, EntryOf, NewOpen
<1>7. IncomingEntry = None /\ IncomingEntry' = None /\ Entry(i).open = order[i].remaining
  BY <1>1 DEF IncomingEntry, Entry
<1>8. QED
  BY <1>1, <1>4, <1>5, <1>6, <1>7 DEF Auction!Shrink

\* An increase moves the order to the back, or, when it overflows, out of the book.
LEMMA GrowingLosesRank ==
  ASSUME BookInvariant, NEW i \in Ids, NEW price \in Prices, NEW quantity \in Quantities,
         GrowRequeue(i, price, quantity)
  PROVE  Auction!Grow \/ Auction!Withdraw
<1> DEFINE o == Replace(order[i], price, quantity, nextSequence)
<1>1. /\ Replaceable(i, price, quantity) /\ price = order[i].price
      /\ quantity > order[i].original
      /\ i \in Resting /\ taker = None
      /\ order' = [order EXCEPT ![i] = o] /\ UNCHANGED <<active, taker, trades>>
  BY DEF GrowRequeue, Grows, Replaceable, Idle, Resting
<1>2. level' = level \/ level' = [level EXCEPT ![i] = None]
  BY DEF GrowRequeue
<1>3. CASE level' = [level EXCEPT ![i] = None]
  BY <1>1, <1>3, LeavingWithdraws
<1>4. CASE level' = level
  <2>1. nextSequence \in Nat
    BY DEF BookInvariant, TypeOK
  <2>2. /\ o.side = order[i].side /\ o.type = order[i].type /\ o.price = order[i].price
        /\ o.sequence = nextSequence /\ o.remaining = quantity - FilledQuantity(order[i])
        /\ FilledQuantity(order[i]) = order[i].original - order[i].remaining
        /\ quantity \in Nat /\ FilledQuantity(order[i]) \in Nat
        /\ order[i].original \in Nat /\ order[i].remaining \in Nat
    BY <1>1, <2>1, ReplacingResult
  <2> HIDE DEF o
  <2>3. o.remaining > order[i].remaining
    BY <1>1, <2>2
  <2>4. /\ BookEntries' = (BookEntries \ {Entry(i)}) \cup {Entry(i)'}
        /\ Entry(i) \in BookEntries /\ Entry(i)' \in BookEntries'
        /\ Entry(i)' = EntryWith(i, order[i].price, o.sequence, o.remaining)
        /\ Entry(i)'.open = o.remaining /\ Entry(i)'.rank = o.sequence /\ Entry(i)'.id = i
    BY <1>1, <1>4, <2>2, ReplacedInBook
  <2>5. /\ IncomingEntry = None /\ IncomingEntry' = None
        /\ Entry(i).open = order[i].remaining /\ Entry(i).id = i
    BY <1>1 DEF IncomingEntry, Entry
  <2>6. Auction!Latest(Entry(i)'.rank)
    BY <2>2, <2>4, NextIsLatest
  <2>7. Entry(i)' = [Entry(i) EXCEPT !.open = Entry(i)'.open, !.rank = Entry(i)'.rank]
    <3> DEFINE e == Entry(i)
               n == Entry(i)'
    <3>1. [e EXCEPT !.open = o.remaining]
            = EntryWith(i, order[i].price, order[i].sequence, o.remaining)
      BY EntryOf, NewOpen
    <3>2. n = [EntryWith(i, order[i].price, order[i].sequence, o.remaining)
                 EXCEPT !.rank = o.sequence]
      BY <2>4, NewRank
    <3>3. n.open = o.remaining /\ n.rank = o.sequence
      BY <2>4
    <3> HIDE DEF e, n
    <3>4. [e EXCEPT !.open = n.open, !.rank = n.rank]
            = [[e EXCEPT !.open = n.open] EXCEPT !.rank = n.rank]
      OBVIOUS
    <3>5. n = [e EXCEPT !.open = n.open, !.rank = n.rank]
      BY <3>1, <3>2, <3>3, <3>4
    <3>6. QED
      BY <3>5 DEF e, n
  <2>8. QED
    BY <1>1, <2>3, <2>4, <2>5, <2>6, <2>7 DEF Auction!Grow
<1>5. QED
  BY <1>2, <1>3, <1>4

\* Another price: out of the book, and in hand again, or at its end.
LEMMA RepricingReenters ==
  ASSUME BookInvariant, BookInvariant', NEW i \in Ids, NEW price \in Prices,
         NEW quantity \in Quantities, Reprice(i, price, quantity)
  PROVE  Auction!Reenter \/ Auction!Withdraw
<1> DEFINE o == Replace(order[i], price, quantity, nextSequence)
<1>1. /\ Replaceable(i, price, quantity) /\ i \in Resting /\ taker = None
      /\ order' = [order EXCEPT ![i] = o] /\ level' = [level EXCEPT ![i] = None]
      /\ trades' = trades
  BY DEF Reprice, Replaceable, Idle, Resting, Complete
<1>2. CASE active' = active \ {i} /\ taker' = taker
  BY <1>1, <1>2, LeavingWithdraws
<1>3. CASE active' = active /\ taker' = i
  <2>1. nextSequence \in Nat /\ i # None
    BY NoneAssumption DEF BookInvariant, TypeOK
  <2>2. o.side = order[i].side /\ o.type = order[i].type /\ o.sequence = nextSequence
    BY <1>1, <2>1, ReplacingResult
  <2>3. order'[i] = o
    BY <1>1 DEF BookInvariant, TypeOK
  <2> HIDE DEF o
  <2>4. BookEntries' = BookEntries \ {Entry(i)} /\ Entry(i) \in BookEntries
    BY <1>1, <1>3, LeavingBook
  <2>5. IncomingEntry = None
    BY <1>1 DEF IncomingEntry
  <2>6. IncomingEntry' = Entry(i)' /\ IncomingEntry' # None
    <3>1. IncomingEntry' = Entry(taker)' /\ IncomingEntry' # None
      BY <1>3, <2>1, IncomingIsTakerNext DEF IncomingIsTaker
    <3>2. QED
      BY <1>3, <3>1 DEF Entry
  <2>7. /\ Entry(i)'.rank = nextSequence
        /\ Entry(i)' = [Entry(i) EXCEPT !.price = Entry(i)'.price, !.open = Entry(i)'.open,
                                        !.rank = Entry(i)'.rank]
    <3> DEFINE e == Entry(i)
               n == Entry(i)'
               e1 == EntryWith(i, o.price, order[i].sequence, order[i].remaining)
               e2 == EntryWith(i, o.price, order[i].sequence, o.remaining)
    <3>1. [e EXCEPT !.price = o.price] = e1
      BY EntryOf, NewPrice
    <3>2. [e1 EXCEPT !.open = o.remaining] = e2
      BY NewOpen
    <3>3. n = EntryWith(i, o.price, nextSequence, o.remaining)
      BY <2>2, <2>3 DEF Entry, EntryWith
    <3>4. n = [e2 EXCEPT !.rank = nextSequence]
      BY <3>3, NewRank
    <3>5. n.price = o.price /\ n.open = o.remaining /\ n.rank = nextSequence
      BY <3>3 DEF EntryWith
    <3> HIDE DEF e, n, e1, e2
    <3>6. [e EXCEPT !.price = n.price, !.open = n.open, !.rank = n.rank]
            = [[[e EXCEPT !.price = n.price] EXCEPT !.open = n.open] EXCEPT !.rank = n.rank]
      OBVIOUS
    <3>7. n = [e EXCEPT !.price = n.price, !.open = n.open, !.rank = n.rank]
      BY <3>1, <3>2, <3>4, <3>5, <3>6
    <3>8. QED
      BY <3>5, <3>7 DEF e, n
  <2>8. QED
    BY <1>1, <2>4, <2>5, <2>6, <2>7, NextIsLatest DEF Auction!Reenter
<1>4. QED
  BY <1>1, <1>2, <1>3 DEF Reprice, Complete

\* The front of the best level is ahead of every other order of its side.
LEMMA BestIsFirst ==
  ASSUME BookInvariant, NEW s \in Sides, NEW p \in levels[s], IsBest(s, p)
  PROVE  LET m == Head(queue[s][p]) IN
         /\ m \in Resting /\ order[m].side = s /\ order[m].price = p
         /\ \A j \in Resting \ {m} :
              order[j].side = s => Auction!Ahead(Entry(m), Entry(j))
<1> DEFINE m == Head(queue[s][p])
<1>1. p \in Prices /\ queue[s][p] \in Seq(Ids) /\ queue[s][p] # <<>>
  <2>1. p \in Prices
    BY DEF BookInvariant, TypeOK
  <2>2. QED
    BY <2>1, TypesOfParts DEF BookInvariant, LevelsAreNonEmpty
<1>2. 1 \in DOMAIN queue[s][p] /\ queue[s][p][1] = m
  BY <1>1, LenProperties, EmptySeq
<1> HIDE DEF m
<1>3. m \in active /\ level[m] = p /\ order[m].side = s
  BY <1>1, <1>2 DEF BookInvariant, QueuedAreLinked
<1>4. m \in Resting
  BY <1>1, <1>3, NoneAssumption, PricesAssumption DEF Resting
<1>5. order[m].price = p
  BY <1>3, <1>4, RestingPlace
<1>6. ASSUME NEW j \in Resting \ {m}, order[j].side = s
      PROVE  Auction!Ahead(Entry(m), Entry(j))
  <2>1. /\ j \in Ids /\ level[j] \in levels[s] /\ order[j].price = level[j]
        /\ level[j] # None
    BY <1>6, RestingPlace DEF Resting
  <2>2. CASE level[j] = p
    <3>1. PICK k \in DOMAIN queue[s][p] : queue[s][p][k] = j
      BY <1>6, <2>1, <2>2 DEF BookInvariant, LinkedAreQueued
    <3>2. 1 < k
      BY <1>1, <1>2, <1>6, <3>1, LenProperties
    <3>3. order[m].sequence < order[j].sequence
      BY <1>1, <1>2, <3>1, <3>2 DEF BookInvariant, OldestFirst
    <3>4. QED
      BY <1>5, <2>1, <2>2, <3>3 DEF Auction!Ahead, Entry
  <2>3. CASE level[j] # p
    <3>1. Better(s, p, level[j])
      BY <2>1, <2>3 DEF IsBest
    <3>2. QED
      BY <1>3, <1>5, <2>1, <3>1 DEF Auction!Ahead, Entry, Better, Sides
  <2>4. QED
    BY <2>2, <2>3
<1>7. QED
  BY <1>3, <1>4, <1>5, <1>6 DEF m

\* One turn of the loop is one execution.
LEMMA FillExecutes ==
  ASSUME BookInvariant, BookInvariant', MatchFront
  PROVE  Auction!Execute
<1> DEFINE far == Opposite(order[taker].side)
<1>1. /\ taker # None /\ taker' = taker /\ order[taker].remaining > 0
      /\ taker \in Ids /\ taker \notin Resting /\ far \in Sides
  BY TakerIsIncoming, TypesOfParts DEF MatchFront, BookInvariant
<1>2. \A p \in levels[far] : IsBest(far, p) => Head(queue[far][p]) \in Ids
  BY <1>1, BestIsFirst, RestingPlace
<1>3. PICK p \in levels[far], maker \in Ids :
        LET quantity == MatchQuantity(order[taker], order[maker])
            done     == order[maker].remaining = quantity
        IN
        /\ maker = Head(queue[far][p])
        /\ IsBest(far, p) /\ Reaches(order[taker], p)
        /\ order' = [order EXCEPT ![maker] = Fill(@, quantity, order[maker].price),
                                  ![taker] = Fill(@, quantity, order[maker].price)]
        /\ trades' = Append(trades,
             [buy   |-> IF far = "Sell" THEN taker ELSE maker,
              sell  |-> IF far = "Sell" THEN maker ELSE taker,
              price |-> order[maker].price, quantity |-> quantity])
        /\ active' = IF done THEN active \ {maker} ELSE active
        /\ level' = IF done THEN [level EXCEPT ![maker] = None] ELSE level
  BY <1>2 DEF MatchFront
<1> DEFINE quantity == MatchQuantity(order[taker], order[maker])
           filled == Fill(order[maker], quantity, order[maker].price)
           used == Fill(order[taker], quantity, order[maker].price)
<1>4. /\ maker \in Resting /\ order[maker].side = far /\ order[maker].price = p
      /\ \A j \in Resting \ {maker} :
           order[j].side = far => Auction!Ahead(Entry(maker), Entry(j))
  BY <1>3, <1>1, BestIsFirst
<1>5. /\ maker \in Ids /\ order[maker] \in Orders /\ order[maker].remaining \in Nat
      /\ order[maker].remaining > 0 /\ order[maker].price \in Int /\ Resting \subseteq Ids
      /\ order[taker] \in Orders /\ order[taker].remaining \in Nat
  BY <1>1, <1>4, RestingPlace, TypesOfParts DEF BookInvariant
<1>6. /\ quantity = IF order[maker].remaining < order[taker].remaining
                    THEN order[maker].remaining ELSE order[taker].remaining
      /\ quantity \in Nat /\ quantity > 0
      /\ quantity <= order[maker].remaining /\ quantity <= order[taker].remaining
  BY <1>1, <1>5 DEF MatchQuantity
<1>7. order'[maker] = filled /\ order'[taker] = used
      /\ \A j \in Ids \ {maker, taker} : order'[j] = order[j]
  BY <1>3, <1>1, <1>4, <1>5 DEF BookInvariant, TypeOK
<1>8. /\ filled.side = order[maker].side /\ filled.type = order[maker].type
      /\ filled.price = order[maker].price /\ filled.sequence = order[maker].sequence
      /\ filled.remaining = order[maker].remaining - quantity
      /\ used.side = order[taker].side /\ used.type = order[taker].type
      /\ used.price = order[taker].price /\ used.sequence = order[taker].sequence
      /\ used.remaining = order[taker].remaining - quantity
  <2> HIDE DEF quantity
  <2>1. QED
    BY <1>5, <1>6, FillResult
<1>9. PICK done \in BOOLEAN :
        /\ done <=> filled.remaining = 0
        /\ active' = IF done THEN active \ {maker} ELSE active
        /\ level' = IF done THEN [level EXCEPT ![maker] = None] ELSE level
  <2>1. filled.remaining = 0 <=> order[maker].remaining = quantity
    <3> HIDE DEF quantity, filled
    <3>1. QED
      BY <1>5, <1>6, <1>8
  <2>2. QED
    BY <1>3, <2>1
<1>10. trades' = Append(trades,
        [buy   |-> IF Entry(maker).side = "Buy" THEN Entry(maker).id ELSE Entry(taker).id,
         sell  |-> IF Entry(maker).side = "Sell" THEN Entry(maker).id ELSE Entry(taker).id,
         price |-> Entry(maker).price, quantity |-> quantity])
  <2>1. /\ Entry(maker).id = maker /\ Entry(maker).side = far
        /\ Entry(maker).price = order[maker].price /\ Entry(taker).id = taker
    BY <1>4 DEF Entry
  <2> HIDE DEF quantity, far
  <2>2. QED
    BY <1>3, <1>1, <2>1 DEF Sides, quantity, far
<1>11. Auction!Willing(Entry(taker), Entry(maker))
  <2>1. far # order[taker].side
    BY <1>5 DEF Opposite, Orders, Sides
  <2> HIDE DEF far
  <2>2. QED
    BY <1>3, <1>4, <2>1 DEF Auction!Willing, Entry, Reaches
<1> HIDE DEF filled, used, quantity, far
<1> DEFINE e == Entry(maker)
           left == [e EXCEPT !.open = @ - quantity]
<1>12. e = EntryWith(maker, order[maker].price, order[maker].sequence, order[maker].remaining)
       /\ e.open = order[maker].remaining
  BY DEF Entry, EntryWith
<1>13. left = EntryWith(maker, order[maker].price, order[maker].sequence, filled.remaining)
       /\ left.open = filled.remaining
  <2>1. left = [e EXCEPT !.open = filled.remaining]
    BY <1>8, <1>12
  <2>2. left = EntryWith(maker, order[maker].price, order[maker].sequence, filled.remaining)
    BY <1>12, <2>1, NewOpen
  <2>3. QED
    BY <2>2 DEF EntryWith
<1>14. Entry(maker)' = left
  <2>1. Entry(maker)'
          = EntryWith(maker, order[maker].price, order[maker].sequence, filled.remaining)
    BY <1>7, <1>8 DEF Entry, EntryWith
  <2> HIDE DEF left
  <2>2. QED
    BY <1>13, <2>1
<1>15. BookEntries' = (BookEntries \ {e}) \cup (IF left.open > 0 THEN {left} ELSE {})
       /\ e \in BookEntries
  <2>1. \A j \in Resting \ {maker} : order'[j] = order[j]
    BY <1>1, <1>5, <1>7
  <2>2. p # None /\ maker # taker
    BY <1>1, <1>4, <1>5, NoneAssumption, PricesAssumption
  <2>3. CASE done
    <3>1. \A j \in Ids \ {maker} : level'[j] = level[j]
      BY <1>9, <2>3 DEF BookInvariant, TypeOK
    <3>2. Resting' = Resting \ {maker}
      BY <1>9, <2>3, <3>1 DEF Resting, BookInvariant, TypeOK
    <3>3. left.open = 0
      BY <1>9, <1>13, <2>3
    <3>4. QED
      BY <1>4, <2>1, <3>2, <3>3, BookLosesOne
  <2>4. CASE ~done
    <3>1. Resting' = Resting
      BY <1>9, <2>4 DEF Resting
    <3>2. left.open > 0
      BY <1>5, <1>6, <1>8, <1>9, <1>13, <2>4
    <3>3. BookEntries' = (BookEntries \ {e}) \cup {Entry(maker)'} /\ e \in BookEntries
      BY <1>4, <2>1, <3>1, BookChangesOne
    <3> HIDE DEF e, left
    <3>4. QED
      BY <1>14, <3>2, <3>3
  <2>5. QED
    BY <2>3, <2>4
<1>16. /\ IncomingEntry = Entry(taker) /\ IncomingEntry # None
       /\ IncomingEntry' = [Entry(taker) EXCEPT !.open = @ - quantity]
       /\ Entry(taker).open = order[taker].remaining
  <2>1. Entry(taker)
          = EntryWith(taker, order[taker].price, order[taker].sequence, order[taker].remaining)
        /\ Entry(taker).open = order[taker].remaining
    BY DEF Entry, EntryWith
  <2>2. [Entry(taker) EXCEPT !.open = @ - quantity]
          = EntryWith(taker, order[taker].price, order[taker].sequence, used.remaining)
    <3>1. [Entry(taker) EXCEPT !.open = @ - quantity]
            = [Entry(taker) EXCEPT !.open = used.remaining]
      BY <1>8, <2>1
    <3>2. QED
      BY <2>1, <3>1, NewOpen
  <2>3. Entry(taker)'
          = EntryWith(taker, order[taker].price, order[taker].sequence, used.remaining)
    BY <1>1, <1>7, <1>8 DEF Entry, EntryWith
  <2>4. IncomingEntry' = Entry(taker)'
    BY <1>1 DEF IncomingEntry
  <2>5. QED
    BY <1>1, <2>1, <2>2, <2>3, <2>4, TakerIsIncoming
<1>17. \A n \in Auction!SameSide(e) \ {e} : Auction!Ahead(e, n)
  <2>1. ASSUME NEW n \in BookEntries, n.side = e.side, n # e
        PROVE  Auction!Ahead(e, n)
    <3>1. PICK j \in Resting : n = Entry(j)
      BY DEF BookEntries
    <3>2. j # maker /\ order[j].side = far
      BY <1>4, <2>1, <3>1 DEF Entry
    <3>3. QED
      BY <1>4, <3>1, <3>2
  <2>2. QED
    BY <2>1 DEF Auction!SameSide
<1>18. quantity = IF e.open < Entry(taker).open THEN e.open ELSE Entry(taker).open
  BY <1>6, <1>12, <1>16
<1> HIDE DEF e, left
<1>19. QED
  BY <1>1, <1>10, <1>11, <1>15, <1>16, <1>17, <1>18 DEF Auction!Execute, left, e

\* When the loop is over with something left, no order of the book is willing.
LEMMA NobodyWilling ==
  ASSUME BookInvariant, MatchingOver, order[taker].remaining > 0
  PROVE  \A m \in BookEntries : ~Auction!Willing(Entry(taker), m)
<1> DEFINE far == Opposite(order[taker].side)
<1>1. taker \in Ids /\ order[taker] \in Orders /\ far \in Sides
  BY TakerIsIncoming, TypesOfParts DEF MatchingOver, BookInvariant
<1>2. SUFFICES ASSUME NEW j \in Resting, Auction!Willing(Entry(taker), Entry(j))
               PROVE  FALSE
  BY DEF BookEntries
<1>3. order[j].side # order[taker].side /\ Reaches(order[taker], order[j].price)
  BY <1>2 DEF Auction!Willing, Entry, Reaches
<1>4. order[j].side = far /\ order[j].price \in levels[far] /\ order[j].price \in Int
  <2>1. order[j].side \in Sides /\ order[taker].side \in Sides
    BY <1>1, RestingPlace DEF Orders
  <2>2. order[j].side = far
    BY <1>3, <2>1 DEF Opposite, Sides
  <2>3. QED
    BY <2>2, RestingPlace
<1> HIDE DEF far
<1>5. PICK p \in levels[far] : IsBest(far, p) /\ ~Reaches(order[taker], p)
  BY <1>4 DEF MatchingOver, far
<1>6. p = order[j].price \/ Better(far, p, order[j].price)
  BY <1>4, <1>5 DEF IsBest
<1>7. p \in Int /\ order[taker].price \in Int
  <2>1. p \in Prices
    BY <1>1, <1>5 DEF BookInvariant, TypeOK
  <2>2. QED
    BY <1>1, <2>1, PricesAssumption DEF Orders
<1>8. far = "Buy" <=> order[taker].side = "Sell"
  BY <1>1 DEF far, Opposite, Orders, Sides
<1>9. QED
  BY <1>3, <1>4, <1>5, <1>6, <1>7, <1>8 DEF Reaches, Better

\* The end of the loop settles the incoming order, unless its level overflows.
LEMMA LoopSettles ==
  ASSUME BookInvariant, BookInvariant', CompleteTaker \/ CancelRemainder \/ Rest
  PROVE  Auction!Settle
<1>1. /\ MatchingOver /\ taker # None /\ taker' = None /\ trades' = trades
  BY DEF CompleteTaker, CancelRemainder, Rest, MatchingOver
<1>2. /\ IncomingEntry = Entry(taker) /\ IncomingEntry # None
      /\ taker \in active /\ taker \in Ids /\ level[taker] = None /\ taker \notin Resting
      /\ order[taker] \in Orders /\ order[taker].remaining \in Nat
  BY <1>1, TakerIsIncoming, TypesOfParts DEF BookInvariant
<1>3. /\ IncomingEntry' = None
      /\ Entry(taker).open = order[taker].remaining /\ Entry(taker).type = order[taker].type
  BY <1>1 DEF IncomingEntry, Entry
<1>4. Entry(taker).open = 0 \/ \A m \in BookEntries : ~Auction!Willing(Entry(taker), m)
  BY <1>1, <1>2, <1>3, NobodyWilling
<1>5. Resting \subseteq Ids
  BY RestingPlace
<1>6. CASE CompleteTaker \/ CancelRemainder
  <2>1. /\ ~(order[taker].remaining > 0 /\ order[taker].type = "Limit")
        /\ active' = active \ {taker} /\ level' = [level EXCEPT ![taker] = None]
        /\ order' = order \/ \E o : order' = [order EXCEPT ![taker] = o]
    BY <1>6 DEF CompleteTaker, CancelRemainder, Complete
  <2>2. \A j \in Ids : level'[j] = level[j]
    BY <1>2, <2>1 DEF BookInvariant, TypeOK
  <2>3. Resting' = Resting
    BY <1>2, <2>1, <2>2 DEF Resting, BookInvariant, TypeOK
  <2>4. \A j \in Resting : order'[j] = order[j]
    BY <1>2, <1>5, <2>1 DEF BookInvariant, TypeOK
  <2>5. BookEntries' = BookEntries
    BY <2>3, <2>4, BookIsKept
  <2>6. QED
    BY <1>1, <1>2, <1>3, <1>4, <2>1, <2>5 DEF Auction!Settle
<1>7. CASE Rest
  <2>1. /\ order[taker].remaining > 0 /\ order[taker].type = "Limit"
        /\ active' = active /\ level' = [level EXCEPT ![taker] = order[taker].price]
        /\ order' = order
    BY <1>7 DEF Rest
  <2>2. order[taker].price # None
    <3>1. order[taker].price \in Prices
      BY <1>2, <2>1 DEF BookInvariant, ActiveAreOpen
    <3>2. \A p \in Prices : p # None
      BY NoneAssumption, PricesAssumption
    <3>3. QED
      BY <3>1, <3>2
  <2>3. Resting' = Resting \cup {taker}
    BY <1>2, <2>1, <2>2 DEF Resting, BookInvariant, TypeOK
  <2>4. BookEntries' = BookEntries \cup {Entry(taker)}
    BY <2>1, <2>3 DEF BookEntries, Entry
  <2>5. QED
    BY <1>1, <1>2, <1>3, <1>4, <2>1, <2>4 DEF Auction!Settle
<1>8. QED
  BY <1>6, <1>7
-----------------------------------------------------------------------------
(***************************************************************************)
(* The lemmas together: every step of the engine but the overflow of a     *)
(* level by what comes to rest.                                            *)
(***************************************************************************)
AuctionStep == [Auction!AuctionNext]_<<BookEntries, IncomingEntry, trades>>

\* The matching loop.
LEMMA LoopIsAuction ==
  ASSUME BookInvariant, BookInvariant', Match, ~RestOverflows
  PROVE  AuctionStep
BY FillExecutes, LoopSettles DEF Match, Matching, AuctionStep, Auction!AuctionNext

\* A cancel withdraws the order or throws.
LEMMA CancelIsAuction ==
  ASSUME BookInvariant, NEW i \in Ids, Cancel(i)
  PROVE  AuctionStep
<1>1. CASE CancelOrder(i)
  <2>1. /\ i \in Resting /\ taker = None /\ UNCHANGED <<taker, trades>>
        /\ order' = [order EXCEPT ![i] = Cancelled(order[i])]
        /\ level' = [level EXCEPT ![i] = None] /\ active' = active \ {i}
    BY <1>1 DEF CancelOrder, Idle, Complete, Resting
  <2>2. Auction!Withdraw
    BY <2>1, LeavingWithdraws
  <2>3. QED
    BY <2>2 DEF AuctionStep, Auction!AuctionNext
<1>2. CASE MissingLevel(i)
  BY <1>2, QuietIsHidden DEF MissingLevel, AuctionStep
<1>3. QED
  BY <1>1, <1>2 DEF Cancel

\* Each branch of replace_order has its own step.
LEMMA ModifyIsAuction ==
  ASSUME BookInvariant, BookInvariant', NEW i \in Ids, NEW m \in ModifyRequests, Modify(i, m)
  PROVE  AuctionStep
<1> DEFINE p == TargetPrice(i, m)
           q == TargetQuantity(i, m)
<1>1. ReplaceOrder(i, p, q) /\ p \in Prices /\ q \in Quantities
  BY ModifyTargets DEF Modify
<1> HIDE DEF p, q
<1>2. CASE ShrinkInPlace(i, p, q)
  BY <1>1, <1>2, ShrinkingKeepsRank DEF AuctionStep, Auction!AuctionNext
<1>3. CASE ShrinkNullLevel(i, p, q)
  BY <1>3, QuietIsHidden DEF ShrinkNullLevel, AuctionStep
<1>4. CASE GrowRequeue(i, p, q)
  BY <1>1, <1>4, GrowingLosesRank DEF AuctionStep, Auction!AuctionNext
<1>5. CASE ShrinkToExecuted(i, p, q)
  <2>1. /\ i \in Resting /\ taker = None /\ UNCHANGED <<taker, trades>>
        /\ order' = [order EXCEPT ![i] = Replace(order[i], p, q, order[i].sequence)]
        /\ level' = [level EXCEPT ![i] = None] /\ active' = active \ {i}
    BY <1>5 DEF ShrinkToExecuted, Replaceable, Idle, Complete, Resting
  <2>2. Auction!Withdraw
    BY <2>1, LeavingWithdraws
  <2>3. QED
    BY <2>2 DEF AuctionStep, Auction!AuctionNext
<1>6. CASE Reprice(i, p, q)
  BY <1>1, <1>6, RepricingReenters DEF AuctionStep, Auction!AuctionNext
<1>7. CASE MissingLevel(i)
  BY <1>7, QuietIsHidden DEF MissingLevel, AuctionStep
<1>8. QED
  BY <1>1, <1>2, <1>3, <1>4, <1>5, <1>6, <1>7 DEF ReplaceOrder

\* Whatever a client calls.
LEMMA EveryStepIsAuction ==
  ASSUME BookInvariant, BookInvariant', [Next]_vars, [~RestOverflows]_vars
  PROVE  AuctionStep
<1>1. ASSUME NEW r \in Requests, RejectSubmit(r) PROVE AuctionStep
  BY <1>1, QuietIsHidden DEF RejectSubmit, AuctionStep
<1>2. CASE Refuse
  BY <1>2, QuietIsHidden DEF Refuse, AuctionStep
<1>3. CASE UNCHANGED vars
  BY <1>3, QuietIsHidden DEF vars, AuctionStep
<1>4. ASSUME NEW r \in Requests, Submit(r) PROVE AuctionStep
  BY <1>4, RequestsAssumption, SubmitArrives DEF AuctionStep, Auction!AuctionNext
<1>5. QED
  BY <1>1, <1>2, <1>3, <1>4, CancelIsAuction, ModifyIsAuction, LoopIsAuction DEF Next

\* Both start without orders and trades.
LEMMA AuctionStarts ==
  ASSUME Init
  PROVE  Auction!AuctionInit
<1>1. active = {} /\ taker = None /\ trades = <<>>
  BY DEF Init, BookInit
<1>2. QED
  BY <1>1 DEF Auction!AuctionInit, BookEntries, IncomingEntry, Resting
-----------------------------------------------------------------------------
\* As long as no remainder that comes to rest overflows its level, clients see price-time
\* priority: for every set of ids, prices and requests, every fill is with the resting
\* order that is first in price and then in time, at its price; a decrease keeps an order's
\* rank, an increase or another price loses it; and nothing rests that could trade.
THEOREM PriceTimePriorityHolds ==
  Spec /\ [][~RestOverflows]_vars => ImplementsPriceTimePriority
<1>1. Init => Auction!AuctionInit
  BY AuctionStarts
<1>2. BookInvariant /\ BookInvariant' /\ [Next]_vars /\ [~RestOverflows]_vars =>
        [Auction!AuctionNext]_<<BookEntries, IncomingEntry, trades>>
  BY EveryStepIsAuction DEF AuctionStep
<1>3. QED
  BY <1>1, <1>2, BookIsConsistent, PTL
  DEF Spec, ImplementsPriceTimePriority, Auction!AuctionSpec, Auction!auctionVars
-----------------------------------------------------------------------------
(***************************************************************************)
(* What a step of the engine may never do, for every set of ids, prices    *)
(* and requests and every MaxQuantity: change what has ended, or lose an   *)
(* order other than by the overflow of a level.  Both follow from          *)
(* BookInvariant, for they need to know which orders a step can reach: the *)
(* order in hand, the front of a list, and an order that has a level.      *)
(*                                                                         *)
(* Then two invariants that are stated with sums: that what the orders say *)
(* was filled is what the tape says, and that validate_invariants passes.  *)
(***************************************************************************)
\* What a step keeps of the completed and rejected orders and of the tape.
HistoryStep ==
  /\ completed \subseteq completed' /\ rejected \subseteq rejected'
  /\ \A i \in completed : order'[i] = order[i]
  /\ SeqX!IsPrefix(trades, trades')

\* What a step does to the orders that are active in no level.
StrandingStep ==
  /\ Stranded \subseteq Stranded'
  /\ Stranded # Stranded' => error' = "overflow"

StepIsSound == HistoryStep /\ StrandingStep

\* A step without a trade.
LEMMA TapeIsKept ==
  ASSUME TypeOK, trades' = trades
  PROVE  SeqX!IsPrefix(trades, trades')
<1>1. Len(trades) \in Nat
  BY LenProperties DEF TypeOK
<1>2. QED
  BY <1>1 DEF SeqX!IsPrefix

\* A step with a trade.
LEMMA TapeGrows ==
  ASSUME TypeOK, NEW trade \in Trades, trades' = Append(trades, trade)
  PROVE  SeqX!IsPrefix(trades, trades')
<1>1. trades \in Seq(Trades) /\ Len(trades) \in Nat /\ Len(trades') = Len(trades) + 1
  BY AppendProperties, LenProperties DEF TypeOK
<1>2. \A k \in 1 .. Len(trades) : trades'[k] = trades[k]
  BY <1>1, AppendProperties
<1>3. SubSeq(trades, 1, Len(trades)) = SubSeq(trades', 1, Len(trades))
  BY <1>1, <1>2
<1>4. QED
  BY <1>1, <1>3 DEF SeqX!IsPrefix

\* A call that is refused or throws at once, and a step outside the engine.
LEMMA QuietIsSound ==
  ASSUME BookInvariant, rejected \subseteq rejected',
         UNCHANGED <<order, active, completed, level, trades, taker>>
  PROVE  StepIsSound
BY TapeIsKept DEF BookInvariant, StepIsSound, HistoryStep, StrandingStep, Stranded

\* A new id, in no map before, goes in hand.
LEMMA SubmitIsSound ==
  ASSUME BookInvariant, NEW r \in OrderRequests, Submit(r)
  PROVE  StepIsSound
<1>1. /\ r.id \notin active \cup completed /\ taker = None /\ taker' = r.id
      /\ \E o : order' = [order EXCEPT ![r.id] = o]
      /\ active' = active \cup {r.id}
      /\ UNCHANGED <<completed, level, trades, rejected>>
  BY DEF Submit, AddOrder, Idle, HasUsedOrderId
<1>2. HistoryStep
  BY <1>1, TapeIsKept DEF BookInvariant, TypeOK, HistoryStep
<1>3. None \notin active
  BY NoneAssumption DEF BookInvariant, TypeOK
<1>4. StrandingStep
  BY <1>1, <1>3 DEF StrandingStep, Stranded
<1>5. QED
  BY <1>2, <1>4 DEF StepIsSound

\* An order that ends was the order in hand, or had a level.
LEMMA EndingIsSound ==
  ASSUME BookInvariant, NEW i \in active, NEW o,
         taker = i \/ (taker = None /\ level[i] # None), taker' = None,
         order' = [order EXCEPT ![i] = o], active' = active \ {i},
         completed' = completed \cup {i}, level' = [level EXCEPT ![i] = None],
         UNCHANGED <<trades, rejected>>
  PROVE  StepIsSound
<1>1. HistoryStep
  BY TapeIsKept DEF BookInvariant, TypeOK, OneMapPerId, HistoryStep
<1>2. i \in Ids /\ None \notin active /\ \A j \in active \ {i} : level'[j] = level[j]
  BY NoneAssumption DEF BookInvariant, TypeOK
<1>3. Stranded' = Stranded
  <2>1. Stranded' = {j \in active \ {i} : level[j] = None}
    BY <1>2 DEF Stranded
  <2>2. Stranded = {j \in active \ {i} : level[j] = None}
    BY <1>2 DEF Stranded
  <2>3. QED
    BY <2>1, <2>2
<1>4. QED
  BY <1>1, <1>3 DEF StepIsSound, StrandingStep

\* An order that stays is changed, leaves a level for the loop, or joins one after it.
LEMMA StayingIsSound ==
  ASSUME BookInvariant, NEW i \in active, NEW o, NEW p \in Prices \cup {None},
         level[i] # None \/ taker = i, taker \in {None, i},
         \/ taker' = i
         \/ taker' = None /\ (p # None \/ error' = "overflow"),
         order' = [order EXCEPT ![i] = o], level' = [level EXCEPT ![i] = p],
         UNCHANGED <<active, completed, trades, rejected>>
  PROVE  StepIsSound
<1>1. HistoryStep
  BY TapeIsKept DEF BookInvariant, TypeOK, OneMapPerId, HistoryStep
<1>2. /\ i \in Ids /\ None \notin active
      /\ level'[i] = p /\ \A j \in active \ {i} : level'[j] = level[j]
  BY NoneAssumption DEF BookInvariant, TypeOK
<1>3. Stranded = {j \in active \ {i} : level[j] = None}
  BY <1>2 DEF Stranded
<1>4. Stranded' \ {i} = {j \in active \ {i} : level[j] = None}
  BY <1>2 DEF Stranded
<1>5. i \in Stranded' => error' = "overflow"
  BY <1>2 DEF Stranded
<1>6. Stranded \subseteq Stranded'
  BY <1>3, <1>4
<1>7. Stranded # Stranded' => i \in Stranded'
  BY <1>3, <1>4
<1>8. QED
  BY <1>1, <1>5, <1>6, <1>7 DEF StepIsSound, StrandingStep

\* A fill changes the order in hand and the front of a list, both active.
LEMMA FillIsSound ==
  ASSUME BookInvariant, MatchFront, UNCHANGED rejected
  PROVE  StepIsSound
<1> DEFINE far == Opposite(order[taker].side)
<1>1. PICK p \in levels[far] :
        LET maker    == Head(queue[far][p])
            quantity == MatchQuantity(order[taker], order[maker])
            done     == order[maker].remaining = quantity
        IN
        /\ queue[far][p] # <<>>
        /\ \E a, b : order' = [order EXCEPT ![maker] = a, ![taker] = b]
        /\ \E trade : trades' = Append(trades, trade)
        /\ active' = IF done THEN active \ {maker} ELSE active
        /\ completed' = IF done THEN completed \cup {maker} ELSE completed
        /\ level' = IF done THEN [level EXCEPT ![maker] = None] ELSE level
  BY DEF MatchFront
<1> DEFINE maker == Head(queue[far][p])
<1>2. /\ taker \in active /\ taker \in Ids /\ taker' = taker /\ taker # None
      /\ far \in Sides /\ p \in Prices
  BY TypesOfParts DEF MatchFront, BookInvariant, TakerInHand, TypeOK
<1>3. maker \in active /\ maker \in Ids /\ level[maker] = p
  <2>1. queue[far][p] \in Seq(Ids) /\ queue[far][p] # <<>>
    BY <1>1, <1>2, TypesOfParts DEF BookInvariant
  <2>2. 1 \in DOMAIN queue[far][p] /\ queue[far][p][1] = maker
    BY <2>1, LenProperties, EmptySeq
  <2> HIDE DEF maker, far
  <2>3. maker \in active /\ level[maker] = p
    BY <1>2, <2>2 DEF BookInvariant, QueuedAreLinked
  <2>4. QED
    BY <2>3 DEF BookInvariant, TypeOK
<1>4. PICK done \in BOOLEAN :
        /\ \E a, b : order' = [order EXCEPT ![maker] = a, ![taker] = b]
        /\ \E trade : trades' = Append(trades, trade)
        /\ active' = IF done THEN active \ {maker} ELSE active
        /\ completed' = IF done THEN completed \cup {maker} ELSE completed
        /\ level' = IF done THEN [level EXCEPT ![maker] = None] ELSE level
  BY <1>1
<1> HIDE DEF maker, far
<1>5. \A i \in completed : order'[i] = order[i]
  BY <1>2, <1>3, <1>4 DEF BookInvariant, OneMapPerId, TypeOK
<1>6. SeqX!IsPrefix(trades, trades')
  <2>1. PICK trade : trades' = Append(trades, trade)
    BY <1>4
  <2>2. trades' \in Seq(Trades) /\ trades \in Seq(Trades)
    BY MatchFrontStep DEF BookInvariant, TypeOK
  <2>3. trade \in Trades
    <3>1. trades'[Len(trades) + 1] = trade /\ Len(trades') = Len(trades) + 1 /\ Len(trades) \in Nat
      BY <2>1, <2>2, LenProperties
    <3>2. QED
      BY <2>2, <3>1, ElementOfSeq
  <2>4. QED
    BY <2>1, <2>3, TapeGrows DEF BookInvariant
<1>7. HistoryStep
  BY <1>4, <1>5, <1>6 DEF HistoryStep
<1>8. Stranded' = Stranded
  <2>1. p # None
    BY <1>2, NoneAssumption, PricesAssumption
  <2>2. CASE ~done
    BY <1>2, <1>4, <2>2 DEF Stranded
  <2>3. CASE done
    <3>1. \A j \in active \ {maker} : level'[j] = level[j]
      BY <1>3, <1>4, <2>3 DEF BookInvariant, TypeOK
    <3>2. Stranded' = {j \in active \ {maker} : level[j] = None} \ {taker}
      BY <1>2, <1>4, <2>3, <3>1 DEF Stranded
    <3>3. QED
      BY <1>3, <2>1, <3>2 DEF Stranded
  <2>4. QED
    BY <2>2, <2>3
<1>9. QED
  BY <1>7, <1>8 DEF StepIsSound, StrandingStep

\* The matching loop, its ends included.
LEMMA LoopIsSound ==
  ASSUME BookInvariant, Match
  PROVE  StepIsSound
<1> USE DEF Match
<1>1. CASE MatchFront
  BY <1>1, FillIsSound
<1>2. CASE CompleteTaker
  <2>1. taker \in active /\ order' = [order EXCEPT ![taker] = order[taker]]
    BY <1>2 DEF CompleteTaker, MatchingOver, BookInvariant, TakerInHand, TypeOK
  <2>2. QED
    BY <1>2, <2>1, EndingIsSound DEF CompleteTaker, Complete
<1>3. CASE CancelRemainder
  <2>1. taker \in active
    BY <1>3 DEF CancelRemainder, MatchingOver, BookInvariant, TakerInHand
  <2>2. QED
    BY <1>3, <2>1, EndingIsSound DEF CancelRemainder, Complete
<1>4. CASE Rest
  <2>1. taker \in active /\ order' = [order EXCEPT ![taker] = order[taker]]
    BY <1>4 DEF Rest, MatchingOver, BookInvariant, TakerInHand, TypeOK
  <2>2. order[taker].price \in Prices /\ order[taker].price # None
    BY <1>4, <2>1, NoneAssumption, PricesAssumption DEF Rest, BookInvariant, ActiveAreOpen
  <2>3. QED
    BY <1>4, <2>1, <2>2, StayingIsSound DEF Rest
<1>5. CASE RestOverflows
  <2>1. /\ taker \in active /\ order' = [order EXCEPT ![taker] = order[taker]]
        /\ level' = [level EXCEPT ![taker] = None]
    BY <1>5 DEF RestOverflows, MatchingOver, BookInvariant, TakerInHand, TypeOK
  <2>2. QED
    BY <1>5, <2>1, StayingIsSound DEF RestOverflows
<1>6. QED
  BY <1>1, <1>2, <1>3, <1>4, <1>5 DEF Matching

\* A cancel ends the order or throws.
LEMMA CancelIsSound ==
  ASSUME BookInvariant, NEW i \in Ids, Cancel(i)
  PROVE  StepIsSound
<1>1. CASE CancelOrder(i)
  BY <1>1, EndingIsSound DEF Cancel, CancelOrder, Idle, Complete
<1>2. CASE MissingLevel(i)
  BY <1>2, QuietIsSound DEF Cancel, MissingLevel
<1>3. QED
  BY <1>1, <1>2 DEF Cancel

\* Each branch of replace_order ends the order, keeps it, or throws.
LEMMA ModifyIsSound ==
  ASSUME BookInvariant, NEW i \in Ids, NEW m \in ModifyRequests, Modify(i, m)
  PROVE  StepIsSound
<1> DEFINE p == TargetPrice(i, m)
           q == TargetQuantity(i, m)
<1>1. ReplaceOrder(i, p, q) /\ UNCHANGED rejected /\ i \in active
  BY DEF Modify, Modifiable
<1>2. level = [level EXCEPT ![i] = level[i]] /\ level[i] \in Prices \cup {None}
  BY DEF BookInvariant, TypeOK
<1> HIDE DEF p, q
<1>3. CASE ShrinkInPlace(i, p, q)
  BY <1>1, <1>2, <1>3, StayingIsSound DEF ShrinkInPlace, Replaceable, Idle
<1>4. CASE ShrinkNullLevel(i, p, q)
  BY <1>1, <1>4, QuietIsSound DEF ShrinkNullLevel
<1>5. CASE GrowRequeue(i, p, q)
  BY <1>1, <1>2, <1>5, StayingIsSound DEF GrowRequeue, Replaceable, Idle
<1>6. CASE ShrinkToExecuted(i, p, q)
  BY <1>1, <1>6, EndingIsSound DEF ShrinkToExecuted, Replaceable, Idle, Complete
<1>7. CASE Reprice(i, p, q)
  <2>1. CASE Complete(i) /\ UNCHANGED taker
    BY <1>1, <1>7, <2>1, EndingIsSound DEF Reprice, Replaceable, Idle, Complete
  <2>2. CASE level' = [level EXCEPT ![i] = None] /\ taker' = i /\ UNCHANGED <<active, completed>>
    BY <1>1, <1>7, <2>2, StayingIsSound DEF Reprice, Replaceable, Idle
  <2>3. QED
    BY <1>7, <2>1, <2>2 DEF Reprice
<1>8. CASE MissingLevel(i)
  BY <1>1, <1>8, QuietIsSound DEF MissingLevel
<1>9. QED
  BY <1>1, <1>3, <1>4, <1>5, <1>6, <1>7, <1>8 DEF ReplaceOrder

\* Whatever a client calls.
LEMMA EveryStepIsSound ==
  ASSUME BookInvariant, AnyStep
  PROVE  StepIsSound
<1>1. ASSUME NEW r \in OrderRequests, RejectSubmit(r) PROVE StepIsSound
  BY <1>1, QuietIsSound DEF RejectSubmit
<1>2. CASE Refuse
  BY <1>2, QuietIsSound DEF Refuse
<1>3. CASE UNCHANGED vars
  BY <1>3, QuietIsSound DEF vars
<1>4. QED
  BY <1>1, <1>2, <1>3, SubmitIsSound, CancelIsSound, ModifyIsSound, LoopIsSound DEF AnyStep
-----------------------------------------------------------------------------
\* History is final: no submit, cancel, modify or fill, thrown out of or not, takes an id
\* out of the completed or the rejected orders, touches a completed order, or changes a
\* trade that was reported.
THEOREM HistoryStaysFinal == Spec => HistoryIsFinal
<1>1. BookInvariant /\ [Next]_vars => [HistoryStep]_vars
  BY NextIsAnyStep, EveryStepIsSound DEF StepIsSound
<1>2. QED
  BY <1>1, BookIsConsistent, PTL DEF Spec, HistoryIsFinal, HistoryStep

\* An order that is active in no level was stranded by the overflow of a level, and no
\* call reaches it again.
THEOREM OnlyOverflowsStrand == Spec => OnlyOverflowStrands
<1>1. BookInvariant /\ [Next]_vars => [StrandingStep]_vars
  BY NextIsAnyStep, EveryStepIsSound DEF StepIsSound
<1>2. QED
  BY <1>1, BookIsConsistent, PTL DEF Spec, OnlyOverflowStrands, StrandingStep
-----------------------------------------------------------------------------
(***************************************************************************)
(* An order's filled quantity and notional are the sums of its trades.  A  *)
(* trade is added to the tape and to both of its parties in one step; that *)
(* a new order starts with nothing needs that no trade names an order the  *)
(* book does not know (TradesAreKnown).                                    *)
(***************************************************************************)
\* The sum as the models write it.
LEMMA SumOfTheModel ==
  ASSUME NEW f, NEW S
  PROVE  SeqX!SumFunctionOnSet(f, S) = SumOver(f, S)
BY DEF SeqX!SumFunctionOnSet, SeqX!FoldFunctionOnSet, SeqX!MapThenFoldSet, SumOver,
       Fn!SumFunctionOnSet, Fn!FoldFunctionOnSet, Fn!MapThenFoldSet

\* What a trade is worth, of each trade of the tape.
TradeQuantity == [k \in DOMAIN trades |-> trades[k].quantity]
TradeNotional == [k \in DOMAIN trades |-> trades[k].price * trades[k].quantity]

\* The filled quantity and the notional of one order.
FillsOf(i) ==
  /\ FilledQuantity(order[i]) = SumOver(TradeQuantity, TradesOf(i))
  /\ order[i].notional = SumOver(TradeNotional, TradesOf(i))

\* The parties of a trade are orders the book knows, and not one order twice.
TradesAreKnown ==
  \A k \in DOMAIN trades :
    /\ trades[k].buy \in active \cup completed /\ trades[k].sell \in active \cup completed
    /\ trades[k].buy # trades[k].sell

\* What makes FillsAreTrades inductive.
TapeInvariant == TradesAreKnown /\ \A i \in active \cup completed : FillsOf(i)

\* The tape is finite, and what is summed over it are integers.
TapeFacts ==
  /\ trades \in Seq(Trades)
  /\ DOMAIN trades = 1 .. Len(trades) /\ Len(trades) \in Nat
  /\ \A k \in DOMAIN trades : trades[k] \in Trades
  /\ \A k \in DOMAIN trades : /\ TradeQuantity[k] = trades[k].quantity
                              /\ TradeQuantity[k] \in Nat
                              /\ TradeNotional[k] = trades[k].price * trades[k].quantity
                              /\ TradeNotional[k] \in Int
  /\ \A i : TradesOf(i) \subseteq DOMAIN trades /\ IsFiniteSet(TradesOf(i))

\* It is so by the types of the book.
LEMMA TapeTypes == TypeOK => TapeFacts
<1> SUFFICES ASSUME TypeOK PROVE TapeFacts
  OBVIOUS
<1>1. trades \in Seq(Trades)
  BY DEF TypeOK
<1>2. DOMAIN trades = 1 .. Len(trades) /\ Len(trades) \in Nat
  BY <1>1, LenProperties
<1>3. \A k \in DOMAIN trades : trades[k] \in Trades
  BY <1>1, ElementOfSeq, <1>2
<1>4. \A k \in DOMAIN trades : /\ TradeQuantity[k] = trades[k].quantity
                               /\ TradeQuantity[k] \in Nat
                               /\ TradeNotional[k] = trades[k].price * trades[k].quantity
                               /\ TradeNotional[k] \in Int
  <2> SUFFICES ASSUME NEW k \in DOMAIN trades
               PROVE  /\ trades[k].quantity \in Nat
                      /\ trades[k].price * trades[k].quantity \in Int
    BY DEF TradeQuantity, TradeNotional
  <2>1. trades[k].quantity \in Nat /\ trades[k].price \in Nat
    <3>1. trades[k].price \in Prices /\ trades[k].quantity \in 1 .. MaxQuantity
      BY <1>3 DEF Trades
    <3>2. trades[k].price \in Nat
      BY <3>1, PricesAssumption
    <3>3. trades[k].quantity \in Nat
      BY <3>1, MaxQuantityAssumption
    <3>4. QED
      BY <3>2, <3>3
  <2>2. \A a, b \in Nat : a * b \in Int
    OBVIOUS
  <2>3. QED
    BY <2>1, <2>2
<1>5. \A i : TradesOf(i) \subseteq DOMAIN trades
  BY DEF TradesOf
<1>6. IsFiniteSet(1 .. Len(trades))
  BY <1>2, FS_Interval
<1>7. \A i : IsFiniteSet(TradesOf(i))
  BY <1>2, <1>5, <1>6, FS_Subset
<1>8. QED
  BY <1>1, <1>2, <1>3, <1>4, <1>5, <1>7 DEF TapeFacts

\* Also after a step.
LEMMA TapeTypesNext == TypeOK' => TapeFacts'
<1>1. TypeOK => TapeFacts
  BY TapeTypes
<1>2. QED
  BY <1>1, PTL

\* A new trade is a trade of its two parties only, and leaves the others' sums alone.
LEMMA TradesWithOneMore ==
  ASSUME TypeOK, TypeOK', NEW trade, trades' = Append(trades, trade)
  PROVE  /\ Len(trades) + 1 \notin DOMAIN trades /\ trade \in Trades
         /\ DOMAIN trades' = DOMAIN trades \cup {Len(trades) + 1}
         /\ trades'[Len(trades) + 1] = trade /\ \A k \in DOMAIN trades : trades'[k] = trades[k]
         /\ \A i : TradesOf(i)' = IF i \in {trade.buy, trade.sell}
                                  THEN TradesOf(i) \cup {Len(trades) + 1} ELSE TradesOf(i)
         /\ \A k \in DOMAIN trades : /\ TradeQuantity'[k] = TradeQuantity[k]
                                     /\ TradeNotional'[k] = TradeNotional[k]
         /\ TradeQuantity'[Len(trades) + 1] = trade.quantity
         /\ TradeNotional'[Len(trades) + 1] = trade.price * trade.quantity
<1>1. /\ DOMAIN trades = 1 .. Len(trades) /\ Len(trades) \in Nat /\ trades \in Seq(Trades)
      /\ DOMAIN trades' = 1 .. Len(trades') /\ trades' \in Seq(Trades)
  BY TapeTypes, TapeTypesNext DEF TapeFacts
<1>2. /\ Len(trades') = Len(trades) + 1 /\ trades'[Len(trades) + 1] = trade
      /\ \A k \in DOMAIN trades : trades'[k] = trades[k]
  BY <1>1
<1>3. DOMAIN trades' = DOMAIN trades \cup {Len(trades) + 1} /\ Len(trades) + 1 \notin DOMAIN trades
  BY <1>1, <1>2
<1>4. trade \in Trades
  BY <1>1, <1>2, <1>3, ElementOfSeq
<1>5. \A k \in DOMAIN trades : /\ TradeQuantity'[k] = TradeQuantity[k]
                               /\ TradeNotional'[k] = TradeNotional[k]
  BY <1>2, <1>3 DEF TradeQuantity, TradeNotional
<1>6. /\ TradeQuantity'[Len(trades) + 1] = trade.quantity
      /\ TradeNotional'[Len(trades) + 1] = trade.price * trade.quantity
  BY <1>2, <1>3 DEF TradeQuantity, TradeNotional
<1>7. \A i : TradesOf(i)' = IF i \in {trade.buy, trade.sell}
                            THEN TradesOf(i) \cup {Len(trades) + 1} ELSE TradesOf(i)
  BY <1>2, <1>3 DEF TradesOf
<1>8. QED
  BY <1>2, <1>3, <1>4, <1>5, <1>6, <1>7

\* An order's sums grow by the trades it takes part in.
LEMMA SumsWithOneMoreTrade ==
  ASSUME TypeOK, TypeOK', NEW trade, trades' = Append(trades, trade), NEW i
  PROVE  /\ i \notin {trade.buy, trade.sell} =>
              /\ SumOver(TradeQuantity', TradesOf(i)') = SumOver(TradeQuantity, TradesOf(i))
              /\ SumOver(TradeNotional', TradesOf(i)') = SumOver(TradeNotional, TradesOf(i))
         /\ i \in {trade.buy, trade.sell} =>
              /\ SumOver(TradeQuantity', TradesOf(i)')
                   = SumOver(TradeQuantity, TradesOf(i)) + trade.quantity
              /\ SumOver(TradeNotional', TradesOf(i)')
                   = SumOver(TradeNotional, TradesOf(i)) + trade.price * trade.quantity
<1> DEFINE n == Len(trades) + 1
           S == TradesOf(i)
<1>1. /\ n \notin S /\ IsFiniteSet(S)
      /\ \A k \in S : /\ TradeQuantity[k] \in Int /\ TradeQuantity'[k] = TradeQuantity[k]
                      /\ TradeNotional[k] \in Int /\ TradeNotional'[k] = TradeNotional[k]
      /\ TradeQuantity'[n] = trade.quantity /\ TradeNotional'[n] = trade.price * trade.quantity
  BY TapeTypes, TradesWithOneMore DEF TapeFacts
<1>2. TradesOf(i)' = IF i \in {trade.buy, trade.sell} THEN S \cup {n} ELSE S
  BY TradesWithOneMore
<1>3. \A k \in TradesOf(i)' : TradeQuantity'[k] \in Int /\ TradeNotional'[k] \in Int
  BY TapeTypesNext DEF TapeFacts
<1> HIDE DEF n, S
<1>4. /\ SumOver(TradeQuantity', S) = SumOver(TradeQuantity, S)
      /\ SumOver(TradeNotional', S) = SumOver(TradeNotional, S)
  BY <1>1, SumSame
<1>5. CASE i \notin {trade.buy, trade.sell}
  BY <1>2, <1>4, <1>5 DEF S
<1>6. CASE i \in {trade.buy, trade.sell}
  <2>1. TradesOf(i)' = S \cup {n}
    BY <1>2, <1>6
  <2>2. /\ SumOver(TradeQuantity', S \cup {n}) = SumOver(TradeQuantity', S) + TradeQuantity'[n]
        /\ SumOver(TradeNotional', S \cup {n}) = SumOver(TradeNotional', S) + TradeNotional'[n]
    BY <1>1, <1>3, <2>1, SumAddsOne
  <2>3. QED
    BY <1>1, <1>4, <1>6, <2>1, <2>2 DEF S
<1>7. QED
  BY <1>5, <1>6
-----------------------------------------------------------------------------
\* A step without a trade keeps the sums of an order whose fills it keeps.
LEMMA FillsAreKept ==
  ASSUME trades' = trades, NEW i, FillsOf(i),
         order'[i].original - order'[i].remaining = order[i].original - order[i].remaining,
         order'[i].notional = order[i].notional
  PROVE  FillsOf(i)'
<1>1. TradesOf(i)' = TradesOf(i) /\ TradeQuantity' = TradeQuantity /\ TradeNotional' = TradeNotional
  BY DEF TradesOf, TradeQuantity, TradeNotional
<1>2. QED
  BY <1>1 DEF FillsOf, FilledQuantity

\* A step that changes at most one order, none of its fills, and forgets no order.
LEMMA TapeIsUntouched ==
  ASSUME TapeInvariant, trades' = trades, active' \cup completed' = active \cup completed,
         \A i \in active \cup completed :
           /\ order'[i].original - order'[i].remaining = order[i].original - order[i].remaining
           /\ order'[i].notional = order[i].notional
  PROVE  TapeInvariant'
<1>1. TradesAreKnown'
  BY DEF TapeInvariant, TradesAreKnown
<1>2. \A i \in active' \cup completed' : FillsOf(i)'
  BY FillsAreKept DEF TapeInvariant
<1>3. QED
  BY <1>1, <1>2 DEF TapeInvariant

\* A new order has no trades: a trade's parties were known before it.
LEMMA SubmitKeepsTape ==
  ASSUME BookInvariant, TapeInvariant, NEW r \in OrderRequests, Submit(r)
  PROVE  TapeInvariant'
<1> DEFINE price == IF r.type = "Limit" THEN r.price ELSE 0
           o == ActivatedOrder(r.side, r.type, price, r.quantity, nextSequence)
<1>1. /\ r.id \notin active \cup completed /\ r.id # ZeroId
      /\ order' = [order EXCEPT ![r.id] = o]
      /\ active' = active \cup {r.id}
      /\ UNCHANGED <<completed, trades>>
  BY DEF Submit, Acceptable, AddOrder, HasUsedOrderId
<1>2. TypeOK /\ r.id \in DOMAIN order /\ r.quantity \in Int
  <2>1. r.id \in Ids \cup {ZeroId} /\ r.quantity \in Quantities
    BY DEF OrderRequests
  <2>2. r.id \in Ids
    BY <1>1, <2>1
  <2>3. r.quantity \in Int
    BY <2>1 DEF Quantities
  <2>4. TypeOK /\ r.id \in DOMAIN order
    BY <2>2 DEF BookInvariant, TypeOK
  <2>5. QED
    BY <2>3, <2>4
<1>3. order'[r.id].original - order'[r.id].remaining = 0 /\ order'[r.id].notional = 0
  BY <1>1, <1>2 DEF ActivatedOrder
<1> HIDE DEF o, price
<1>4. TradesOf(r.id) = {}
  BY <1>1 DEF TapeInvariant, TradesAreKnown, TradesOf
<1>5. SumOver(TradeQuantity, {}) = 0 /\ SumOver(TradeNotional, {}) = 0
  <2>1. \A f : SumOver(f, {}) = 0
    BY FS_EmptySet, SumTakes
  <2>2. QED
    BY <2>1
<1>6. FillsOf(r.id)'
  <2>1. TradesOf(r.id)' = {} /\ TradeQuantity' = TradeQuantity /\ TradeNotional' = TradeNotional
    BY <1>1, <1>4 DEF TradesOf, TradeQuantity, TradeNotional
  <2>2. QED
    BY <1>3, <1>5, <2>1 DEF FillsOf, FilledQuantity
<1>7. ASSUME NEW i \in active \cup completed PROVE FillsOf(i)'
  <2>1. order'[i] = order[i]
    BY <1>1, <1>2 DEF BookInvariant, TypeOK
  <2>2. QED
    BY <1>1, <2>1, FillsAreKept DEF TapeInvariant
<1>8. QED
  BY <1>1, <1>6, <1>7 DEF TapeInvariant, TradesAreKnown

\* What a fill is, whoever was on which side.
LEMMA PartiesOfFill ==
  ASSUME BookInvariant, MatchFront, UNCHANGED rejected
  PROVE  \E maker \in active \ {taker}, trade \in Trades :
           /\ {trade.buy, trade.sell} = {maker, taker}
           /\ \A i \in Ids : order'[i] = IF i \in {maker, taker}
                                         THEN Fill(order[i], trade.quantity, trade.price)
                                         ELSE order[i]
           /\ trades' = Append(trades, trade)
           /\ active' \cup completed' = active \cup completed
<1> DEFINE far == Opposite(order[taker].side)
<1>1. PICK p \in levels[far] :
        LET maker    == Head(queue[far][p])
            price    == order[maker].price
            quantity == MatchQuantity(order[taker], order[maker])
            done     == order[maker].remaining = quantity
        IN
        /\ queue[far][p] # <<>>
        /\ order' = [order EXCEPT ![maker] = Fill(@, quantity, price),
                                  ![taker] = Fill(@, quantity, price)]
        /\ trades' = Append(trades,
             [buy   |-> IF far = "Sell" THEN taker ELSE maker,
              sell  |-> IF far = "Sell" THEN maker ELSE taker,
              price |-> price, quantity |-> quantity])
        /\ active' = IF done THEN active \ {maker} ELSE active
        /\ completed' = IF done THEN completed \cup {maker} ELSE completed
  BY DEF MatchFront
<1> DEFINE maker == Head(queue[far][p])
<1>2. /\ taker \in active /\ taker \in Ids /\ level[taker] = None
      /\ far \in Sides /\ p \in Prices
  BY TypesOfParts DEF MatchFront, BookInvariant, TakerInHand, TypeOK
<1>3. maker \in active /\ maker \in Ids /\ level[maker] = p
  <2>1. queue[far][p] \in Seq(Ids) /\ queue[far][p] # <<>>
    BY <1>1, <1>2, TypesOfParts DEF BookInvariant
  <2>2. 1 \in DOMAIN queue[far][p] /\ queue[far][p][1] = maker
    BY <2>1, LenProperties, EmptySeq
  <2> HIDE DEF maker, far
  <2>3. maker \in active /\ level[maker] = p
    BY <1>2, <2>2 DEF BookInvariant, QueuedAreLinked
  <2>4. QED
    BY <2>3 DEF BookInvariant, TypeOK
<1>4. maker # taker
  BY <1>2, <1>3, NoneAssumption, PricesAssumption
<1> DEFINE quantity == MatchQuantity(order[taker], order[maker])
           price    == order[maker].price
           trade    == [buy   |-> IF far = "Sell" THEN taker ELSE maker,
                        sell  |-> IF far = "Sell" THEN maker ELSE taker,
                        price |-> price, quantity |-> quantity]
<1>5. trades' = Append(trades, trade)
  BY <1>1
<1>6. trade \in Trades
  <2>1. trades' \in Seq(Trades) /\ trades \in Seq(Trades)
    BY MatchFrontStep DEF BookInvariant, TypeOK
  <2> HIDE DEF trade
  <2>2. trades'[Len(trades) + 1] = trade /\ Len(trades') = Len(trades) + 1 /\ Len(trades) \in Nat
    BY <1>5, <2>1, LenProperties
  <2>3. QED
    BY <2>1, <2>2, ElementOfSeq
<1>7. trade.quantity = quantity /\ trade.price = price
  OBVIOUS
<1>8. {trade.buy, trade.sell} = {maker, taker}
  OBVIOUS
<1>9. order' = [order EXCEPT ![maker] = Fill(@, quantity, price),
                             ![taker] = Fill(@, quantity, price)]
  BY <1>1
<1>10. \A i \in Ids : order'[i] = IF i \in {maker, taker} THEN Fill(order[i], quantity, price)
                                                        ELSE order[i]
  <2> HIDE DEF maker, quantity, price
  <2>1. QED
    BY <1>2, <1>3, <1>4, <1>9 DEF BookInvariant, TypeOK
<1>11. active' \cup completed' = active \cup completed
  BY <1>1, <1>3
<1> HIDE DEF maker, quantity, price, trade
<1>12. QED
  BY <1>3, <1>4, <1>5, <1>6, <1>7, <1>8, <1>11, <1>10

\* A fill adds to both parties what its trade says, and to nobody else.
LEMMA FillKeepsTape ==
  ASSUME BookInvariant, BookInvariant', TapeInvariant, MatchFront, UNCHANGED rejected
  PROVE  TapeInvariant'
<1>1. PICK maker \in active \ {taker}, trade \in Trades :
           /\ {trade.buy, trade.sell} = {maker, taker}
           /\ \A i \in Ids : order'[i] = IF i \in {maker, taker}
                                         THEN Fill(order[i], trade.quantity, trade.price)
                                         ELSE order[i]
           /\ trades' = Append(trades, trade)
           /\ active' \cup completed' = active \cup completed
  BY PartiesOfFill
<1>2. TypeOK /\ TypeOK'
  BY DEF BookInvariant
<1>3. /\ taker \in active /\ taker \in Ids /\ maker \in Ids /\ maker # taker
  <2>1. taker # None
    BY DEF MatchFront
  <2>2. taker \in active /\ active \subseteq Ids
    BY <1>2, <2>1 DEF BookInvariant, TakerInHand, TypeOK
  <2>3. QED
    BY <1>1, <2>2
<1>4. trade.quantity \in Int /\ trade.price \in Int
  <2>1. trade.price \in Prices
    BY <1>1 DEF Trades
  <2>2. trade.price \in Nat
    BY <2>1, PricesAssumption
  <2>3. trade.quantity \in 1 .. MaxQuantity
    BY <1>1 DEF Trades
  <2>4. QED
    BY <2>2, <2>3
<1>5. ASSUME NEW i \in {maker, taker}
      PROVE  /\ order'[i].original - order'[i].remaining
                  = order[i].original - order[i].remaining + trade.quantity
             /\ order'[i].notional = order[i].notional + trade.price * trade.quantity
  <2>1. order'[i] = Fill(order[i], trade.quantity, trade.price)
    BY <1>1, <1>3
  <2>2. order[i] \in Orders
    BY <1>2, <1>3 DEF TypeOK
  <2>3. /\ order'[i].original = order[i].original
        /\ order'[i].remaining = order[i].remaining - trade.quantity
        /\ order'[i].notional = order[i].notional + trade.price * trade.quantity
    BY <2>1, <2>2 DEF Fill, Orders
  <2>4. order[i].original \in Int /\ order[i].remaining \in Int
    BY <2>2 DEF Orders, Quantities
  <2>5. QED
    BY <1>4, <2>3, <2>4
<1>6. ASSUME NEW i \in active \cup completed PROVE FillsOf(i)'
  <2>1. FillsOf(i)
    BY DEF TapeInvariant
  <2>2. CASE i \in {maker, taker}
    <3>1. /\ SumOver(TradeQuantity', TradesOf(i)')
               = SumOver(TradeQuantity, TradesOf(i)) + trade.quantity
          /\ SumOver(TradeNotional', TradesOf(i)')
               = SumOver(TradeNotional, TradesOf(i)) + trade.price * trade.quantity
      BY <1>1, <1>2, <2>2, SumsWithOneMoreTrade
    <3>2. QED
      BY <1>5, <2>1, <2>2, <3>1 DEF FillsOf, FilledQuantity
  <2>3. CASE i \notin {maker, taker}
    <3>1. /\ SumOver(TradeQuantity', TradesOf(i)') = SumOver(TradeQuantity, TradesOf(i))
          /\ SumOver(TradeNotional', TradesOf(i)') = SumOver(TradeNotional, TradesOf(i))
      BY <1>1, <1>2, <2>3, SumsWithOneMoreTrade
    <3>2. order'[i] = order[i]
      BY <1>1, <1>2, <2>3 DEF TypeOK
    <3>3. QED
      BY <2>1, <3>1, <3>2 DEF FillsOf, FilledQuantity
  <2>4. QED
    BY <2>2, <2>3
<1>7. TradesAreKnown'
  <2>1. DOMAIN trades' = DOMAIN trades \cup {Len(trades) + 1}
    BY <1>1, <1>2, TradesWithOneMore
  <2>2. trades'[Len(trades) + 1] = trade /\ \A k \in DOMAIN trades : trades'[k] = trades[k]
    BY <1>1, <1>2, TradesWithOneMore
  <2>3. {trade.buy, trade.sell} \subseteq active' \cup completed' /\ trade.buy # trade.sell
    BY <1>1, <1>3
  <2>4. QED
    BY <1>1, <2>1, <2>2, <2>3 DEF TapeInvariant, TradesAreKnown
<1>8. QED
  BY <1>1, <1>6, <1>7 DEF TapeInvariant

\* A step that changes one order, none of its fills, and forgets no order.
LEMMA ChangeKeepsTape ==
  ASSUME BookInvariant, TapeInvariant, NEW i \in active, NEW o,
         order' = [order EXCEPT ![i] = o], FilledQuantity(o) = FilledQuantity(order[i]),
         o.notional = order[i].notional,
         trades' = trades, active' \cup completed' = active \cup completed
  PROVE  TapeInvariant'
<1>1. \A j \in active \cup completed : order'[j] = IF j = i THEN o ELSE order[j]
  BY DEF BookInvariant, TypeOK
<1>2. QED
  BY <1>1, TapeIsUntouched DEF FilledQuantity

\* A cancelled order and a replaced one keep their fills.
LEMMA ChangesKeepFills ==
  ASSUME NEW o \in Orders, NEW price, NEW quantity \in Int, NEW sequence
  PROVE  /\ FilledQuantity(Cancelled(o)) = FilledQuantity(o)
         /\ Cancelled(o).notional = o.notional
         /\ FilledQuantity(Replace(o, price, quantity, sequence)) = FilledQuantity(o)
         /\ Replace(o, price, quantity, sequence).notional = o.notional
<1>1. o.original \in Int /\ o.remaining \in Int
  BY DEF Orders, Quantities
<1>2. QED
  BY <1>1 DEF FilledQuantity, Cancelled, Replace, Orders

\* So does the book around them.
LEMMA ChangedOrderKeepsTape ==
  ASSUME BookInvariant, TapeInvariant, NEW i \in active, NEW price, NEW quantity \in Int,
         NEW sequence,
         \/ order' = [order EXCEPT ![i] = Cancelled(order[i])]
         \/ order' = [order EXCEPT ![i] = Replace(order[i], price, quantity, sequence)],
         trades' = trades, active' \cup completed' = active \cup completed
  PROVE  TapeInvariant'
<1>1. order[i] \in Orders
  BY DEF BookInvariant, TypeOK
<1>2. PICK o : /\ order' = [order EXCEPT ![i] = o]
               /\ FilledQuantity(o) = FilledQuantity(order[i]) /\ o.notional = order[i].notional
  BY <1>1, ChangesKeepFills
<1>3. QED
  BY <1>2, ChangeKeepsTape

\* BookInvariant and TapeInvariant are inductive together.
LEMMA TapeStep ==
  ASSUME BookInvariant, BookInvariant', TapeInvariant, AnyStep
  PROVE  TapeInvariant'
<1> DEFINE Quiet1 == UNCHANGED <<order, active, completed, trades>>
<1>1. ASSUME Quiet1 PROVE TapeInvariant'
  BY <1>1, TapeIsUntouched
<1>2. TypeOK /\ \A i \in active : i \in Ids /\ order[i] \in Orders
  BY DEF BookInvariant, TypeOK
<1>3. ASSUME NEW r \in OrderRequests, Submit(r) PROVE TapeInvariant'
  BY <1>3, SubmitKeepsTape
<1>4. ASSUME NEW r \in OrderRequests, RejectSubmit(r) PROVE TapeInvariant'
  BY <1>1, <1>4 DEF RejectSubmit
<1>5. ASSUME NEW i \in Ids, Cancel(i) PROVE TapeInvariant'
  <2>1. CASE CancelOrder(i)
    <3>1. /\ i \in active /\ order' = [order EXCEPT ![i] = Cancelled(order[i])]
          /\ trades' = trades /\ active' \cup completed' = active \cup completed
      BY <2>1 DEF CancelOrder, Complete
    <3>2. QED
      BY <3>1, 0 \in Int, ChangedOrderKeepsTape
  <2>2. CASE MissingLevel(i)
    BY <1>1, <2>2 DEF MissingLevel
  <2>3. QED
    BY <1>5, <2>1, <2>2 DEF Cancel
<1>6. ASSUME NEW i \in Ids, NEW m \in ModifyRequests, Modify(i, m) PROVE TapeInvariant'
  <2> DEFINE p == TargetPrice(i, m)
             q == TargetQuantity(i, m)
  <2>1. ReplaceOrder(i, p, q) /\ i \in active /\ Modifiable(i, m)
    BY <1>6 DEF Modify, Modifiable
  <2>2. q \in Int
    BY <1>6, <2>1, ModifyTargets DEF Quantities
  <2> HIDE DEF p, q
  <2>3. ASSUME NEW s, order' = [order EXCEPT ![i] = Replace(order[i], p, q, s)],
               trades' = trades, active' \cup completed' = active \cup completed
        PROVE  TapeInvariant'
    BY <2>1, <2>2, <2>3, ChangedOrderKeepsTape
  <2>4. CASE ShrinkInPlace(i, p, q)
    BY <2>3, <2>4 DEF ShrinkInPlace
  <2>5. CASE ShrinkNullLevel(i, p, q)
    BY <1>1, <2>5 DEF ShrinkNullLevel
  <2>6. CASE GrowRequeue(i, p, q)
    BY <2>3, <2>6 DEF GrowRequeue
  <2>7. CASE ShrinkToExecuted(i, p, q)
    BY <2>1, <2>3, <2>7 DEF ShrinkToExecuted, Complete
  <2>8. CASE Reprice(i, p, q)
    BY <2>1, <2>3, <2>8 DEF Reprice, Complete
  <2>9. CASE MissingLevel(i)
    BY <1>1, <2>9 DEF MissingLevel
  <2>10. QED
    BY <2>1, <2>4, <2>5, <2>6, <2>7, <2>8, <2>9 DEF ReplaceOrder
<1>7. CASE Match
  <2>1. taker # None => taker \in active
    BY DEF BookInvariant, TakerInHand
  <2>2. CASE MatchFront
    BY <1>7, <2>2, FillKeepsTape DEF Match
  <2>3. CASE CompleteTaker
    <3>1. UNCHANGED <<order, trades>> /\ active' \cup completed' = active \cup completed
      BY <2>1, <2>3 DEF CompleteTaker, MatchingOver, Complete
    <3>2. QED
      BY <3>1, TapeIsUntouched
  <2>4. CASE CancelRemainder
    <3>1. /\ taker \in active /\ order' = [order EXCEPT ![taker] = Cancelled(order[taker])]
          /\ trades' = trades /\ active' \cup completed' = active \cup completed
      BY <2>1, <2>4 DEF CancelRemainder, MatchingOver, Complete
    <3>2. QED
      BY <3>1, 0 \in Int, ChangedOrderKeepsTape
  <2>5. CASE Rest
    BY <1>1, <2>5 DEF Rest
  <2>6. CASE RestOverflows
    BY <1>1, <2>6 DEF RestOverflows
  <2>7. QED
    BY <1>7, <2>2, <2>3, <2>4, <2>5, <2>6 DEF Match, Matching
<1>8. CASE Refuse \/ UNCHANGED vars
  BY <1>1, <1>8 DEF Refuse, vars
<1>9. QED
  BY <1>3, <1>4, <1>5, <1>6, <1>7, <1>8 DEF AnyStep

\* There are no trades, and no orders, at first.
LEMMA TapeStarts ==
  ASSUME Init
  PROVE  TapeInvariant
<1>1. active \cup completed = {} /\ trades = <<>>
  BY DEF Init, BookInit
<1>2. QED
  BY <1>1 DEF TapeInvariant, TradesAreKnown

\* The invariant says what the runs check.
LEMMA TapeIsFills == TapeInvariant => FillsAreTrades
BY SumOfTheModel DEF TapeInvariant, FillsAreTrades, FillsOf, TradeQuantity, TradeNotional

\* Whatever is done to an order, its filled quantity and its notional are those of the
\* trades reported for it: record_trade and apply_fill never part, and neither a
\* replacement nor a cancellation forgets or repeats a fill.
THEOREM FillsMatchTheTape == Spec => []FillsAreTrades
<1>1. Init => TapeInvariant
  BY TapeStarts
<1>2. BookInvariant /\ BookInvariant' /\ TapeInvariant /\ [Next]_vars => TapeInvariant'
  BY NextIsAnyStep, TapeStep
<1>3. TapeInvariant => FillsAreTrades
  BY TapeIsFills
<1>4. QED
  BY <1>1, <1>2, <1>3, BookIsConsistent, PTL DEF Spec
-----------------------------------------------------------------------------
(***************************************************************************)
(* validate_invariants: the cached totals as folds over the lists.         *)
(***************************************************************************)
\* The fold over a level's list is the sum of what its orders have left.
LEMMA RemainingIsSum ==
  ASSUME TypeOK, NEW q \in Seq(Ids), NEW v, \A k \in DOMAIN q : v[k] = order[q[k]].remaining
  PROVE  RemainingIn(q) = SumOver(v, DOMAIN q)
<1> DEFINE Last(s) == CHOOSE x \in s : \A y \in s : x >= y
           Iter(g) == g = [s \in SUBSET (DOMAIN q) |->
                             IF s = {} THEN 0 ELSE g[s \ {Last(s)}] + order[q[Last(s)]].remaining]
<1>1. PICK c : c = [s \in SUBSET (DOMAIN q) |-> Last(s)]
  OBVIOUS
<1>2. Len(q) \in Nat /\ DOMAIN q = 1 .. Len(q) /\ \A k \in DOMAIN q : q[k] \in Ids
  BY LenProperties, ElementOfSeq
<1>3. IsFiniteSet(DOMAIN q) /\ Picks(c, DOMAIN q)
  <2>1. \A s \in SUBSET (1 .. Len(q)) : c[s] = CHOOSE x \in s : \A y \in s : x >= y
    BY <1>1, <1>2, Zenon
  <2>2. IsFiniteSet(1 .. Len(q)) /\ Picks(c, 1 .. Len(q))
    BY <1>2, <2>1, LastIsPicked, Zenon
  <2>3. QED
    BY <1>2, <2>2, Zenon
<1>4. \A k \in DOMAIN q : v[k] \in Int
  BY <1>2, TypesOfParts
<1>5. \A s \in SUBSET (DOMAIN q) : s # {} => Last(s) = c[s] /\ c[s] \in DOMAIN q
  <2> HIDE DEF Last
  <2>1. QED
    BY <1>1, <1>3 DEF Picks
<1> HIDE DEF Last
<1>6. \A g : (\A s \in SUBSET (DOMAIN q) : g[s] =
                 IF s = {} THEN 0 ELSE g[s \ {Last(s)}] + order[q[Last(s)]].remaining)
             <=> AddsBehind(v, c, DOMAIN q, g)
  <2> SUFFICES ASSUME NEW g, NEW s \in SUBSET (DOMAIN q)
               PROVE  (IF s = {} THEN 0 ELSE g[s \ {Last(s)}] + order[q[Last(s)]].remaining)
                        = (IF s = {} THEN 0 ELSE g[s \ {c[s]}] + v[c[s]])
    BY DEF AddsBehind
  <2>1. CASE s = {}
    BY <2>1
  <2>2. CASE s # {}
    <3>1. Last(s) = c[s] /\ v[c[s]] = order[q[c[s]]].remaining
      BY <1>5, <2>2
    <3>2. QED
      BY <2>2, <3>1
  <2>3. QED
    BY <2>1, <2>2
<1>7. \E g : Iter(g)
  <2>1. PICK h : AddsBehind(v, c, DOMAIN q, h)
    BY <1>3, <1>4, AddsExists, BehindIsInFront
  <2> DEFINE g == [s \in SUBSET (DOMAIN q) |-> h[s]]
  <2>2. \A s \in SUBSET (DOMAIN q) : g[s] =
          IF s = {} THEN 0 ELSE g[s \ {Last(s)}] + order[q[Last(s)]].remaining
    BY <1>6, <2>1
  <2>3. g = [s \in SUBSET (DOMAIN q) |-> g[s]]
    OBVIOUS
  <2> HIDE DEF g
  <2>4. Iter(g)
    BY <2>2, <2>3, Zenon
  <2>5. QED
    BY <2>4, Zenon
<1> DEFINE g == CHOOSE g : Iter(g)
<1>8. Iter(g)
  BY <1>7, Zenon
<1>9. RemainingIn(q) = g[DOMAIN q]
  BY DEF RemainingIn, SeqX!FoldLeft, SeqX!MapThenFoldSet, SeqX!Max, Last
<1>10. AddsBehind(v, c, DOMAIN q, g)
  <2> HIDE DEF g
  <2>1. \A s \in SUBSET (DOMAIN q) : g[s] =
          IF s = {} THEN 0 ELSE g[s \ {Last(s)}] + order[q[Last(s)]].remaining
    BY <1>8
  <2>2. QED
    BY <1>6, <2>1
<1> HIDE DEF g
<1>11. Adds(v, c, DOMAIN q, g)
  BY <1>3, <1>4, <1>10, BehindIsInFront
<1>12. QED
  BY <1>3, <1>4, <1>9, <1>11, SumIsAny

\* The cached total, of which TotalsAddUp says how it comes about, is that sum.
LEMMA TotalIsRemaining ==
  ASSUME BookInvariant, NEW s \in Sides, NEW p \in Prices
  PROVE  total[s][p] = RemainingIn(queue[s][p]) /\ total[s][p] <= MaxQuantity
<1> DEFINE q == queue[s][p]
           t == total[s][p]
<1>1. TypeOK /\ q \in Seq(Ids) /\ SumsTo(q, Open, t) /\ Open \in [Ids -> Quantities]
  BY TypesOfParts, OpenTypes DEF BookInvariant, TotalsAddUp
<1>2. \A i \in Ids : Open[i] = order[i].remaining
  BY <1>1, OpenTypes
<1> HIDE DEF q, t
<1>3. Len(q) \in Nat /\ DOMAIN q = 1 .. Len(q) /\ \A k \in DOMAIN q : q[k] \in Ids
  BY <1>1, LenProperties, ElementOfSeq
<1>4. PICK f \in [0 .. Len(q) -> Quantities] :
        /\ f[0] = 0 /\ f[Len(q)] = t /\ t \in Quantities
        /\ \A k \in 1 .. Len(q) : f[k] = f[k - 1] + Open[q[k]]
  BY <1>1, SumsToParts
<1>5. PICK v : v = [k \in DOMAIN q |-> order[q[k]].remaining]
  OBVIOUS
<1>6. \A k \in 1 .. Len(q) : v[k] \in Int /\ v[k] = Open[q[k]] /\ f[k] = f[k - 1] + v[k]
  BY <1>1, <1>2, <1>3, <1>4, <1>5, TypesOfParts
<1>7. t = SumOver(v, 1 .. Len(q))
  BY <1>3, <1>4, <1>6, PartialSums
<1>8. RemainingIn(q) = SumOver(v, DOMAIN q)
  BY <1>1, <1>5, RemainingIsSum
<1>9. QED
  BY <1>3, <1>4, <1>7, <1>8, MaxQuantityAssumption DEF q, t, Quantities

\* An order that points at a level is once in its list, and in it only.
LEMMA QueuedOnce ==
  ASSUME BookInvariant, NEW i \in Ids, level[i] # None
  PROVE  Cardinality({k \in DOMAIN queue[order[i].side][level[i]] :
                        queue[order[i].side][level[i]][k] = i}) = 1
<1> DEFINE q == queue[order[i].side][level[i]]
<1>1. Distinct(q) /\ \E k \in DOMAIN q : q[k] = i
  BY IndexOfLinked
<1> HIDE DEF q
<1>2. PICK k \in DOMAIN q : q[k] = i
  BY <1>1
<1>3. {j \in DOMAIN q : q[j] = i} = {k}
  BY <1>1, <1>2 DEF Distinct
<1>4. QED
  BY <1>3, FS_Singleton DEF q

\* The parts of BookInvariant are the checks of validate_invariants.
LEMMA RestingBookIsValid == BookInvariant => RestingBookValid
<1> SUFFICES ASSUME BookInvariant, NEW s \in Sides, NEW p \in Prices
             PROVE  LET q == queue[s][p] IN
               /\ p \in levels[s] <=> q # <<>>
               /\ total[s][p] = RemainingIn(q) /\ total[s][p] <= MaxQuantity
               /\ \A k \in DOMAIN q :
                    /\ q[k] \in Resting
                    /\ level[q[k]] = p /\ order[q[k]].price = p /\ order[q[k]].side = s
                    /\ order[q[k]].type = "Limit"
                    /\ IsActive(order[q[k]]) /\ order[q[k]].remaining > 0
               /\ \A i \in Resting : level[i] = p /\ order[i].side = s =>
                    Cardinality({k \in DOMAIN q : q[k] = i}) = 1
  BY DEF RestingBookValid
<1>1. p \in levels[s] <=> queue[s][p] # <<>>
  BY DEF BookInvariant, LevelsAreNonEmpty
<1>2. total[s][p] = RemainingIn(queue[s][p]) /\ total[s][p] <= MaxQuantity
  BY TotalIsRemaining
<1>3. ASSUME NEW k \in DOMAIN queue[s][p]
      PROVE  LET i == queue[s][p][k] IN
             /\ i \in Resting
             /\ level[i] = p /\ order[i].price = p /\ order[i].side = s
             /\ order[i].type = "Limit"
             /\ IsActive(order[i]) /\ order[i].remaining > 0
  <2> DEFINE i == queue[s][p][k]
  <2>1. i \in active /\ level[i] = p /\ order[i].side = s
    BY DEF BookInvariant, QueuedAreLinked
  <2> HIDE DEF i
  <2>2. i \in Ids /\ p # None
    <3>1. i \in Ids
      BY <2>1 DEF BookInvariant, TypeOK
    <3>2. p # None
      BY NoneAssumption, PricesAssumption
    <3>3. QED
      BY <3>1, <3>2
  <2>3. i # taker /\ order[i].price = p
    <3>1. i # taker
      BY <2>1, <2>2, NoneAssumption DEF BookInvariant, TakerInHand
    <3>2. order[i].price = p
      BY <2>1, <2>2 DEF BookInvariant, LinkedAreQueued
    <3>3. QED
      BY <3>1, <3>2
  <2>4. order[i].type = "Limit" /\ IsActive(order[i]) /\ order[i].remaining > 0
    BY <2>1, <2>3 DEF BookInvariant, ActiveAreOpen
  <2>5. QED
    BY <2>1, <2>2, <2>3, <2>4 DEF i, Resting
<1>4. ASSUME NEW i \in Resting, level[i] = p, order[i].side = s
      PROVE  Cardinality({k \in DOMAIN queue[s][p] : queue[s][p][k] = i}) = 1
  <2>1. i \in Ids /\ level[i] # None
    BY DEF Resting, BookInvariant, TypeOK
  <2>2. QED
    BY <1>4, <2>1, QueuedOnce
<1>5. QED
  BY <1>1, <1>2, <1>3, <1>4

\* As long as no level overflows, validate_invariants finds nothing between two calls:
\* the book is uncrossed, its maps, lists, pointers and totals agree, and no active
\* order is without a level.
THEOREM ValidateInvariantsPass == Spec /\ [](error # "overflow") => []ValidateInvariants
<1> DEFINE NoneStranded == Stranded = {}
<1>1. Init => NoneStranded
  BY DEF Init, BookInit, Stranded
<1>2. BookInvariant /\ [Next]_vars => StrandingStep
  BY NextIsAnyStep, EveryStepIsSound DEF StepIsSound
<1>3. NoneStranded /\ StrandingStep /\ (error # "overflow")' => NoneStranded'
  BY DEF StrandingStep
<1>4. BookInvariant /\ NoneStranded => ValidateInvariants
  BY RestingBookIsValid DEF ValidateInvariants, BookInvariant
<1>5. QED
  BY <1>1, <1>2, <1>3, <1>4, BookIsConsistent, PTL DEF Spec

\* After an overflow too, the orders that rest are consistent with their levels, also in
\* the middle of a call: what the overflow leaves behind is only the order it stranded.
THEOREM RestingBookStaysValid == Spec => []RestingBookValid
BY RestingBookIsValid, BookIsConsistent, PTL
=============================================================================
