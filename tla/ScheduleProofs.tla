---------------------------- MODULE ScheduleProofs ----------------------------
(***************************************************************************)
(* The schedules of TWAP and VWAP, for any parent, number of slices and    *)
(* volume profile: they add up to what the parent has left, are what       *)
(* add_parent demands of a schedule, and have the shape they are asked     *)
(* for.  The enumeration of MCSchedules is an instance.                    *)
(***************************************************************************)
EXTENDS MCSchedules, NumberFacts, SequenceTheorems

\* The fold of the constructor and of both builders is a sum.
LEMMA SumOfIsSum ==
  ASSUME NEW n \in Nat, NEW v, DOMAIN v = 1 .. n, \A k \in 1 .. n : v[k] \in Int
  PROVE  SumOf(v) = SumOver(v, 1 .. n) /\ SumOver(v, 1 .. n) \in Int
<1> DEFINE D == 1 .. n
           Last(s) == CHOOSE y \in s : \A z \in s : y >= z
           Iter(g) == g = [s \in SUBSET D |-> IF s = {} THEN 0 ELSE g[s \ {Last(s)}] + v[Last(s)]]
<1>1. IsFiniteSet(D)
  BY FS_Interval
<1>2. PICK c : c = [s \in SUBSET D |-> Last(s)]
  OBVIOUS
<1>3. Picks(c, D)
  <2>1. \A s \in SUBSET (1 .. n) : c[s] = CHOOSE y \in s : \A z \in s : y >= z
    BY <1>2, Zenon
  <2>2. QED
    BY <2>1, LastIsPicked, Zenon
<1>4. SumOf(v) = (CHOOSE g : Iter(g))[D]
  BY DEF SumOf, SchX!FoldLeft, SchX!MapThenFoldSet, SchX!Max, Last, D
<1>5. \A k \in D : v[k] \in Int
  OBVIOUS
<1>6. \A s \in SUBSET D : s # {} => c[s] = Last(s) /\ Last(s) \in s /\ s \ {Last(s)} \in SUBSET D
  BY <1>2, <1>3 DEF Picks
<1> HIDE DEF Last, D
<1>7. PICK h : Adds(v, c, D, h)
  BY <1>1, <1>3, AddsExists
<1>8. \A s \in SUBSET D : h[s] \in Int
  BY <1>1, <1>3, <1>5, <1>7, AddsType
<1>9. \E g : Iter(g)
  <2> DEFINE g == [s \in SUBSET D |-> h[s]]
  <2>1. \A s \in SUBSET D : g[s] = IF s = {} THEN 0 ELSE g[s \ {Last(s)}] + v[Last(s)]
    <3> SUFFICES ASSUME NEW s \in SUBSET D
                 PROVE  g[s] = IF s = {} THEN 0 ELSE g[s \ {Last(s)}] + v[Last(s)]
      OBVIOUS
    <3>1. CASE s = {}
      BY <1>7, <3>1 DEF Adds
    <3>2. CASE s # {}
      <4>1. Last(s) \in D /\ s \ {Last(s)} \in SUBSET D /\ c[s] = Last(s)
        BY <1>6, <3>2
      <4>2. h[s] = v[Last(s)] + h[s \ {Last(s)}]
        BY <1>7, <3>2, <4>1 DEF Adds
      <4>3. v[Last(s)] \in Int /\ h[s \ {Last(s)}] \in Int
        BY <1>5, <1>8, <4>1
      <4>4. QED
        BY <3>2, <4>1, <4>2, <4>3
    <3>3. QED
      BY <3>1, <3>2
  <2>2. g = [s \in SUBSET D |-> g[s]]
    OBVIOUS
  <2> HIDE DEF g
  <2>3. Iter(g)
    BY <2>1, <2>2, Zenon
  <2>4. QED
    BY <2>3, Zenon
<1> DEFINE g == CHOOSE g : Iter(g)
<1>10. Iter(g)
  BY <1>9, Zenon
<1> HIDE DEF g
<1>11. AddsBehind(v, c, D, g)
  BY <1>6, <1>10 DEF AddsBehind
<1>12. Adds(v, c, D, g)
  BY <1>1, <1>3, <1>5, <1>11, BehindIsInFront
<1>13. D \in SUBSET D
  OBVIOUS
<1>14. g[D] = SumOver(v, D) /\ SumOver(v, D) \in Int
  BY <1>1, <1>3, <1>5, <1>12, <1>13, SumIsAny
<1>15. QED
  BY <1>4, <1>14 DEF D, g

\* A product grows with its factor.
LEMMA ProductGrows ==
  \A a, b \in Int, c \in Nat : a <= b => a * c <= b * c
<1> SUFFICES ASSUME NEW a \in Int, NEW b \in Int, NEW c \in Nat, a <= b PROVE a * c <= b * c
  OBVIOUS
<1>1. b - a \in Nat /\ b = a + (b - a)
  OBVIOUS
<1>2. (b - a) * c \in Nat
  BY <1>1
<1>3. b * c = a * c + (b - a) * c
  OBVIOUS
<1>4. a * c \in Int
  OBVIOUS
<1>5. QED
  BY <1>2, <1>3, <1>4

\* What add_parent demands of the schedule of a parent.
IsSchedule(s, p) ==
  /\ SumOf(Quantities(s)) = Unexecuted(p)
  /\ \A k \in DOMAIN s :
       /\ s[k].quantity > 0
       /\ p.start <= s[k].time /\ s[k].time < p.end
       /\ k > 1 => s[k - 1].time <= s[k].time

\* A parent the builders do not return from at once; its horizon is not empty.
HasWork(p) ==
  /\ CanGenerateChildren(p) /\ Unexecuted(p) \in Nat
  /\ p.start \in Int /\ p.end \in Int /\ p.start < p.end
-----------------------------------------------------------------------------
(***************************************************************************)
(* TWAP                                                                    *)
(***************************************************************************)
LEMMA SharesAddUp ==
  ASSUME NEW q \in Nat, NEW n \in Nat \ {0},
         NEW f, \A k \in 1 .. n : f[k] = Share(q, n, k)
  PROVE  /\ SumOver(f, 1 .. n) = q
         /\ \A k \in 1 .. n : f[k] \in Nat /\ (n <= q => f[k] > 0)
<1> DEFINE a == q \div n
           r == q % n
<1>1. a \in Nat /\ r \in Nat /\ r < n /\ q = n * a + r /\ (n <= q => a > 0)
  <2>1. a \in Int /\ r \in Nat /\ r < n /\ q = n * a + r
    BY Division
  <2> HIDE DEF a, r
  <2>2. a >= 0
    <3>1. SUFFICES ASSUME a <= -1 PROVE FALSE
      BY <2>1
    <3>2. n * a <= n * (-1)
      BY <2>1, <3>1, ProductGrows
    <3>3. QED
      BY <2>1, <3>2
  <2>3. a = 0 => q < n
    BY <2>1, n * 0 = 0
  <2>4. QED
    BY <2>1, <2>2, <2>3
<1>2. \A k \in 1 .. n : f[k] = a + (IF k <= r THEN 1 ELSE 0)
  BY DEF Share
<1> HIDE DEF a, r
<1>3. \A k \in 1 .. n : f[k] \in Nat /\ f[k] \in Int /\ (n <= q => f[k] > 0)
  BY <1>1, <1>2
<1> DEFINE part == [k \in 0 .. n |-> k * a + (IF k <= r THEN k ELSE r)]
<1>4. part[0] = 0 /\ part[n] = q
  BY <1>1, 0 * a = 0
<1>5. ASSUME NEW k \in 1 .. n PROVE part[k] = part[k - 1] + f[k]
  <2>1. k * a = (k - 1) * a + a /\ (k - 1) * a \in Int
    BY <1>1
  <2>2. k - 1 \in 0 .. n /\ k \in 0 .. n
    OBVIOUS
  <2>3. QED
    BY <1>1, <1>2, <2>1, <2>2
<1> HIDE DEF part
<1>6. part[n] = SumOver(f, 1 .. n)
  BY <1>3, <1>4, <1>5, PartialSums
<1>7. QED
  BY <1>3, <1>4, <1>6

LEMMA TwapIs ==
  ASSUME NEW p, HasWork(p), NEW m \in Nat \ {0}
  PROVE  \E n \in Nat \ {0} :
           /\ n <= Unexecuted(p) /\ DOMAIN TWAP(p, m) = 1 .. n
           /\ \A k \in 1 .. n : TWAP(p, m)[k] = [quantity |-> Share(Unexecuted(p), n, k),
                                                 time |-> p.start + Interval(p, n) * (k - 1)]
<1> DEFINE q == Unexecuted(p)
           n == IF q < m THEN q ELSE m
<1>1. q \in Nat \ {0} /\ CanGenerateChildren(p)
  BY DEF HasWork, CanGenerateChildren
<1>2. n \in Nat \ {0} /\ n <= q
  BY <1>1
<1>3. TWAP(p, m) = [k \in 1 .. n |->
                      [quantity |-> Share(q, n, k), time |-> p.start + Interval(p, n) * (k - 1)]]
  BY <1>1 DEF TWAP
<1> HIDE DEF n, q
<1>4. QED
  BY <1>2, <1>3 DEF q

\* TWAP makes a schedule of any parent with work left, for any number of slices: all of it,
\* in slices that are not empty, in time order and inside the horizon, also when there are
\* more slices than units or than instants (TWAP::generate_schedule).
THEOREM TwapIsSchedule ==
  ASSUME NEW p, HasWork(p), NEW m \in Nat \ {0}
  PROVE  IsSchedule(TWAP(p, m), p)
<1> DEFINE q == Unexecuted(p)
           s == TWAP(p, m)
<1>1. PICK n \in Nat \ {0} :
        /\ n <= q /\ DOMAIN s = 1 .. n
        /\ \A k \in 1 .. n : s[k] = [quantity |-> Share(q, n, k), time |-> p.start + Interval(p, n) * (k - 1)]
  BY TwapIs, Zenon
<1>2. q \in Nat
  BY DEF HasWork
<1> HIDE DEF q, s
<1> DEFINE f == Quantities(s)
<1>3. DOMAIN f = 1 .. n /\ \A k \in 1 .. n : f[k] = s[k].quantity /\ f[k] = Share(q, n, k)
  BY <1>1 DEF Quantities
<1> HIDE DEF f
<1>4. SumOver(f, 1 .. n) = q /\ \A k \in 1 .. n : f[k] \in Nat /\ f[k] > 0
  BY <1>1, <1>2, <1>3, SharesAddUp
<1>5. SumOf(f) = q
  BY <1>3, <1>4, SumOfIsSum
<1> DEFINE w == p.end - p.start
           i == Interval(p, n)
<1>6. w \in Nat \ {0} /\ p.start \in Int /\ p.end \in Int /\ i = w \div n /\ p.end = p.start + w
  BY DEF HasWork, Interval
<1> HIDE DEF i, w
<1>7. i \in Nat /\ n * i <= w
  <2>1. i \in Int /\ w % n \in Nat /\ w = n * i + (w % n) /\ w % n < n
    BY <1>6, Division
  <2>2. i >= 0
    <3>1. SUFFICES ASSUME i <= -1 PROVE FALSE
      BY <2>1
    <3>2. n * i <= n * (-1)
      BY <2>1, <3>1, ProductGrows
    <3>3. QED
      BY <1>6, <2>1, <3>2
  <2>3. n * i \in Int
    BY <2>1
  <2>4. QED
    BY <1>6, <2>1, <2>2, <2>3
<1>8. ASSUME NEW k \in 1 .. n
      PROVE  /\ p.start <= s[k].time /\ s[k].time < p.end
             /\ k > 1 => s[k - 1].time <= s[k].time
  <2>1. s[k].time = p.start + i * (k - 1) /\ (k > 1 => s[k - 1].time = p.start + i * (k - 2))
    BY <1>1 DEF i
  <2>2. 0 <= i * (k - 1) /\ i * (k - 2) <= i * (k - 1) /\ i * (k - 2) \in Int /\ i * (k - 1) \in Int
    BY <1>7, ProductGrows, 0 * i = 0, i * (k - 1) = (k - 1) * i, i * (k - 2) = (k - 2) * i
  <2>3. i * (k - 1) < w
    <3>1. (k - 1) * i <= (n - 1) * i /\ i * (k - 1) = (k - 1) * i /\ (n - 1) * i = n * i - i /\ n * i \in Int
      BY <1>7, ProductGrows
    <3>2. CASE i = 0
      BY <1>6, <3>2, 0 * (k - 1) = 0
    <3>3. CASE i # 0
      BY <1>6, <1>7, <3>1, <3>3, <2>2
    <3>4. QED
      BY <3>2, <3>3
  <2> DEFINE x == i * (k - 1)
             y == i * (k - 2)
  <2>4. x \in Int /\ y \in Int /\ 0 <= x /\ y <= x /\ x < w
        /\ s[k].time = p.start + x /\ (k > 1 => s[k - 1].time = p.start + y)
    BY <2>1, <2>2, <2>3
  <2> HIDE DEF x, y
  <2>5. w \in Int /\ p.start \in Int /\ p.start + w = p.end
    BY <1>6 DEF w
  <2>6. p.start <= p.start + x /\ p.start + x < p.start + w /\ p.start + y <= p.start + x
    <3> HIDE DEF w
    <3>1. QED
      BY <2>4, <2>5
  <2>7. QED
    BY <2>4, <2>5, <2>6
<1>9. QED
  BY <1>1, <1>3, <1>4, <1>5, <1>8 DEF IsSchedule, f, q, s
-----------------------------------------------------------------------------
(***************************************************************************)
(* VWAP: the largest remainders                                            *)
(***************************************************************************)
\* The lists of VolumeBucket that the constructor of VolumeProfile lets through.
Profiles == {b \in Seq([start : Int, end : Int, weight : Int]) : ValidProfile(b)}

\* What the floors leave, the buckets that have a fraction, and who is ahead of whom.
UnitsLeft(q, b) == q - SumOf([k \in 1 .. Len(b) |-> Floor(q, b, k)])
WithFraction(q, b) == {k \in DOMAIN b : Fraction(q, b, k) > 0}
Ahead(q, b) ==
  {e \in (DOMAIN b) \X (DOMAIN b) :
     \/ Fraction(q, b, e[1]) > Fraction(q, b, e[2])
     \/ Fraction(q, b, e[1]) = Fraction(q, b, e[2]) /\ e[1] < e[2]}

LEMMA ProfileFacts ==
  ASSUME NEW b \in Profiles
  PROVE  /\ Len(b) \in Nat \ {0} /\ DOMAIN b = 1 .. Len(b) /\ IsFiniteSet(DOMAIN b)
         /\ \A k \in DOMAIN b : b[k].start \in Int /\ b[k].end \in Int /\ b[k].weight \in Nat
         /\ TotalWeight(b) \in Nat \ {0}
         /\ TotalWeight(b) = SumOver([k \in DOMAIN b |-> b[k].weight], 1 .. Len(b))
<1>1. b \in Seq([start : Int, end : Int, weight : Int]) /\ ValidProfile(b)
  BY DEF Profiles
<1>2. Len(b) \in Nat \ {0} /\ DOMAIN b = 1 .. Len(b)
  BY <1>1 DEF ValidProfile
<1>3. \A k \in DOMAIN b : b[k] \in [start : Int, end : Int, weight : Int]
  BY <1>1, <1>2, ElementOfSeq
<1>4. \A k \in DOMAIN b : b[k].start \in Int /\ b[k].end \in Int /\ b[k].weight \in Nat
  BY <1>1, <1>3 DEF ValidProfile
<1>5. IsFiniteSet(DOMAIN b)
  BY <1>2, FS_Interval
<1> DEFINE w == [k \in DOMAIN b |-> b[k].weight]
<1>6. DOMAIN w = 1 .. Len(b) /\ \A k \in 1 .. Len(b) : w[k] \in Int
  BY <1>2, <1>4
<1>7. TotalWeight(b) = SumOf(w) /\ SumOf(w) > 0
  BY <1>1 DEF TotalWeight, ValidProfile
<1> HIDE DEF w
<1>8. SumOf(w) = SumOver(w, 1 .. Len(b)) /\ SumOver(w, 1 .. Len(b)) \in Int
  BY <1>2, <1>6, SumOfIsSum
<1>9. TotalWeight(b) \in Nat \ {0} /\ TotalWeight(b) = SumOver(w, 1 .. Len(b))
  BY <1>7, <1>8
<1>10. QED
  BY <1>2, <1>4, <1>5, <1>9 DEF w

LEMMA TargetFacts ==
  ASSUME NEW b \in Profiles, NEW q \in Nat, NEW k \in DOMAIN b
  PROVE  /\ Target(q, b, k) = q * b[k].weight /\ Target(q, b, k) \in Nat
         /\ Floor(q, b, k) \in Nat
         /\ Fraction(q, b, k) \in Nat /\ Fraction(q, b, k) < TotalWeight(b)
         /\ Target(q, b, k) = TotalWeight(b) * Floor(q, b, k) + Fraction(q, b, k)
<1> DEFINE t == Target(q, b, k)
           w == TotalWeight(b)
<1>1. b[k].weight \in Nat /\ w \in Nat \ {0}
  BY ProfileFacts
<1>2. t = q * b[k].weight /\ t \in Nat
  BY <1>1 DEF Target
<1> HIDE DEF t, w
<1>3. t \div w \in Int /\ t % w \in Nat /\ t % w < w /\ t = w * (t \div w) + (t % w)
  <2>1. t \in Int /\ w \in Nat \ {0}
    BY <1>1, <1>2
  <2>2. QED
    BY <2>1, Division
<1>4. t \div w >= 0
  <2> DEFINE d == t \div w
             r == t % w
  <2>1. d \in Int /\ r \in Nat /\ r < w /\ t = w * d + r
    BY <1>3
  <2> HIDE DEF d, r
  <2>2. SUFFICES ASSUME d <= -1 PROVE FALSE
    BY <2>1 DEF d
  <2>3. w * d <= w * (-1) /\ w * d \in Int
    BY <1>1, <2>1, <2>2, ProductGrows, w * d = d * w, w * (-1) = (-1) * w
  <2>4. w * (-1) = -w
    BY <1>1
  <2> DEFINE x == w * d
  <2>5. x \in Int /\ x <= -w /\ t = x + r /\ t \in Nat /\ w \in Nat /\ r \in Nat /\ r < w
    BY <1>1, <1>2, <2>1, <2>3, <2>4
  <2> HIDE DEF x
  <2>6. QED
    BY <2>5
<1>5. Floor(q, b, k) = t \div w /\ Fraction(q, b, k) = t % w
  BY DEF Floor, Fraction, t, w
<1> DEFINE d == t \div w
           r == t % w
<1> HIDE DEF d, r
<1>6. d \in Nat /\ r \in Nat /\ r < w /\ t = w * d + r /\ Floor(q, b, k) = d /\ Fraction(q, b, k) = r
  BY <1>3, <1>4, <1>5 DEF d, r
<1>7. QED
  BY <1>2, <1>6 DEF t, w

\* The fractions of the floors' targets are what the floors leave, and fewer units are left
\* than there are buckets with a fraction, or none.
LEMMA FewUnitsAreLeft ==
  ASSUME NEW b \in Profiles, NEW q \in Nat
  PROVE  /\ UnitsLeft(q, b) \in Nat
         /\ UnitsLeft(q, b) <= Cardinality(WithFraction(q, b))
         /\ Cardinality(WithFraction(q, b)) <= Len(b)
         /\ SumOver([k \in DOMAIN b |-> Floor(q, b, k)], DOMAIN b) = q - UnitsLeft(q, b)
<1> DEFINE n == Len(b)
           w == TotalWeight(b)
           D == DOMAIN b
           Z == WithFraction(q, b)
           heft == [k \in D |-> b[k].weight]
           target == [k \in D |-> Target(q, b, k)]
           floor  == [k \in D |-> Floor(q, b, k)]
           whole  == [k \in D |-> w * Floor(q, b, k)]
           part   == [k \in D |-> Fraction(q, b, k)]
           one    == [k \in D |-> IF k \in Z THEN 1 ELSE 0]
           most   == [k \in D |-> (w - 1) * one[k]]
<1>1. /\ n \in Nat \ {0} /\ D = 1 .. n /\ IsFiniteSet(D) /\ w \in Nat \ {0}
      /\ w = SumOver(heft, D)
  BY ProfileFacts
<1>2. ASSUME NEW k \in D
      PROVE  /\ b[k].weight \in Nat /\ Target(q, b, k) = q * b[k].weight /\ Target(q, b, k) \in Nat
             /\ Floor(q, b, k) \in Nat /\ Fraction(q, b, k) \in Nat /\ Fraction(q, b, k) < w
             /\ Target(q, b, k) = w * Floor(q, b, k) + Fraction(q, b, k)
  BY ProfileFacts, TargetFacts
<1>3. Z \in SUBSET D /\ \A k \in D : k \in Z <=> Fraction(q, b, k) > 0
  BY DEF WithFraction
<1> HIDE DEF Z, w, D
<1>4. \A k \in D : heft[k] \in Int /\ target[k] = q * heft[k]
  BY <1>2
<1>5. \A k \in D : floor[k] \in Int /\ whole[k] = w * floor[k] /\ whole[k] \in Int
  BY <1>1, <1>2
<1>6. \A k \in D : part[k] \in Int /\ part[k] \in Nat /\ target[k] = whole[k] + part[k]
  BY <1>2
<1>7. \A k \in D : one[k] = (IF k \in Z THEN 1 ELSE 0) /\ one[k] \in Int /\ most[k] = (w - 1) * one[k]
  OBVIOUS
<1>8. \A k \in D : part[k] <= most[k] /\ most[k] \in Int
  <2> SUFFICES ASSUME NEW k \in D PROVE part[k] <= most[k] /\ most[k] \in Int
    OBVIOUS
  <2>1. part[k] = Fraction(q, b, k) /\ Fraction(q, b, k) \in Nat /\ Fraction(q, b, k) < w
    BY <1>2
  <2>2. CASE k \in Z
    BY <1>1, <1>7, <2>1, <2>2, (w - 1) * 1 = w - 1
  <2>3. CASE k \notin Z
    BY <1>1, <1>3, <1>7, <2>1, <2>3, (w - 1) * 0 = 0
  <2>4. QED
    BY <2>2, <2>3
<1> DEFINE F == SumOver(floor, D)
           P == SumOver(part, D)
<1>9. SumOver(target, D) = q * w
  <2> HIDE DEF heft, target
  <2>1. SumOver(target, D) = q * SumOver(heft, D)
    BY <1>1, <1>4, SumScales
  <2>2. QED
    BY <1>1, <2>1
<1>10. SumOver(whole, D) = w * F /\ F \in Int
  <2> HIDE DEF floor, whole
  <2>1. w \in Int /\ \A k \in D : floor[k] \in Int /\ whole[k] = w * floor[k]
    BY <1>1, <1>5
  <2>2. SumOver(whole, D) = w * F
    BY <1>1, <2>1, SumScales
  <2>3. F \in Int
    BY <1>1, <2>1, SumTakes
  <2>4. QED
    BY <2>2, <2>3
<1>11. SumOver(target, D) = w * F + P /\ P \in Nat
  <2> HIDE DEF whole, part, target
  <2>1. SumOver(target, D) = SumOver(whole, D) + P
    BY <1>1, <1>5, <1>6, SumOfSums
  <2>2. P \in Nat
    BY <1>1, <1>6, SumOfNaturals
  <2>3. QED
    BY <1>10, <2>1, <2>2
<1>12. SumOver(one, D) = Cardinality(Z)
  <2> HIDE DEF one
  <2>1. QED
    BY <1>1, <1>3, <1>7, SumCounts
<1>13. P <= (w - 1) * Cardinality(Z)
  <2>1. SumOver(most, D) = (w - 1) * SumOver(one, D)
    <3> HIDE DEF one, most
    <3>1. w - 1 \in Int
      BY <1>1
    <3>2. \A k \in D : one[k] \in Int /\ most[k] = (w - 1) * one[k]
      BY <1>7
    <3> DEFINE c == w - 1
    <3>3. c \in Int /\ \A k \in D : one[k] \in Int /\ most[k] = c * one[k]
      BY <3>1, <3>2
    <3> HIDE DEF c
    <3>4. SumOver(most, D) = c * SumOver(one, D)
      BY <1>1, <3>3, SumScales
    <3>5. QED
      BY <3>4 DEF c
  <2>2. P <= SumOver(most, D)
    <3> HIDE DEF part, most
    <3>1. QED
      BY <1>1, <1>6, <1>8, SumsCompare
  <2>3. QED
    BY <1>12, <2>1, <2>2
<1>14. UnitsLeft(q, b) = q - F
  <2>1. [k \in 1 .. Len(b) |-> Floor(q, b, k)] = floor
    BY <1>1
  <2>2. UnitsLeft(q, b) = q - SumOf(floor)
    BY <2>1 DEF UnitsLeft
  <2>3. DOMAIN floor = 1 .. n
    BY <1>1
  <2> HIDE DEF floor
  <2>4. SumOf(floor) = SumOver(floor, 1 .. n)
    BY <1>1, <1>5, <2>3, SumOfIsSum
  <2>5. QED
    BY <1>1, <2>2, <2>4
<1>15. Cardinality(Z) \in Nat /\ Cardinality(Z) <= n
  <2>1. Cardinality(D) = n
    <3>1. 1 \in Int /\ n \in Int /\ ~ (1 > n)
      BY <1>1
    <3>2. Cardinality(1 .. n) = n - 1 + 1
      BY <3>1, FS_Interval
    <3>3. QED
      BY <1>1, <3>2
  <2>2. IsFiniteSet(Z) /\ Cardinality(Z) <= Cardinality(D)
    BY <1>1, <1>3, FS_Subset
  <2>3. QED
    BY <2>1, <2>2, FS_CardinalityType
<1> DEFINE u == q - F
           z == Cardinality(Z)
<1>16. w * u = P /\ u \in Int
  <2> HIDE DEF F, P
  <2>1. q * w = w * F + P
    BY <1>9, <1>11
  <2>2. q * w = w * q /\ w * (q - F) = w * q - w * F /\ w * q \in Int /\ w * F \in Int
    <3>1. \A x, y, v \in Int : x * y = y * x /\ y * (x - v) = y * x - y * v /\ y * x \in Int /\ y * v \in Int
      OBVIOUS
    <3>2. q \in Int /\ w \in Int /\ F \in Int
      BY <1>1, <1>10
    <3>3. QED
      BY <3>1, <3>2
  <2>3. QED
    BY <1>10, <1>11, <2>1, <2>2
<1> HIDE DEF F, P
<1>17. u >= 0 /\ u <= z
  <2>0. P <= (w - 1) * z /\ z \in Nat
    BY <1>13, <1>15
  <2> HIDE DEF u, z
  <2>1. u >= 0
    <3>1. SUFFICES ASSUME u <= -1 PROVE FALSE
      BY <1>16
    <3>2. u * w <= (-1) * w /\ u * w = w * u
      BY <1>1, <1>16, <3>1, ProductGrows
    <3>3. QED
      BY <1>1, <1>11, <1>16, <3>2
  <2>2. u <= z
    <3>1. SUFFICES ASSUME z + 1 <= u PROVE FALSE
      BY <1>16, <2>0
    <3>2. z \in Nat /\ z + 1 \in Int
      BY <2>0
    <3>3. (z + 1) * w <= u * w /\ u * w = w * u
      BY <1>1, <1>16, <3>1, <3>2, ProductGrows
    <3>4. (z + 1) * w = z * w + w /\ (w - 1) * z = z * w - z /\ z * w \in Nat
      BY <1>1, <3>2
    <3>5. QED
      <4> DEFINE x == z * w
                 y == w * u
      <4>1. x \in Nat /\ x + w <= y /\ y <= x - z /\ y \in Int /\ w \in Nat \ {0} /\ z \in Nat
        BY <1>1, <1>11, <1>16, <2>0, <3>2, <3>3, <3>4
      <4> HIDE DEF x, y
      <4>2. QED
        BY <4>1
  <2>3. QED
    BY <2>1, <2>2
<1>18. QED
  BY <1>10, <1>14, <1>15, <1>16, <1>17 DEF F, D, Z
\* The sort is a total order of the buckets.
LEMMA RankFacts ==
  ASSUME NEW b \in Profiles, NEW q \in Nat
  PROVE  /\ TotalOrder(Ahead(q, b), Len(b))
         /\ \A k \in DOMAIN b : Rank(q, b, k) = Cardinality({j \in 1 .. Len(b) : <<j, k>> \in Ahead(q, b)})
         /\ \A j, k \in DOMAIN b :
              <<j, k>> \in Ahead(q, b) <=> \/ Fraction(q, b, j) > Fraction(q, b, k)
                                           \/ Fraction(q, b, j) = Fraction(q, b, k) /\ j < k
<1>1. Len(b) \in Nat \ {0} /\ DOMAIN b = 1 .. Len(b) /\ \A k \in DOMAIN b : k \in Int
  <2>1. Len(b) \in Nat \ {0} /\ DOMAIN b = 1 .. Len(b)
    BY ProfileFacts
  <2>2. QED
    BY <2>1
<1>2. \A k \in DOMAIN b : Fraction(q, b, k) \in Int
  BY TargetFacts
<1>3. \A j, k \in DOMAIN b :
        <<j, k>> \in Ahead(q, b) <=> \/ Fraction(q, b, j) > Fraction(q, b, k)
                                     \/ Fraction(q, b, j) = Fraction(q, b, k) /\ j < k
  BY DEF Ahead
<1>4. TotalOrder(Ahead(q, b), Len(b))
  BY <1>1, <1>2, <1>3 DEF TotalOrder
<1>5. ASSUME NEW k \in DOMAIN b
      PROVE  Rank(q, b, k) = Cardinality({j \in 1 .. Len(b) : <<j, k>> \in Ahead(q, b)})
  <2>1. {j \in 1 .. Len(b) : <<j, k>> \in Ahead(q, b)}
        = {j \in DOMAIN b : \/ Fraction(q, b, j) > Fraction(q, b, k)
                            \/ Fraction(q, b, j) = Fraction(q, b, k) /\ j < k}
    BY <1>1, <1>3
  <2>2. QED
    BY <2>1 DEF Rank
<1>6. QED
  BY <1>3, <1>4, <1>5

\* Nobody has two turns: the first buckets of the sort get one unit each.
LEMMA AllocationIs ==
  ASSUME NEW b \in Profiles, NEW q \in Nat, NEW k \in DOMAIN b
  PROVE  /\ Allocation(q, b, k) = Floor(q, b, k) + (IF Rank(q, b, k) < UnitsLeft(q, b) THEN 1 ELSE 0)
         /\ Rank(q, b, k) \in 0 .. Len(b) - 1
<1> DEFINE n == Len(b)
           u == UnitsLeft(q, b)
           r == Rank(q, b, k)
           turns == {turn \in 0 .. (u - 1) : turn % n = r}
<1>1. n \in Nat \ {0} /\ DOMAIN b = 1 .. n /\ u \in Nat /\ u <= n
  <2>1. Cardinality(WithFraction(q, b)) <= Len(b) /\ u <= Cardinality(WithFraction(q, b)) /\ u \in Nat
    BY FewUnitsAreLeft
  <2>2. IsFiniteSet(WithFraction(q, b))
    <3>1. WithFraction(q, b) \in SUBSET (DOMAIN b)
      BY DEF WithFraction
    <3>2. QED
      BY <3>1, ProfileFacts, FS_Subset
  <2>3. Cardinality(WithFraction(q, b)) \in Nat
    BY <2>2, FS_CardinalityType
  <2>4. QED
    BY <2>1, <2>3, ProfileFacts
<1>2. r \in 0 .. n - 1
  <2> DEFINE rank == [j \in 1 .. n |-> Rank(q, b, j)]
  <2>1. TotalOrder(Ahead(q, b), n)
        /\ \A j \in 1 .. n : rank[j] = Cardinality({i \in 1 .. n : <<i, j>> \in Ahead(q, b)})
    <3>1. /\ TotalOrder(Ahead(q, b), Len(b))
          /\ \A j \in DOMAIN b : Rank(q, b, j) = Cardinality({i \in 1 .. Len(b) : <<i, j>> \in Ahead(q, b)})
      BY RankFacts
    <3>2. \A j \in 1 .. n : rank[j] = Rank(q, b, j) /\ j \in DOMAIN b
      BY <1>1
    <3> HIDE DEF rank
    <3>3. QED
      BY <3>1, <3>2
  <2> HIDE DEF rank
  <2>2. \A j \in 1 .. n : rank[j] \in 0 .. n - 1
    BY <1>1, <2>1, RanksAreOneToOne
  <2>3. QED
    BY <1>1, <2>2 DEF rank
<1>3. Allocation(q, b, k) = Floor(q, b, k) + Cardinality(turns)
  BY DEF Allocation, UnitsLeft
<1> HIDE DEF n, u, r
<1>4. turns = IF r < u THEN {r} ELSE {}
  <2>1. ASSUME NEW turn \in 0 .. (u - 1) PROVE turn % n = turn
    <3>1. turn \in Nat /\ turn < n /\ n * 0 + turn = turn
      BY <1>1, n * 0 = 0
    <3>2. QED
      BY <1>1, <3>1, DivisionIsUnique
  <2>2. QED
    BY <1>1, <1>2, <2>1
<1> HIDE DEF turns
<1>5. Cardinality(turns) = IF r < u THEN 1 ELSE 0
  BY <1>4, FS_EmptySet, FS_Singleton
<1>6. QED
  BY <1>2, <1>3, <1>5 DEF n, u, r

\* The allocations are naturals and add up to the quantity, whatever the weights.
LEMMA AllocationsAddUp ==
  ASSUME NEW b \in Profiles, NEW q \in Nat,
         NEW f, \A k \in DOMAIN b : f[k] = Allocation(q, b, k)
  PROVE  SumOver(f, DOMAIN b) = q /\ \A k \in DOMAIN b : f[k] \in Nat
<1> DEFINE n == Len(b)
           D == DOMAIN b
           u == UnitsLeft(q, b)
           rank == [k \in D |-> Rank(q, b, k)]
           low == {k \in 1 .. n : rank[k] < u}
           floor == [k \in D |-> Floor(q, b, k)]
           bonus == [k \in D |-> IF k \in low THEN 1 ELSE 0]
<1>1. n \in Nat \ {0} /\ D = 1 .. n /\ IsFiniteSet(D)
  BY ProfileFacts
<1>2. u \in Nat /\ u <= n /\ SumOver(floor, D) = q - u
  <2>1. Cardinality(WithFraction(q, b)) <= Len(b) /\ u <= Cardinality(WithFraction(q, b)) /\ u \in Nat
        /\ SumOver(floor, D) = q - u
    BY FewUnitsAreLeft
  <2>2. IsFiniteSet(WithFraction(q, b))
    <3>1. WithFraction(q, b) \in SUBSET (DOMAIN b)
      BY DEF WithFraction
    <3>2. QED
      BY <3>1, ProfileFacts, FS_Subset
  <2>3. Cardinality(WithFraction(q, b)) \in Nat
    BY <2>2, FS_CardinalityType
  <2>4. QED
    BY <1>1, <2>1, <2>3
<1>3. TotalOrder(Ahead(q, b), n)
      /\ \A j \in 1 .. n : rank[j] = Cardinality({i \in 1 .. n : <<i, j>> \in Ahead(q, b)})
  <2>1. /\ TotalOrder(Ahead(q, b), Len(b))
        /\ \A k \in DOMAIN b : Rank(q, b, k) = Cardinality({i \in 1 .. Len(b) : <<i, k>> \in Ahead(q, b)})
    BY RankFacts
  <2>2. \A j \in D : rank[j] = Rank(q, b, j)
    OBVIOUS
  <2> HIDE DEF rank
  <2>3. QED
    BY <1>1, <2>1, <2>2
<1>4. \A k \in D : f[k] = floor[k] + (IF rank[k] < u THEN 1 ELSE 0) /\ floor[k] \in Nat
  BY AllocationIs, TargetFacts
<1> HIDE DEF rank, floor, u, D, n
<1>5. Cardinality(low) = u
  <2>1. u \in 0 .. n /\ n \in Nat
    BY <1>1, <1>2
  <2>2. QED
    BY <1>3, <2>1, RanksBelow
<1>6. low \in SUBSET D /\ \A k \in D : k \in low <=> rank[k] < u
  BY <1>1
<1> HIDE DEF low
<1>7. \A k \in D : bonus[k] = IF k \in low THEN 1 ELSE 0
  OBVIOUS
<1> HIDE DEF bonus
<1>8. SumOver(bonus, D) = u
  BY <1>1, <1>5, <1>6, <1>7, SumCounts
<1>9. \A k \in D : floor[k] \in Int /\ bonus[k] \in Int /\ f[k] = floor[k] + bonus[k] /\ f[k] \in Nat
  BY <1>4, <1>6, <1>7
<1>10. SumOver(f, D) = SumOver(floor, D) + SumOver(bonus, D)
  BY <1>1, <1>9, SumOfSums
<1>11. QED
  BY <1>2, <1>8, <1>9, <1>10 DEF D

\* Only a bucket with a fraction is rounded up, and not before one with a larger fraction.
LEMMA RoundedInTurn ==
  ASSUME NEW b \in Profiles, NEW q \in Nat, NEW k \in DOMAIN b, Rank(q, b, k) < UnitsLeft(q, b)
  PROVE  /\ Fraction(q, b, k) > 0
         /\ \A j \in DOMAIN b : Fraction(q, b, j) > Fraction(q, b, k) => Rank(q, b, j) < UnitsLeft(q, b)
<1> DEFINE n == Len(b)
           D == DOMAIN b
           u == UnitsLeft(q, b)
           Z == WithFraction(q, b)
           before == Ahead(q, b)
           rank == [j \in D |-> Rank(q, b, j)]
           front == {j \in 1 .. n : <<j, k>> \in before}
<1>1. n \in Nat \ {0} /\ D = 1 .. n /\ IsFiniteSet(D)
  BY ProfileFacts
<1>2. u \in Nat /\ u <= Cardinality(Z)
  BY FewUnitsAreLeft
<1>3. /\ TotalOrder(before, n)
      /\ \A j \in 1 .. n : rank[j] = Cardinality({i \in 1 .. n : <<i, j>> \in before})
      /\ \A i, j \in D : <<i, j>> \in before <=> \/ Fraction(q, b, i) > Fraction(q, b, j)
                                                 \/ Fraction(q, b, i) = Fraction(q, b, j) /\ i < j
  <2>1. /\ TotalOrder(Ahead(q, b), Len(b))
        /\ \A j \in DOMAIN b : Rank(q, b, j) = Cardinality({i \in 1 .. Len(b) : <<i, j>> \in Ahead(q, b)})
        /\ \A i, j \in DOMAIN b :
             <<i, j>> \in Ahead(q, b) <=> \/ Fraction(q, b, i) > Fraction(q, b, j)
                                          \/ Fraction(q, b, i) = Fraction(q, b, j) /\ i < j
    BY RankFacts, Zenon
  <2>2. \A j \in 1 .. n : rank[j] = Rank(q, b, j) /\ j \in DOMAIN b
    BY <1>1
  <2> HIDE DEF rank
  <2>3. QED
    BY <2>1, <2>2
<1>4. \A j \in D : Fraction(q, b, j) \in Nat
  BY TargetFacts
<1>5. Z \in SUBSET D /\ \A j \in D : j \in Z <=> Fraction(q, b, j) > 0
  BY DEF WithFraction
<1>6. rank[k] < u /\ k \in D
  OBVIOUS
<1>7. front \in SUBSET D /\ rank[k] = Cardinality(front)
  BY <1>1, <1>3
<1>8. Fraction(q, b, k) > 0
  <2>1. SUFFICES ASSUME Fraction(q, b, k) = 0 PROVE FALSE
    BY <1>4
  <2>2. Z \in SUBSET front
    BY <1>1, <1>3, <1>5, <2>1
  <2> HIDE DEF front, Z, rank, u
  <2>3. IsFiniteSet(front)
    BY <1>1, <1>7, FS_Subset
  <2>4. Cardinality(Z) <= Cardinality(front) /\ IsFiniteSet(Z)
    BY <2>2, <2>3, FS_Subset
  <2>5. Cardinality(Z) \in Nat /\ Cardinality(front) \in Nat
    BY <2>3, <2>4, FS_CardinalityType
  <2>6. QED
    BY <1>2, <1>6, <1>7, <2>4, <2>5
<1>9. ASSUME NEW j \in D, Fraction(q, b, j) > Fraction(q, b, k)
      PROVE  rank[j] < u
  <2>1. <<j, k>> \in before
    BY <1>3, <1>9
  <2> HIDE DEF rank, before, u, D, front
  <2>2. /\ \A i \in 1 .. n : rank[i] \in 0 .. n - 1
        /\ \A i, l \in 1 .. n : rank[i] < rank[l] <=> <<i, l>> \in before
    BY <1>1, <1>3, RanksAreOneToOne
  <2>3. rank[j] < rank[k] /\ rank[j] \in Int /\ rank[k] \in Int
    BY <1>1, <1>6, <2>1, <2>2
  <2>4. QED
    BY <1>2, <1>6, <2>3
<1>10. QED
  BY <1>8, <1>9
-----------------------------------------------------------------------------
(***************************************************************************)
(* VWAP: the list of slices                                                *)
(***************************************************************************)
Slices == [quantity : Nat, time : Int]

Slice(q, b, k) == [quantity |-> Allocation(q, b, k), time |-> b[k].start]

\* g has the list of slices after each turn of the last loop of generate_schedule.
Loop(g, q, b) ==
  /\ g[0] = <<>>
  /\ \A k \in 1 .. Len(b) :
       g[k] = IF Allocation(q, b, k) = 0 THEN g[k - 1] ELSE Append(g[k - 1], Slice(q, b, k))

LEMMA VwapLoops ==
  ASSUME NEW b \in Profiles, NEW p, HasWork(p)
  PROVE  \E g : Loop(g, Unexecuted(p), b) /\ VWAP(p, b) = g[Len(b)]
<1> DEFINE q == Unexecuted(p)
           n == Len(b)
           V == Seq(Slices)
           step == [e \in (1 .. n) \X V |->
                      IF Allocation(q, b, e[1]) = 0 THEN e[2] ELSE Append(e[2], Slice(q, b, e[1]))]
           Iter(g) == g = [k \in 0 .. n |->
                             IF k = 0 THEN <<>>
                             ELSE IF Allocation(q, b, k) = 0 THEN g[k - 1]
                                  ELSE Append(g[k - 1], Slice(q, b, k))]
<1>1. n \in Nat \ {0} /\ DOMAIN b = 1 .. n /\ q \in Nat /\ CanGenerateChildren(p)
  BY ProfileFacts DEF HasWork
<1>2. \A k \in 1 .. n : Slice(q, b, k) \in Slices
  <2> DEFINE f == [k \in DOMAIN b |-> Allocation(q, b, k)]
  <2>1. \A k \in DOMAIN b : f[k] = Allocation(q, b, k)
    OBVIOUS
  <2> HIDE DEF f, q
  <2>2. \A k \in DOMAIN b : f[k] \in Nat
    BY <1>1, <2>1, AllocationsAddUp
  <2>3. \A k \in DOMAIN b : b[k].start \in Int
    BY ProfileFacts
  <2>4. QED
    BY <1>1, <2>1, <2>2, <2>3 DEF Slice, Slices
<1>3. VWAP(p, b) = (CHOOSE g : Iter(g))[n]
  BY <1>1, Zenon DEF VWAP, Slice
<1> HIDE DEF q, n
<1>4. <<>> \in V /\ step \in [(1 .. n) \X V -> V]
  <2>1. <<>> \in V
    OBVIOUS
  <2>2. ASSUME NEW e \in (1 .. n) \X V
        PROVE  (IF Allocation(q, b, e[1]) = 0 THEN e[2] ELSE Append(e[2], Slice(q, b, e[1]))) \in V
    <3>1. e[2] \in Seq(Slices) /\ Slice(q, b, e[1]) \in Slices
      BY <1>2, <2>2
    <3>2. Append(e[2], Slice(q, b, e[1])) \in Seq(Slices)
      BY <3>1, AppendProperties
    <3>3. QED
      BY <3>1, <3>2
  <2>3. QED
    BY <2>1, <2>2
<1> HIDE DEF V
<1>5. PICK h \in [0 .. n -> V] : Recurs(h, <<>>, step, n)
  <2> HIDE DEF step
  <2>1. QED
    BY <1>1, <1>4, RecursionExists
<1>6. \E g : Iter(g)
  <2>1. \A k \in 0 .. n :
          h[k] = IF k = 0 THEN <<>>
                 ELSE IF Allocation(q, b, k) = 0 THEN h[k - 1] ELSE Append(h[k - 1], Slice(q, b, k))
    <3> SUFFICES ASSUME NEW k \in 0 .. n
                 PROVE  h[k] = IF k = 0 THEN <<>>
                               ELSE IF Allocation(q, b, k) = 0 THEN h[k - 1]
                                    ELSE Append(h[k - 1], Slice(q, b, k))
      OBVIOUS
    <3>1. CASE k = 0
      BY <1>5, <3>1 DEF Recurs
    <3>2. CASE k # 0
      <4>1. k \in 1 .. n /\ k - 1 \in 0 .. n
        BY <1>1, <3>2
      <4>2. h[k] = step[<<k, h[k - 1]>>] /\ h[k - 1] \in V
        BY <1>5, <4>1 DEF Recurs
      <4>3. step[<<k, h[k - 1]>>]
              = IF Allocation(q, b, k) = 0 THEN h[k - 1] ELSE Append(h[k - 1], Slice(q, b, k))
        BY <4>1, <4>2
      <4>4. QED
        BY <3>2, <4>2, <4>3
    <3>3. QED
      BY <3>1, <3>2
  <2>2. h = [k \in 0 .. n |-> h[k]]
    BY <1>5
  <2>3. Iter(h)
    BY <2>1, <2>2, Zenon
  <2>4. QED
    BY <2>3, Zenon
<1> DEFINE g == CHOOSE g : Iter(g)
<1>7. Iter(g)
  BY <1>6, Zenon
<1> HIDE DEF g
<1>8. Loop(g, q, b)
  <2>1. \A k \in 0 .. n :
          g[k] = IF k = 0 THEN <<>>
                 ELSE IF Allocation(q, b, k) = 0 THEN g[k - 1] ELSE Append(g[k - 1], Slice(q, b, k))
    BY <1>7
  <2>2. 0 \in 0 .. n /\ \A k \in 1 .. n : k \in 0 .. n /\ k # 0
    BY <1>1
  <2>3. QED
    BY <2>1, <2>2 DEF Loop, n
<1>9. QED
  BY <1>3, <1>8 DEF g, n, q

\* A slice at the end adds its quantity.
LEMMA SumOfAppend ==
  ASSUME NEW s \in Seq(Slices), NEW x \in Slices
  PROVE  SumOf(Quantities(Append(s, x))) = SumOf(Quantities(s)) + x.quantity
<1> DEFINE m == Len(s)
           f == Quantities(s)
           g == Quantities(Append(s, x))
<1>1. /\ m \in Nat /\ DOMAIN s = 1 .. m
      /\ Append(s, x) \in Seq(Slices) /\ Len(Append(s, x)) = m + 1
      /\ Append(s, x)[m + 1] = x /\ \A k \in 1 .. m : Append(s, x)[k] = s[k] /\ s[k] \in Slices
  BY AppendProperties, ElementOfSeq, LenProperties
<1>2. DOMAIN f = 1 .. m /\ \A k \in 1 .. m : f[k] = s[k].quantity /\ f[k] \in Int
  BY <1>1 DEF Quantities, Slices
<1>3. DOMAIN g = 1 .. (m + 1) /\ g[m + 1] = x.quantity /\ \A k \in 1 .. m : g[k] = s[k].quantity
  <2>1. DOMAIN Append(s, x) = 1 .. (m + 1)
    BY <1>1, LenProperties
  <2>2. QED
    BY <1>1, <2>1 DEF Quantities
<1>4. x.quantity \in Int
  BY DEF Slices
<1> HIDE DEF f, g, m
<1>5. SumOf(f) = SumOver(f, 1 .. m) /\ SumOver(f, 1 .. m) \in Int
  BY <1>1, <1>2, SumOfIsSum
<1>6. \A k \in 1 .. (m + 1) : g[k] \in Int
  <2>1. \A k \in 1 .. (m + 1) : k = m + 1 \/ k \in 1 .. m
    BY <1>1
  <2>2. QED
    BY <1>2, <1>3, <1>4, <2>1
<1>7. SumOf(g) = SumOver(g, 1 .. (m + 1))
  BY <1>1, <1>3, <1>6, SumOfIsSum
<1>8. 1 .. (m + 1) = (1 .. m) \cup {m + 1} /\ m + 1 \notin 1 .. m
  BY <1>1
<1>9. IsFiniteSet(1 .. m)
  BY <1>1, FS_Interval
<1>10. SumOver(g, (1 .. m) \cup {m + 1}) = SumOver(g, 1 .. m) + g[m + 1]
  BY <1>6, <1>8, <1>9, SumAddsOne
<1>11. SumOver(g, 1 .. m) = SumOver(f, 1 .. m)
  <2>1. \A k \in 1 .. m : f[k] \in Int /\ g[k] = f[k]
    BY <1>2, <1>3
  <2>2. QED
    BY <1>9, <2>1, SumSame, Zenon
<1>12. SumOf(g) = SumOf(f) + x.quantity
  BY <1>3, <1>5, <1>7, <1>8, <1>10, <1>11
<1>13. QED
  BY <1>12 DEF f, g

\* Buckets follow each other.
LEMMA BucketsInOrder ==
  ASSUME NEW b \in Profiles, NEW k \in DOMAIN b, NEW j \in DOMAIN b, j <= k
  PROVE  b[j].start <= b[k].start
<1> DEFINE B == {i \in DOMAIN b : j <= i /\ ~ (b[j].start <= b[i].start)}
<1>1. /\ Len(b) \in Nat \ {0} /\ DOMAIN b = 1 .. Len(b)
      /\ \A i \in DOMAIN b : b[i].start \in Int /\ b[i].end \in Int
  BY ProfileFacts
<1>2. \A i \in DOMAIN b : b[i].start < b[i].end /\ (i > 1 => b[i].start >= b[i - 1].end)
  BY DEF Profiles, ValidProfile
<1>3. SUFFICES ASSUME B # {} PROVE FALSE
  OBVIOUS
<1>4. PICK i \in B : \A l \in B : i <= l
  <2> HIDE DEF B
  <2>1. B \subseteq Nat
    BY <1>1 DEF B
  <2>2. QED
    BY <1>3, <2>1, LeastExists
<1>5. i \in DOMAIN b /\ j <= i /\ ~ (b[j].start <= b[i].start)
  BY <1>4
<1>6. i # j
  BY <1>1, <1>5
<1>7. i - 1 \in DOMAIN b /\ i > 1 /\ j <= i - 1 /\ ~ (i <= i - 1)
  BY <1>1, <1>5, <1>6
<1>8. b[j].start <= b[i - 1].start
  BY <1>4, <1>7
<1>9. QED
  BY <1>1, <1>2, <1>5, <1>7, <1>8

\* What the last loop has made of the first k buckets.
Taken(s, q, b, k) ==
  /\ s \in Seq(Slices)
  /\ SumOf(Quantities(s)) = SumOver([j \in DOMAIN b |-> Allocation(q, b, j)], 1 .. k)
  /\ \A i \in DOMAIN s : \E j \in 1 .. k : s[i] = Slice(q, b, j) /\ Allocation(q, b, j) > 0
  /\ \A i \in DOMAIN s : i > 1 => s[i - 1].time <= s[i].time

LEMMA NoneIsTaken ==
  ASSUME NEW q, NEW b
  PROVE  Taken(<<>>, q, b, 0)
<1> DEFINE f == Quantities(<<>>)
           z == SumOver([j \in DOMAIN b |-> Allocation(q, b, j)], 1 .. 0)
<1>1. DOMAIN f = 1 .. 0 /\ 1 .. 0 = {}
  BY DEF Quantities
<1>2. \A h : SumOver(h, 1 .. 0) = 0
  <2>1. \A S, h : S = {} => SumOver(h, S) = 0
    BY SumTakes, FS_EmptySet
  <2>2. QED
    BY <1>1, <2>1, Zenon
<1> HIDE DEF f
<1>3. SumOf(f) = SumOver(f, 1 .. 0)
  <2>1. \A k \in 1 .. 0 : f[k] \in Int
    BY <1>1
  <2>2. 0 \in Nat
    OBVIOUS
  <2>3. QED
    BY <1>1, <2>1, <2>2, SumOfIsSum
<1>4. SumOver(f, 1 .. 0) = 0 /\ z = 0
  BY <1>2, Zenon
<1> HIDE DEF z
<1>5. SumOf(f) = z
  BY <1>3, <1>4
<1>6. <<>> \in Seq(Slices) /\ DOMAIN (<<>>) = {}
  OBVIOUS
<1>7. QED
  BY <1>5, <1>6 DEF Taken, f, z

LEMMA OneIsTaken ==
  ASSUME NEW b \in Profiles, NEW q \in Nat, NEW k \in DOMAIN b, NEW s, Taken(s, q, b, k - 1)
  PROVE  Taken(IF Allocation(q, b, k) = 0 THEN s ELSE Append(s, Slice(q, b, k)), q, b, k)
<1> DEFINE f == [j \in DOMAIN b |-> Allocation(q, b, j)]
           x == Slice(q, b, k)
           t == Append(s, x)
           m == Len(s)
<1>1. Len(b) \in Nat \ {0} /\ DOMAIN b = 1 .. Len(b) /\ \A j \in DOMAIN b : b[j].start \in Int
  BY ProfileFacts
<1>2. \A j \in DOMAIN b : f[j] = Allocation(q, b, j)
  OBVIOUS
<1> HIDE DEF f
<1>3. \A j \in DOMAIN b : f[j] \in Nat
  BY <1>2, AllocationsAddUp
<1>4. x \in Slices /\ x.quantity = f[k] /\ x.time = b[k].start
  BY <1>1, <1>2, <1>3 DEF Slice, Slices
<1>5. k \in Nat \ {0} /\ 1 .. k = (1 .. (k - 1)) \cup {k} /\ k \notin 1 .. (k - 1)
  BY <1>1
<1>6. SumOver(f, 1 .. k) = SumOver(f, 1 .. (k - 1)) + f[k]
  <2>1. IsFiniteSet(1 .. (k - 1))
    BY <1>5, FS_Interval
  <2>2. \A j \in 1 .. (k - 1) : f[j] \in Int
    BY <1>1, <1>3
  <2>3. f[k] \in Int
    BY <1>3
  <2>4. SumOver(f, (1 .. (k - 1)) \cup {k}) = SumOver(f, 1 .. (k - 1)) + f[k]
    <3>1. \A j \in (1 .. (k - 1)) \cup {k} : f[j] \in Int
      BY <2>2, <2>3
    <3>2. QED
      BY <1>5, <2>1, <3>1, SumAddsOne
  <2>5. QED
    BY <1>5, <2>4
<1>7. SumOver(f, 1 .. (k - 1)) \in Int
  <2>1. IsFiniteSet(1 .. (k - 1))
    BY <1>5, FS_Interval
  <2>2. \A j \in 1 .. (k - 1) : f[j] \in Int
    BY <1>1, <1>3
  <2>3. QED
    BY <2>1, <2>2, SumTakes
<1>8. /\ s \in Seq(Slices) /\ SumOf(Quantities(s)) = SumOver(f, 1 .. (k - 1))
      /\ \A i \in DOMAIN s : \E j \in 1 .. (k - 1) : s[i] = Slice(q, b, j) /\ Allocation(q, b, j) > 0
      /\ \A i \in DOMAIN s : i > 1 => s[i - 1].time <= s[i].time
  BY DEF Taken, f
<1>9. CASE Allocation(q, b, k) = 0
  <2>1. SumOf(Quantities(s)) = SumOver(f, 1 .. k)
    BY <1>2, <1>6, <1>7, <1>8, <1>9
  <2>2. \A i \in DOMAIN s : \E j \in 1 .. k : s[i] = Slice(q, b, j) /\ Allocation(q, b, j) > 0
    BY <1>5, <1>8
  <2>3. QED
    BY <1>8, <1>9, <2>1, <2>2 DEF Taken, f
<1>10. CASE Allocation(q, b, k) # 0
  <2>1. /\ m \in Nat /\ DOMAIN s = 1 .. m
        /\ t \in Seq(Slices) /\ DOMAIN t = 1 .. (m + 1)
        /\ t[m + 1] = x /\ \A i \in 1 .. m : t[i] = s[i]
    BY <1>4, <1>8, AppendProperties, LenProperties
  <2>2. SumOf(Quantities(t)) = SumOf(Quantities(s)) + x.quantity
    BY <1>4, <1>8, SumOfAppend
  <2>3. SumOf(Quantities(t)) = SumOver(f, 1 .. k)
    BY <1>4, <1>6, <1>8, <2>2
  <2>4. Allocation(q, b, k) > 0
    BY <1>2, <1>3, <1>10
  <2> HIDE DEF t, x, m
  <2>5. \A i \in 1 .. (m + 1) : i = m + 1 \/ i \in DOMAIN s
    BY <2>1
  <2>6. \A i \in DOMAIN t : \E j \in 1 .. k : t[i] = Slice(q, b, j) /\ Allocation(q, b, j) > 0
    <3> SUFFICES ASSUME NEW i \in DOMAIN t
                 PROVE  \E j \in 1 .. k : t[i] = Slice(q, b, j) /\ Allocation(q, b, j) > 0
      OBVIOUS
    <3>1. CASE i = m + 1
      <4>1. t[i] = Slice(q, b, k) /\ k \in 1 .. k
        BY <1>5, <2>1, <3>1 DEF x
      <4>2. QED
        BY <2>4, <4>1
    <3>2. CASE i \in DOMAIN s
      BY <1>5, <1>8, <2>1, <3>2
    <3>3. QED
      BY <2>1, <2>5, <3>1, <3>2
  <2>7. ASSUME NEW i \in DOMAIN t, i > 1 PROVE t[i - 1].time <= t[i].time
    <3>1. CASE i \in DOMAIN s
      <4>1. i - 1 \in DOMAIN s
        BY <2>1, <2>7, <3>1
      <4>2. QED
        BY <1>8, <2>1, <2>7, <3>1, <4>1
    <3>2. CASE i = m + 1
      <4>1. m \in DOMAIN s /\ i - 1 = m
        BY <2>1, <2>7, <3>2
      <4>2. PICK j \in 1 .. (k - 1) : s[m] = Slice(q, b, j)
        BY <1>8, <4>1
      <4>3. j \in DOMAIN b /\ j <= k
        BY <1>1, <4>2
      <4>4. b[j].start <= b[k].start
        BY <4>3, BucketsInOrder
      <4>5. s[m].time = b[j].start
        BY <4>2 DEF Slice
      <4>6. t[i - 1] = s[m] /\ t[i] = x
        BY <2>1, <3>2, <4>1
      <4>7. QED
        BY <1>4, <4>4, <4>5, <4>6
    <3>3. QED
      BY <2>1, <2>5, <3>1, <3>2
  <2>8. Taken(t, q, b, k)
    BY <2>1, <2>3, <2>6, <2>7 DEF Taken, f
  <2>9. QED
    BY <1>10, <2>8 DEF t, x
<1>11. QED
  BY <1>9, <1>10

\* VWAP makes a schedule of any parent with work left, for any profile inside its horizon:
\* whatever the weights leave to the remainders, the slices are all of the quantity, none is
\* empty, and they are in time order and inside the horizon (VWAP::generate_schedule).
THEOREM VwapIsSchedule ==
  ASSUME NEW p, HasWork(p), NEW b \in Profiles, InHorizon(p, b)
  PROVE  IsSchedule(VWAP(p, b), p)
<1> DEFINE q == Unexecuted(p)
           n == Len(b)
           s == VWAP(p, b)
           f == [j \in DOMAIN b |-> Allocation(q, b, j)]
<1>1. n \in Nat \ {0} /\ DOMAIN b = 1 .. n /\ \A j \in DOMAIN b : b[j].start \in Int /\ b[j].end \in Int
  BY ProfileFacts
<1>2. q \in Nat /\ p.start \in Int /\ p.end \in Int
  BY DEF HasWork
<1>3. PICK g : Loop(g, q, b) /\ s = g[n]
  BY VwapLoops, Zenon
<1>4. p.start <= b[1].start /\ b[n].end <= p.end
  BY DEF InHorizon
<1> HIDE DEF q, n, s
<1> DEFINE Done(k) == Taken(g[k], q, b, k)
           Not == {k \in 0 .. n : ~ Done(k)}
<1>5. Done(0)
  BY <1>3, NoneIsTaken DEF Loop
<1>6. ASSUME NEW k \in 1 .. n, Done(k - 1) PROVE Done(k)
  <2>1. Taken(IF Allocation(q, b, k) = 0 THEN g[k - 1] ELSE Append(g[k - 1], Slice(q, b, k)), q, b, k)
    BY <1>1, <1>2, <1>6, OneIsTaken
  <2>2. g[k] = IF Allocation(q, b, k) = 0 THEN g[k - 1] ELSE Append(g[k - 1], Slice(q, b, k))
    BY <1>3 DEF Loop, n
  <2>3. QED
    BY <2>1, <2>2
<1>7. Done(n)
  <2> HIDE DEF Done
  <2>1. SUFFICES ASSUME Not # {} PROVE FALSE
    BY <1>1
  <2>2. Not \subseteq Nat
    BY <1>1
  <2>3. PICK k \in Not : \A l \in Not : k <= l
    <3> HIDE DEF Not
    <3>1. QED
      BY <2>1, <2>2, LeastExists
  <2>4. k \in 1 .. n /\ k - 1 \in 0 .. n /\ ~ (k <= k - 1)
    BY <1>1, <1>5, <2>3
  <2>5. Done(k - 1)
    BY <2>3, <2>4
  <2>6. QED
    BY <1>6, <2>3, <2>4, <2>5
<1>8. /\ s \in Seq(Slices) /\ SumOf(Quantities(s)) = SumOver(f, 1 .. n)
      /\ \A i \in DOMAIN s : \E j \in 1 .. n : s[i] = Slice(q, b, j) /\ Allocation(q, b, j) > 0
      /\ \A i \in DOMAIN s : i > 1 => s[i - 1].time <= s[i].time
  BY <1>3, <1>7 DEF Taken
<1>9. SumOver(f, 1 .. n) = q
  <2>1. \A j \in DOMAIN b : f[j] = Allocation(q, b, j)
    OBVIOUS
  <2> HIDE DEF f
  <2>2. SumOver(f, DOMAIN b) = q
    BY <1>2, <2>1, AllocationsAddUp
  <2>3. QED
    BY <1>1, <2>2
<1>10. ASSUME NEW i \in DOMAIN s
       PROVE  s[i].quantity > 0 /\ p.start <= s[i].time /\ s[i].time < p.end
  <2>1. PICK j \in 1 .. n : s[i] = Slice(q, b, j) /\ Allocation(q, b, j) > 0
    BY <1>8
  <2>2. s[i].quantity = Allocation(q, b, j) /\ s[i].time = b[j].start
    BY <2>1 DEF Slice
  <2>3. 1 \in DOMAIN b /\ n \in DOMAIN b /\ j \in DOMAIN b /\ 1 <= j /\ j <= n
    BY <1>1, <2>1
  <2>4. b[1].start <= b[j].start /\ b[j].start <= b[n].start
    BY <2>3, BucketsInOrder
  <2>5. b[n].start < b[n].end
    BY <2>3 DEF Profiles, ValidProfile
  <2>6. QED
    BY <1>1, <1>2, <1>4, <2>1, <2>2, <2>3, <2>4, <2>5
<1>11. QED
  BY <1>8, <1>9, <1>10 DEF IsSchedule, s, q
-----------------------------------------------------------------------------
(***************************************************************************)
(* The shape of the schedules                                              *)
(***************************************************************************)
\* The larger of TWAP's slices come first, and by one unit at most.
THEOREM TwapIsEven ==
  ASSUME NEW p, HasWork(p), NEW m \in Nat \ {0}
  PROVE  \A j, k \in DOMAIN TWAP(p, m) :
           j <= k => TWAP(p, m)[j].quantity \in {TWAP(p, m)[k].quantity, TWAP(p, m)[k].quantity + 1}
<1> DEFINE q == Unexecuted(p)
           s == TWAP(p, m)
<1>1. PICK n \in Nat \ {0} :
        /\ n <= q /\ DOMAIN s = 1 .. n
        /\ \A k \in 1 .. n : s[k] = [quantity |-> Share(q, n, k), time |-> p.start + Interval(p, n) * (k - 1)]
  BY TwapIs, Zenon
<1>2. q \in Nat
  BY DEF HasWork
<1> HIDE DEF q, s
<1> DEFINE a == q \div n
           r == q % n
<1>3. a \in Int /\ r \in Nat
  BY <1>1, <1>2, Division
<1>4. \A k \in 1 .. n : s[k].quantity = a + (IF k <= r THEN 1 ELSE 0)
  BY <1>1 DEF Share
<1> HIDE DEF a, r
<1>5. ASSUME NEW j \in 1 .. n, NEW k \in 1 .. n, j <= k
      PROVE  s[j].quantity \in {s[k].quantity, s[k].quantity + 1}
  BY <1>3, <1>4, <1>5
<1>6. QED
  BY <1>1, <1>5 DEF s

\* VWAP rounds the target of a bucket down or up, and gives a heavier bucket no less than a
\* lighter one, whatever units the floors leave (VWAP::generate_schedule).
THEOREM VwapFollowsProfile ==
  ASSUME NEW b \in Profiles, NEW q \in Nat, NEW j \in DOMAIN b, NEW k \in DOMAIN b
  PROVE  /\ Allocation(q, b, k) * TotalWeight(b) > Target(q, b, k) - TotalWeight(b)
         /\ Allocation(q, b, k) * TotalWeight(b) < Target(q, b, k) + TotalWeight(b)
         /\ b[j].weight > b[k].weight => Allocation(q, b, j) >= Allocation(q, b, k)
<1> DEFINE w == TotalWeight(b)
           u == UnitsLeft(q, b)
           up(i) == Rank(q, b, i) < u
           floor(i) == Floor(q, b, i)
           frac(i) == Fraction(q, b, i)
           alloc(i) == Allocation(q, b, i)
<1>1. w \in Nat \ {0}
  BY ProfileFacts
<1>2. \A i \in DOMAIN b :
        /\ Target(q, b, i) = q * b[i].weight /\ Target(q, b, i) \in Nat
        /\ floor(i) \in Nat /\ frac(i) \in Nat /\ frac(i) < w
        /\ Target(q, b, i) = w * floor(i) + frac(i)
  BY TargetFacts
<1>3. \A i \in DOMAIN b : alloc(i) = floor(i) + (IF up(i) THEN 1 ELSE 0)
  BY AllocationIs
<1>4. \A i \in DOMAIN b :
        up(i) => frac(i) > 0 /\ \A l \in DOMAIN b : frac(l) > frac(i) => up(l)
  BY RoundedInTurn
<1> HIDE DEF w, u, up, floor, frac, alloc
<1>5. alloc(k) * w > Target(q, b, k) - w /\ alloc(k) * w < Target(q, b, k) + w
  <2> DEFINE x == w * floor(k)
             t == Target(q, b, k)
  <2>1. x \in Int /\ t \in Nat /\ frac(k) \in Nat /\ frac(k) < w /\ t = x + frac(k) /\ (up(k) => frac(k) > 0)
    BY <1>1, <1>2, <1>4
  <2>2. alloc(k) * w = IF up(k) THEN x + w ELSE x
    <3>1. \A c \in Nat, d \in Nat : c * d = d * c /\ (c + 1) * d = d * c + d
      OBVIOUS
    <3>2. floor(k) \in Nat /\ w \in Nat
      BY <1>1, <1>2
    <3>3. CASE up(k)
      BY <1>3, <3>1, <3>2, <3>3
    <3>4. CASE ~ up(k)
      <4>1. alloc(k) = floor(k)
        BY <1>3, <3>2, <3>4
      <4>2. QED
        BY <3>1, <3>2, <3>4, <4>1
    <3>5. QED
      BY <3>3, <3>4
  <2> HIDE DEF x, t
  <2>3. up(k) => x + w > t - w /\ x + w < t + w
    BY <1>1, <2>1
  <2>4. x > t - w /\ x < t + w
    BY <1>1, <2>1
  <2>5. QED
    BY <2>2, <2>3, <2>4 DEF t
<1>6. ASSUME b[j].weight > b[k].weight PROVE alloc(j) >= alloc(k)
  <2> DEFINE x == Target(q, b, j)
             y == Target(q, b, k)
  <2>1. b[j].weight \in Nat /\ b[k].weight \in Nat
    BY ProfileFacts
  <2>2. x >= y
    <3>1. b[k].weight * q <= b[j].weight * q
      BY <1>6, <2>1, ProductGrows
    <3>2. b[k].weight * q = q * b[k].weight /\ b[j].weight * q = q * b[j].weight
      BY <2>1
    <3>3. QED
      BY <1>2, <3>1, <3>2
  <2>3. /\ x \in Nat /\ y \in Nat /\ floor(j) \in Nat /\ floor(k) \in Nat
        /\ frac(j) \in Nat /\ frac(k) \in Nat /\ frac(j) < w /\ frac(k) < w
        /\ x = w * floor(j) + frac(j) /\ y = w * floor(k) + frac(k)
    BY <1>2
  <2> HIDE DEF x, y
  <2>4. floor(j) >= floor(k)
    <3>1. SUFFICES ASSUME floor(j) + 1 <= floor(k) PROVE FALSE
      BY <2>3
    <3>2. (floor(j) + 1) * w <= floor(k) * w
      BY <1>1, <2>3, <3>1, ProductGrows
    <3>3. \A c, d \in Nat : (c + 1) * d = d * c + d /\ c * d = d * c /\ d * c \in Nat
      OBVIOUS
    <3>4. w * floor(j) + w <= w * floor(k) /\ w * floor(j) \in Nat /\ w * floor(k) \in Nat
      <4>1. w \in Nat /\ floor(j) \in Nat /\ floor(k) \in Nat
        BY <1>1, <2>3
      <4>2. (floor(j) + 1) * w = w * floor(j) + w /\ floor(k) * w = w * floor(k)
            /\ w * floor(j) \in Nat /\ w * floor(k) \in Nat
        BY <3>3, <4>1
      <4>3. QED
        BY <3>2, <4>2
    <3> DEFINE c == w * floor(j)
               d == w * floor(k)
    <3>5. c + w <= d /\ c \in Nat /\ d \in Nat /\ x = c + frac(j) /\ y = d + frac(k)
      BY <2>3, <3>4
    <3> HIDE DEF c, d
    <3>6. QED
      BY <1>1, <2>2, <2>3, <3>5
  <2>5. CASE floor(j) > floor(k)
    BY <1>3, <2>3, <2>5
  <2>6. CASE floor(j) = floor(k) /\ up(k)
    <3> DEFINE c == w * floor(j)
    <3>1. c \in Nat /\ x = c + frac(j) /\ y = c + frac(k)
      BY <1>1, <2>3, <2>6
    <3> HIDE DEF c
    <3>2. frac(j) >= frac(k)
      BY <2>2, <2>3, <3>1
    <3>3. x # y
      <4>1. SUFFICES ASSUME x = y PROVE FALSE
        OBVIOUS
      <4>2. q = 0
        <5>1. \A c1, c2, c3 \in Nat : c2 > c3 /\ c1 * c2 = c1 * c3 => c1 = 0
          <6> SUFFICES ASSUME NEW c1 \in Nat, NEW c2 \in Nat, NEW c3 \in Nat, c2 > c3, c1 * c2 = c1 * c3
                       PROVE  c1 = 0
            OBVIOUS
          <6>1. c1 * c2 = c1 * c3 + c1 * (c2 - c3) /\ c1 * c3 \in Nat /\ c1 * (c2 - c3) \in Int
            OBVIOUS
          <6>2. c1 * (c2 - c3) = 0
            BY <6>1
          <6>3. c2 - c3 \in Nat \ {0}
            OBVIOUS
          <6>4. QED
            BY <6>2, <6>3
        <5>2. QED
          BY <1>2, <1>6, <2>1, <4>1, <5>1 DEF x, y
      <4>3. y = 0
        BY <1>2, <2>1, <4>2, 0 * b[k].weight = 0 DEF y
      <4>4. QED
        BY <1>4, <2>3, <2>6, <3>1, <4>3
    <3>4. frac(j) > frac(k)
      BY <2>3, <3>1, <3>2, <3>3
    <3>5. up(j)
      BY <1>4, <2>6, <3>4
    <3>6. QED
      BY <1>3, <2>3, <2>6, <3>5
  <2>7. CASE floor(j) = floor(k) /\ ~ up(k)
    BY <1>3, <2>3, <2>7
  <2>8. QED
    BY <2>3, <2>4, <2>5, <2>6, <2>7
<1>7. QED
  BY <1>5, <1>6 DEF alloc, w
-----------------------------------------------------------------------------
(***************************************************************************)
(* The enumerated parents and profiles                                     *)
(***************************************************************************)
\* What every enumerated case is.
CaseInvariant ==
  /\ size \in Nat \ {0} /\ slices \in Nat \ {0}
  /\ length \in Nat /\ Buckets <= length
  /\ weight \in [1 .. Buckets -> Nat]
  /\ \E k \in 1 .. Buckets : weight[k] > 0

THEOREM CasesAreCases == CaseSpec => []CaseInvariant
<1>1. CaseInit => CaseInvariant
  <2> SUFFICES ASSUME CaseInit PROVE CaseInvariant
    OBVIOUS
  <2>1. PICK one \in 1 .. Buckets : weight = [k \in 1 .. Buckets |-> IF k = one THEN 1 ELSE 0]
    BY DEF CaseInit
  <2>2. weight \in [1 .. Buckets -> Nat] /\ weight[one] > 0
    BY <2>1
  <2>3. size = 1 /\ slices = 1 /\ length = Buckets /\ Buckets \in Nat \ {0}
    BY BucketsAssumption DEF CaseInit
  <2>4. QED
    BY <2>2, <2>3 DEF CaseInvariant
<1>2. CaseInvariant /\ [CaseNext]_caseVars => CaseInvariant'
  <2> SUFFICES ASSUME CaseInvariant, [CaseNext]_caseVars PROVE CaseInvariant'
    OBVIOUS
  <2> USE BucketsAssumption DEF CaseInvariant
  <2>1. CASE Larger
    BY <2>1 DEF Larger
  <2>2. CASE MoreSlices
    BY <2>2 DEF MoreSlices
  <2>3. CASE Longer
    BY <2>3 DEF Longer
  <2>4. ASSUME NEW k \in 1 .. Buckets, Heavier(k) PROVE CaseInvariant'
    <3>1. weight' = [weight EXCEPT ![k] = weight[k] + 1] /\ UNCHANGED <<size, slices, length>>
      BY <2>4 DEF Heavier
    <3>2. weight' \in [1 .. Buckets -> Nat] /\ weight'[k] > 0
      BY <3>1
    <3>3. QED
      BY <3>1, <3>2
  <2>5. CASE UNCHANGED caseVars
    BY <2>5 DEF caseVars
  <2>6. QED
    BY <2>1, <2>2, <2>3, <2>4, <2>5 DEF CaseNext
<1>3. QED
  BY <1>1, <1>2, PTL DEF CaseSpec

\* The weights of the enumeration are a profile that the constructor takes, inside the horizon
\* of a parent with work left.
LEMMA CasesAreInputs ==
  ASSUME CaseInvariant
  PROVE  /\ Profile \in Profiles /\ InHorizon(Parent, Profile)
         /\ DOMAIN Profile = 1 .. Buckets /\ \A k \in 1 .. Buckets : Profile[k].weight = weight[k]
         /\ HasWork(Parent) /\ Unexecuted(Parent) = size
<1>1. Buckets \in Nat \ {0} /\ length \in Nat /\ Buckets <= length
  BY BucketsAssumption DEF CaseInvariant
<1>2. HasWork(Parent) /\ Unexecuted(Parent) = size /\ Parent.start = 2 /\ Parent.end = 2 + length
  BY <1>1 DEF CaseInvariant, Parent, PendingParent, HasWork, CanGenerateChildren, IsTerminal, Unexecuted
<1>3. weight \in [1 .. Buckets -> Nat]
  BY DEF CaseInvariant
<1>4. /\ DOMAIN Profile = 1 .. Buckets /\ Len(Profile) = Buckets
      /\ Profile \in Seq([start : Int, end : Int, weight : Int])
      /\ \A k \in 1 .. Buckets :
           /\ Profile[k].start = 1 + k
           /\ Profile[k].end = IF k = Buckets THEN 2 + length ELSE 2 + k
           /\ Profile[k].weight = weight[k]
  <2>1. \A k \in 1 .. Buckets :
          [start |-> 1 + k, end |-> IF k = Buckets THEN 2 + length ELSE 2 + k, weight |-> weight[k]]
            \in [start : Int, end : Int, weight : Int]
    BY <1>1, <1>3
  <2>2. Profile \in Seq([start : Int, end : Int, weight : Int]) /\ Len(Profile) = Buckets
    BY <1>1, <2>1, IsASeq, LenProperties DEF Profile
  <2>3. QED
    BY <2>2 DEF Profile
<1> DEFINE w == [k \in DOMAIN Profile |-> Profile[k].weight]
<1>5. DOMAIN w = 1 .. Buckets /\ \A k \in 1 .. Buckets : w[k] = weight[k] /\ w[k] \in Nat
  BY <1>3, <1>4
<1> HIDE DEF w
<1>6. SumOf(w) > 0
  <2>1. PICK k \in 1 .. Buckets : weight[k] > 0
    BY DEF CaseInvariant
  <2>2. SumOf(w) = SumOver(w, 1 .. Buckets)
    <3>1. Buckets \in Nat /\ \A i \in 1 .. Buckets : w[i] \in Int
      BY <1>1, <1>5
    <3>2. QED
      BY <1>5, <3>1, SumOfIsSum
  <2>3. IsFiniteSet(1 .. Buckets)
    BY <1>1, FS_Interval
  <2>4. SumOver(w, 1 .. Buckets) \in Nat /\ w[k] <= SumOver(w, 1 .. Buckets)
    BY <1>5, <2>3, SumOfNaturals
  <2>5. w[k] \in Nat /\ w[k] > 0
    BY <1>5, <2>1
  <2>6. QED
    BY <2>2, <2>4, <2>5
<1>7. Profile # <<>>
  BY <1>1, <1>4
<1>8. ASSUME NEW k \in DOMAIN Profile
      PROVE  /\ Profile[k].start < Profile[k].end /\ Profile[k].weight >= 0
             /\ k > 1 => Profile[k].start >= Profile[k - 1].end
  <2>1. k \in 1 .. Buckets
    BY <1>4
  <2>2. /\ k \in Nat \ {0} /\ k <= Buckets /\ weight[k] \in Nat
        /\ k > 1 => k - 1 \in 1 .. Buckets /\ k - 1 # Buckets
    BY <1>1, <1>3, <2>1
  <2>3. Profile[k].start = 1 + k /\ Profile[k].weight = weight[k]
        /\ Profile[k].end = IF k = Buckets THEN 2 + length ELSE 2 + k
    BY <1>4, <2>1
  <2>4. Profile[k].start < Profile[k].end /\ Profile[k].weight >= 0
    BY <1>1, <2>2, <2>3
  <2>5. CASE k > 1
    <3>1. Profile[k - 1].end = 2 + (k - 1)
      BY <1>4, <2>2, <2>5
    <3>2. Profile[k].start >= Profile[k - 1].end
      BY <2>2, <2>3, <3>1
    <3>3. QED
      BY <2>4, <3>2
  <2>6. QED
    BY <2>4, <2>5
<1>9. Profile \in Profiles
  BY <1>4, <1>6, <1>7, <1>8 DEF Profiles, ValidProfile, w
<1>10. InHorizon(Parent, Profile)
  BY <1>1, <1>2, <1>4 DEF InHorizon
<1>11. QED
  BY <1>2, <1>4, <1>9, <1>10

\* Every enumerated schedule, of either algorithm, adds up to the parent's quantity and is what
\* add_parent demands (execution_scheduler.cpp:49-51).
THEOREM SlicesAlwaysAddUp == CaseSpec => []SlicesAddUp
<1>1. CaseInvariant => SlicesAddUp
  <2> SUFFICES ASSUME CaseInvariant PROVE SlicesAddUp
    OBVIOUS
  <2>1. /\ Profile \in Profiles /\ InHorizon(Parent, Profile)
        /\ HasWork(Parent) /\ Unexecuted(Parent) = size
    BY CasesAreInputs
  <2>2. ValidProfile(Profile)
    BY <2>1 DEF Profiles
  <2>3. slices \in Nat \ {0}
    BY DEF CaseInvariant
  <2>4. \A s \in Plans : IsSchedule(s, Parent)
    BY <2>1, <2>3, TwapIsSchedule, VwapIsSchedule DEF Plans
  <2>5. QED
    BY <2>1, <2>2, <2>4 DEF SlicesAddUp, IsSchedule
<1>2. QED
  BY <1>1, CasesAreCases, PTL

\* And has the shape it is asked for: even, or that of the profile.
THEOREM SlicesAlwaysFollowShape == CaseSpec => []SlicesFollowShape
<1>1. CaseInvariant => SlicesFollowShape
  <2> SUFFICES ASSUME CaseInvariant PROVE SlicesFollowShape
    OBVIOUS
  <2>1. /\ Profile \in Profiles /\ DOMAIN Profile = 1 .. Buckets
        /\ \A k \in 1 .. Buckets : Profile[k].weight = weight[k]
        /\ HasWork(Parent)
    BY CasesAreInputs
  <2>2. slices \in Nat \ {0} /\ size \in Nat
    BY DEF CaseInvariant
  <2>3. TWAPIsEven
    BY <2>1, <2>2, TwapIsEven DEF TWAPIsEven
  <2>4. VWAPFollowsProfile
    <3>1. ASSUME NEW j \in 1 .. Buckets, NEW k \in 1 .. Buckets
          PROVE  /\ Allocation(size, Profile, k) * TotalWeight(Profile) > Target(size, Profile, k) - TotalWeight(Profile)
                 /\ Allocation(size, Profile, k) * TotalWeight(Profile) < Target(size, Profile, k) + TotalWeight(Profile)
                 /\ weight[j] > weight[k] => Allocation(size, Profile, j) >= Allocation(size, Profile, k)
      <4>1. j \in DOMAIN Profile /\ k \in DOMAIN Profile /\ Profile[j].weight = weight[j] /\ Profile[k].weight = weight[k]
        BY <2>1
      <4> HIDE DEF Profile
      <4>2. QED
        BY <2>1, <2>2, <4>1, VwapFollowsProfile
    <3>2. QED
      BY <3>1 DEF VWAPFollowsProfile
  <2>5. QED
    BY <2>3, <2>4 DEF SlicesFollowShape
<1>2. QED
  BY <1>1, CasesAreCases, PTL
===============================================================================
