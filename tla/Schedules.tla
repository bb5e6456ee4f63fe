------------------------------ MODULE Schedules ------------------------------
(***************************************************************************)
(* The static schedules of the execution layer: TWAP                       *)
(* (cpp/src/execution/twap.cpp) and VWAP over a volume profile             *)
(* (cpp/src/execution/vwap.cpp, volume_profile.cpp).                       *)
(*                                                                         *)
(* A schedule is a sequence of slices; the scheduler turns slice k into    *)
(* the ChildOrder with the k-th id and sequence, on the parent's side.     *)
(* Weights are integers here and targets exact fractions: the rounding of  *)
(* the doubles and long doubles of the code is left out.                   *)
(***************************************************************************)
EXTENDS ParentOrder, Sequences, FiniteSets

SchX == INSTANCE SequencesExt

\* Mutant of Share: the remainder is counted from one.
ShareOffByOne(quantity, n, k) ==
  (quantity \div n) + (IF k <= (quantity % n) + 1 THEN 1 ELSE 0)

\* The k-th of n nearly equal parts; the remainder goes to the earliest.
Share(quantity, n, k) ==
  (quantity \div n) + (IF k <= quantity % n THEN 1 ELSE 0)

Interval(p, n) == (p.end - p.start) \div n

TWAP(p, slices) ==
  IF ~CanGenerateChildren(p) THEN <<>>
  ELSE LET n == IF Unexecuted(p) < slices THEN Unexecuted(p) ELSE slices
       IN  [k \in 1 .. n |-> [quantity |-> Share(Unexecuted(p), n, k),
                              time     |-> p.start + Interval(p, n) * (k - 1)]]
-----------------------------------------------------------------------------
SumOf(f) == SchX!FoldLeft(LAMBDA sum, x : sum + x, 0, f)

\* The constructor of VolumeProfile accepts these buckets.
ValidProfile(buckets) ==
  /\ buckets # <<>>
  /\ \A k \in DOMAIN buckets :
       /\ buckets[k].start < buckets[k].end
       /\ buckets[k].weight >= 0
       /\ k > 1 => buckets[k].start >= buckets[k - 1].end
  /\ SumOf([k \in DOMAIN buckets |-> buckets[k].weight]) > 0

\* The weight of bucket k times the quantity, as a multiple of 1 / TotalWeight.
Target(quantity, buckets, k) == quantity * buckets[k].weight
TotalWeight(buckets) == SumOf([k \in DOMAIN buckets |-> buckets[k].weight])

Floor(quantity, buckets, k)    == Target(quantity, buckets, k) \div TotalWeight(buckets)
Fraction(quantity, buckets, k) == Target(quantity, buckets, k) % TotalWeight(buckets)

\* Mutant of Rank: the smallest fractions come first.
RankAscending(quantity, buckets, k) ==
  Cardinality({j \in DOMAIN buckets :
    \/ Fraction(quantity, buckets, j) < Fraction(quantity, buckets, k)
    \/ Fraction(quantity, buckets, j) = Fraction(quantity, buckets, k) /\ j < k})

\* How many buckets come before k in the stable sort by descending fraction.
Rank(quantity, buckets, k) ==
  Cardinality({j \in DOMAIN buckets :
    \/ Fraction(quantity, buckets, j) > Fraction(quantity, buckets, k)
    \/ Fraction(quantity, buckets, j) = Fraction(quantity, buckets, k) /\ j < k})

\* The floor, and one unit for each turn of the bucket in the distribution of
\* the units that the floors leave.
Allocation(quantity, buckets, k) ==
  LET n     == Len(buckets)
      units == quantity - SumOf([j \in 1 .. n |-> Floor(quantity, buckets, j)])
  IN  Floor(quantity, buckets, k)
      + Cardinality({turn \in 0 .. (units - 1) : turn % n = Rank(quantity, buckets, k)})

\* Bucket by bucket, in order; one that gets nothing has no slice.
VWAP(p, buckets) ==
  LET quantity(k) == Allocation(Unexecuted(p), buckets, k)
      slice(k)    == [quantity |-> quantity(k), time |-> buckets[k].start]
      result[k \in 0 .. Len(buckets)] ==
        IF k = 0 THEN <<>>
        ELSE IF quantity(k) = 0 THEN result[k - 1] ELSE Append(result[k - 1], slice(k))
  IN  IF ~CanGenerateChildren(p) THEN <<>> ELSE result[Len(buckets)]

\* A profile outside the parent's horizon is refused.
InHorizon(p, buckets) ==
  p.start <= buckets[1].start /\ buckets[Len(buckets)].end <= p.end
=============================================================================
