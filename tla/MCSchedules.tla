----------------------------- MODULE MCSchedules -----------------------------
(***************************************************************************)
(* Every small parent and volume profile, enumerated for TLC: each step    *)
(* makes one parameter larger.                                             *)
(***************************************************************************)
EXTENDS Schedules

CONSTANTS MaxTotal, MaxSlices, MaxLength, MaxWeight, Buckets

ASSUME BucketsAssumption == Buckets \in Nat \ {0}

VARIABLES
  size,    \* what the parent has left to execute
  slices,  \* TWAPConfig::slices
  length,  \* the parent's horizon
  weight   \* the weights of the buckets of the profile

caseVars == <<size, slices, length, weight>>

CaseInit ==
  /\ size = 1 /\ slices = 1 /\ length = Buckets
  /\ weight \in {[k \in 1 .. Buckets |-> IF k = one THEN 1 ELSE 0] : one \in 1 .. Buckets}

Larger      == size < MaxTotal /\ size' = size + 1 /\ UNCHANGED <<slices, length, weight>>
MoreSlices  == slices < MaxSlices /\ slices' = slices + 1 /\ UNCHANGED <<size, length, weight>>
Longer      == length < MaxLength /\ length' = length + 1 /\ UNCHANGED <<size, slices, weight>>
Heavier(k)  == /\ weight[k] < MaxWeight /\ weight' = [weight EXCEPT ![k] = @ + 1]
               /\ UNCHANGED <<size, slices, length>>

CaseNext == Larger \/ MoreSlices \/ Longer \/ \E k \in 1 .. Buckets : Heavier(k)

CaseSpec == CaseInit /\ [][CaseNext]_caseVars

\* A parent that starts late, so that a slice time is not an offset by accident.
Parent == PendingParent("Buy", size, 2, 2 + length, 0)

\* The last bucket reaches to the end of the horizon.
Profile == [k \in 1 .. Buckets |->
              [start |-> 1 + k, end |-> IF k = Buckets THEN 2 + length ELSE 2 + k,
               weight |-> weight[k]]]

Plans == {TWAP(Parent, slices), VWAP(Parent, Profile)}

Quantities(s) == [k \in DOMAIN s |-> s[k].quantity]

\* "Static child schedule must equal parent quantity": the slices of either
\* algorithm add up to the parent's quantity (execution_scheduler.cpp:49-51), and each is
\* what add_parent demands of a child: not empty, inside the horizon, in time order.
SlicesAddUp ==
  /\ ValidProfile(Profile) /\ InHorizon(Parent, Profile)
  /\ \A s \in Plans :
       /\ SumOf(Quantities(s)) = size
       /\ \A k \in DOMAIN s :
            /\ s[k].quantity > 0
            /\ Parent.start <= s[k].time /\ s[k].time < Parent.end
            /\ k > 1 => s[k - 1].time <= s[k].time

\* TWAP's slices differ by one unit at most, and the larger ones come first.
TWAPIsEven ==
  LET s == TWAP(Parent, slices) IN
  \A j, k \in DOMAIN s :
    j <= k => s[j].quantity \in {s[k].quantity, s[k].quantity + 1}

\* VWAP gives each bucket its target, rounded down or up, and a heavier bucket
\* never less than a lighter one.
VWAPFollowsProfile ==
  \A j, k \in 1 .. Buckets :
    LET q == Allocation(size, Profile, k) IN
    /\ q * TotalWeight(Profile) > Target(size, Profile, k) - TotalWeight(Profile)
    /\ q * TotalWeight(Profile) < Target(size, Profile, k) + TotalWeight(Profile)
    /\ weight[j] > weight[k] => Allocation(size, Profile, j) >= q

\* Whatever the remainders, the slices have the shape they are asked for: even over time,
\* or that of the volume profile (TWAPScheduler and VWAPScheduler::generate_schedule).
SlicesFollowShape == TWAPIsEven /\ VWAPFollowsProfile
=============================================================================
