------------------------- MODULE MCExecutionScheduler -------------------------
(***************************************************************************)
(* Instances of ExecutionScheduler for TLC.                                *)
(***************************************************************************)
EXTENDS ExecutionReports

CONSTANTS ChildType, OtherIds, OtherQuantities, Volumes

Plan == INSTANCE Schedules

Child(i, p, side, quantity, time, sequence) ==
  [id |-> i, parent |-> p, side |-> side, quantity |-> quantity,
   type |-> ChildType, price |-> IF ChildType = "Market" THEN None ELSE 1,
   time |-> time, sequence |-> sequence]

Offer(p, side, size, s) ==
  [parent |-> p, side |-> side, total |-> size, start |-> 0, end |-> 2, schedule |-> s]

\* The TWAP children of a parent with the horizon of Offer.
TWAPChildren(p, side, size, n) ==
  LET s == Plan!TWAP(PendingParent(side, size, 0, 2, 0), n)
  IN  [k \in DOMAIN s |-> Child(k, p, side, s[k].quantity, s[k].time, k)]

\* The 3 units of p1 in two slices, the second one planned for a time when p2
\* has a slice of its own; p2 is also worked by participation, without slices.
MCOffers ==
  {Offer("p1", "Buy", 3, TWAPChildren("p1", "Buy", 3, 2)),
   Offer("p2", "Buy", 2, <<Child(3, "p2", "Buy", 2, 1, 1)>>),
   Offer("p2", "Buy", 2, <<>>),
   \* Refused: the slices do not add up.
   Offer("p2", "Buy", 2, <<Child(3, "p2", "Buy", 1, 1, 1)>>)}

MCObservations ==
  {[parent |-> "p2", num |-> 1, den |-> 2, time |-> t, volume |-> v, id |-> 3, sequence |-> 1]
     : t \in 0 .. Horizon, v \in Volumes}

\* With and without a final price, a decision price and quotes, arriving low and high.
MCGiven ==
  {[arrival |-> 1, decision |-> 2, final |-> 2, bid |-> 1, ask |-> 2,
    fees |-> Analytics!Ratio(1, 2), tick |-> Analytics!Ratio(1, 4)],
   [arrival |-> 2, decision |-> None, final |-> None, bid |-> None, ask |-> None,
    fees |-> Analytics!Zero, tick |-> Analytics!Whole(1)]}

\* The other clients rest limit orders; one of them may take a child's id.
MCRequests ==
  [id : OtherIds, side : {"Sell"}, type : {"Limit"}, price : Prices, quantity : OtherQuantities]
  \cup {[id |-> 2, side |-> "Sell", type |-> "Limit", price |-> 1, quantity |-> 1],
        [id |-> 2, side |-> "Sell", type |-> "Limit", price |-> 0, quantity |-> 1]}
=============================================================================
