------------------------------ MODULE OrderBook ------------------------------
(***************************************************************************)
(* The limit order book of the native engine (cpp/src/order_book.cpp with  *)
(* cpp/src/price_level.cpp): its maps, and one action per piece of a book  *)
(* operation.                                                              *)
(*                                                                         *)
(* A submit or a repricing runs the loop of match_buy / match_sell.  The   *)
(* loop is modelled one fill at a time: while taker names an order, the    *)
(* (single) thread is inside the call, only the loop's own actions are     *)
(* enabled, and every other operation waits for taker = None.  What the    *)
(* loop does when it ends (complete, cancel the remainder, rest, or throw) *)
(* is the action that sets taker back to None.                             *)
(***************************************************************************)
EXTENDS Order, Sequences, FiniteSets

CONSTANTS
  None,          \* a null pointer, an empty optional
  SequenceBound  \* bounds next_order_sequence_, so that the model is finite

ASSUME NoneAssumption == None \notin Ids \cup Int
ASSUME SequenceBoundAssumption == SequenceBound \in Nat

SeqX == INSTANCE SequencesExt

VARIABLES
  order,      \* the Order objects, of active_orders_ and completed_orders_
  active,     \* the keys of active_orders_
  completed,  \* the keys of completed_orders_
  level,      \* ActiveOrder::level: the price of the level pointed to, or None
  levels,     \* the keys of bids_ (levels["Buy"]) and of asks_ (levels["Sell"])
  queue,      \* PriceLevel::orders_, the FIFO of order ids at a level
  total,      \* PriceLevel::total_quantity_, the cached sum of a level
  trades,     \* trades_; a trade's id and sequence number are its position
  nextSequence, \* next_order_sequence_
  taker,      \* the order being matched by the call in progress, or None
  error       \* what the last call threw: "none", "overflow", "missing level"
              \* or "null level" (undefined behaviour, the process is gone)

bookVars == <<order, active, completed, level, levels, queue, total, trades,
              nextSequence, taker, error>>

Trades == [buy : Ids, sell : Ids, price : Prices, quantity : 1 .. MaxQuantity]

BookInit ==
  /\ order = [i \in Ids |-> BlankOrder]
  /\ active = {} /\ completed = {}
  /\ level = [i \in Ids |-> None]
  /\ levels = [s \in Sides |-> {}]
  /\ queue = [s \in Sides |-> [p \in Prices |-> <<>>]]
  /\ total = [s \in Sides |-> [p \in Prices |-> 0]]
  /\ trades = <<>>
  /\ nextSequence = 1
  /\ taker = None
  /\ error = "none"

\* The engine can take a call: none is running and the process is alive.
Idle == taker = None /\ error # "null level"

\* Mutant of HasUsedOrderId: the completed orders are forgotten.
HasLiveOrderId(i) == i \in active

HasUsedOrderId(i) == i \in active \cup completed
-----------------------------------------------------------------------------
(***************************************************************************)
(* Levels.                                                                 *)
(***************************************************************************)
\* Mutant of Better: the bids are ordered like the asks.
LowestFirst(side, p, q) == p < q

Better(side, p, q) == IF side = "Buy" THEN p > q ELSE p < q

\* begin() of a side's map.
IsBest(side, p) ==
  /\ p \in levels[side]
  /\ \A q \in levels[side] \ {p} : Better(side, p, q)

\* Whether order o may trade at price p of the opposite side.
Reaches(o, p) ==
  \/ o.type = "Market"
  \/ o.side = "Buy" /\ p <= o.price
  \/ o.side = "Sell" /\ p >= o.price

\* Mutant of MatchQuantity: the front order is assumed to be large enough.
WholeTaker(t, m) == t.remaining

MatchQuantity(t, m) == IF t.remaining <= m.remaining THEN t.remaining ELSE m.remaining

\* The list operation of PriceLevel::add_order.
PushBack(q, i) == Append(q, i)

IndexOf(q, i) == CHOOSE k \in DOMAIN q : q[k] = i

\* Mutant of SetLevel: a level left empty is not erased.
SetLevelNoErase(s, p, q, t) ==
  /\ queue'  = [queue EXCEPT ![s][p] = q]
  /\ total'  = [total EXCEPT ![s][p] = IF q = <<>> THEN 0 ELSE t]
  /\ levels' = [levels EXCEPT ![s] = @ \cup {p}]

\* The queue of level <<s, p>> becomes q, its total t; an empty level is erased
\* (a level created again later starts with a total of 0).
SetLevel(s, p, q, t) ==
  /\ queue'  = [queue EXCEPT ![s][p] = q]
  /\ total'  = [total EXCEPT ![s][p] = IF q = <<>> THEN 0 ELSE t]
  /\ levels' = [levels EXCEPT ![s] = IF q = <<>> THEN @ \ {p} ELSE @ \cup {p}]

\* Mutant of RemoveFromLevel: the cached total is not reduced.
RemoveFromQueueOnly(i) ==
  LET s == order[i].side
      q == queue[s][level[i]]
  IN  SetLevel(s, level[i], SeqX!RemoveAt(q, IndexOf(q, i)), total[s][level[i]])

\* PriceLevel::remove_order and the erase of a level left empty, for order i.
RemoveFromLevel(i) ==
  LET s == order[i].side
      p == level[i]
      q == queue[s][p]
  IN  SetLevel(s, p, SeqX!RemoveAt(q, IndexOf(q, i)), total[s][p] - order[i].remaining)

\* PriceLevel::add_order throws: the level's total would not fit a Quantity.
WouldOverflow(s, p, quantity) == quantity > MaxQuantity - total[s][p]
-----------------------------------------------------------------------------
(***************************************************************************)
(* add_limit_order, add_market_order: the order is created, activated and  *)
(* indexed (with a null level) before the loop starts.                     *)
(***************************************************************************)
AddOrder(i, side, type, price, quantity) ==
  /\ Idle
  /\ ~HasUsedOrderId(i)
  /\ nextSequence < SequenceBound
  /\ order' = [order EXCEPT ![i] =
                 ActivatedOrder(side, type, price, quantity, nextSequence)]
  /\ nextSequence' = nextSequence + 1
  /\ active' = active \cup {i}
  /\ taker' = i
  /\ error' = "none"
  /\ UNCHANGED <<completed, level, levels, queue, total, trades>>

(***************************************************************************)
(* One turn of the inner loop of match_buy / match_sell: the taker trades  *)
(* with the front of the best opposite level, at the resting price.        *)
(***************************************************************************)
MatchFront ==
  /\ taker # None
  /\ order[taker].remaining > 0
  /\ LET far == Opposite(order[taker].side) IN
     \E p \in levels[far] :
       /\ IsBest(far, p) /\ Reaches(order[taker], p)
       /\ queue[far][p] # <<>>
       /\ LET maker    == Head(queue[far][p])
              price    == order[maker].price
              quantity == MatchQuantity(order[taker], order[maker])
              done     == order[maker].remaining = quantity
          IN
          /\ order' = [order EXCEPT ![maker] = Fill(@, quantity, price),
                                    ![taker] = Fill(@, quantity, price)]
          /\ trades' = Append(trades,
               [buy   |-> IF far = "Sell" THEN taker ELSE maker,
                sell  |-> IF far = "Sell" THEN maker ELSE taker,
                price |-> price, quantity |-> quantity])
          /\ SetLevel(far, p, IF done THEN Tail(queue[far][p]) ELSE queue[far][p],
                      total[far][p] - quantity)
          /\ active' = IF done THEN active \ {maker} ELSE active
          /\ completed' = IF done THEN completed \cup {maker} ELSE completed
          /\ level' = IF done THEN [level EXCEPT ![maker] = None] ELSE level
  /\ UNCHANGED <<nextSequence, taker, error>>

\* The loop's exit test.
MatchingOver ==
  /\ taker # None
  /\ LET far == Opposite(order[taker].side) IN
     \/ order[taker].remaining = 0
     \/ levels[far] = {}
     \/ \E p \in levels[far] : IsBest(far, p) /\ ~Reaches(order[taker], p)

\* Moves order i from the active to the completed map (complete_order).
Complete(i) ==
  /\ active' = active \ {i}
  /\ completed' = completed \cup {i}
  /\ level' = [level EXCEPT ![i] = None]

\* Nothing is left of the taker.
CompleteTaker ==
  /\ MatchingOver
  /\ order[taker].remaining = 0
  /\ Complete(taker)
  /\ taker' = None
  /\ UNCHANGED <<order, levels, queue, total, trades, nextSequence, error>>

\* What liquidity did not fill of a market order is cancelled.
CancelRemainder ==
  /\ MatchingOver
  /\ order[taker].remaining > 0 /\ order[taker].type = "Market"
  /\ order' = [order EXCEPT ![taker] = Cancelled(@)]
  /\ Complete(taker)
  /\ taker' = None
  /\ UNCHANGED <<levels, queue, total, trades, nextSequence, error>>

\* OrderBook::rest: the remainder of a limit order joins the back of its level.
Rest ==
  LET s == order[taker].side
      p == order[taker].price
  IN
  /\ MatchingOver
  /\ order[taker].remaining > 0 /\ order[taker].type = "Limit"
  /\ ~WouldOverflow(s, p, order[taker].remaining)
  /\ SetLevel(s, p, PushBack(queue[s][p], taker), total[s][p] + order[taker].remaining)
  /\ level' = [level EXCEPT ![taker] = p]
  /\ taker' = None
  /\ UNCHANGED <<order, active, completed, trades, nextSequence, error>>

\* add_order throws out of rest: the order stays active, with a null level.
RestOverflows ==
  /\ MatchingOver
  /\ order[taker].remaining > 0 /\ order[taker].type = "Limit"
  /\ WouldOverflow(order[taker].side, order[taker].price, order[taker].remaining)
  /\ taker' = None
  /\ error' = "overflow"
  /\ UNCHANGED <<order, active, completed, level, levels, queue, total, trades,
                 nextSequence>>

Matching ==
  \/ MatchFront
  \/ CompleteTaker
  \/ CancelRemainder
  \/ Rest
  \/ RestOverflows
-----------------------------------------------------------------------------
\* remove_from_level and replace_order throw: the order has a null level.
MissingLevel(i) ==
  /\ Idle
  /\ i \in active /\ level[i] = None
  /\ error' = "missing level"
  /\ UNCHANGED <<order, active, completed, level, levels, queue, total, trades,
                 nextSequence, taker>>

\* Mutant of CancelOrder: an order with a null level is completed all the same.
CancelUnlinked(i) ==
  /\ Idle
  /\ i \in active
  /\ IF level[i] # None THEN RemoveFromLevel(i) ELSE UNCHANGED <<levels, queue, total>>
  /\ order' = [order EXCEPT ![i] = Cancelled(@)]
  /\ Complete(i)
  /\ error' = "none"
  /\ UNCHANGED <<trades, nextSequence, taker>>

CancelOrder(i) ==
  /\ Idle
  /\ i \in active /\ level[i] # None
  /\ RemoveFromLevel(i)
  /\ order' = [order EXCEPT ![i] = Cancelled(@)]
  /\ Complete(i)
  /\ error' = "none"
  /\ UNCHANGED <<trades, nextSequence, taker>>
-----------------------------------------------------------------------------
(***************************************************************************)
(* replace_order, one action per branch.  The guard replace_order repeats  *)
(* from its caller, MatchingEngine::modify, is Replaceable.                *)
(***************************************************************************)
Replaceable(i, price, quantity) ==
  /\ Idle
  /\ i \in active
  /\ CanReplace(order[i], price, quantity)
  /\ <<price, quantity>> # <<order[i].price, order[i].original>>

\* A smaller total at the same price, above what is executed.
Shrinks(i, price, quantity) ==
  /\ price = order[i].price
  /\ quantity < order[i].original /\ quantity > FilledQuantity(order[i])

Grows(i, price, quantity) ==
  price = order[i].price /\ quantity > order[i].original

\* PriceLevel::modify_quantity: in place, the order keeps its sequence.
ShrinkInPlace(i, price, quantity) ==
  LET s    == order[i].side
      new  == Replace(order[i], price, quantity, order[i].sequence)
  IN
  /\ Replaceable(i, price, quantity) /\ Shrinks(i, price, quantity)
  /\ level[i] # None
  /\ order' = [order EXCEPT ![i] = new]
  /\ total' = [total EXCEPT ![s][level[i]] = @ - (order[i].remaining - new.remaining)]
  /\ error' = "none"
  /\ UNCHANGED <<active, completed, level, levels, queue, trades, nextSequence, taker>>

\* The same with a null level: the null pointer is dereferenced.
ShrinkNullLevel(i, price, quantity) ==
  /\ Replaceable(i, price, quantity) /\ Shrinks(i, price, quantity)
  /\ level[i] = None
  /\ error' = "null level"
  /\ UNCHANGED <<order, active, completed, level, levels, queue, total, trades,
                 nextSequence, taker>>

\* A larger total at the same price: to the back of the same level, with a new
\* sequence, and without matching again.  The level is not erased in between.
GrowRequeue(i, price, quantity) ==
  LET s    == order[i].side
      q    == SeqX!RemoveAt(queue[s][price], IndexOf(queue[s][price], i))
      rest == total[s][price] - order[i].remaining
      new  == Replace(order[i], price, quantity, nextSequence)
  IN
  /\ Replaceable(i, price, quantity) /\ Grows(i, price, quantity)
  /\ level[i] # None
  /\ nextSequence < SequenceBound
  /\ order' = [order EXCEPT ![i] = new]
  /\ nextSequence' = nextSequence + 1
  /\ UNCHANGED <<active, completed, levels, trades, taker>>
  /\ \/ /\ new.remaining <= MaxQuantity - rest
        /\ queue' = [queue EXCEPT ![s][price] = PushBack(q, i)]
        /\ total' = [total EXCEPT ![s][price] = rest + new.remaining]
        /\ error' = "none"
        /\ UNCHANGED level
     \/ /\ new.remaining > MaxQuantity - rest  \* add_order throws
        /\ queue' = [queue EXCEPT ![s][price] = q]
        /\ total' = [total EXCEPT ![s][price] = rest]
        /\ level' = [level EXCEPT ![i] = None]
        /\ error' = "overflow"

\* A total equal to what is executed, at the same price: the order ends.
ShrinkToExecuted(i, price, quantity) ==
  /\ Replaceable(i, price, quantity)
  /\ level[i] # None
  /\ price = order[i].price
  /\ quantity < order[i].original /\ quantity = FilledQuantity(order[i])
  /\ RemoveFromLevel(i)
  /\ order' = [order EXCEPT ![i] = Replace(@, price, quantity, @.sequence)]
  /\ Complete(i)
  /\ error' = "none"
  /\ UNCHANGED <<trades, nextSequence, taker>>

\* Another price: out of the level, a new sequence, then the matching loop,
\* unless the new total leaves nothing to match.
Reprice(i, price, quantity) ==
  /\ Replaceable(i, price, quantity)
  /\ level[i] # None
  /\ price # order[i].price
  /\ nextSequence < SequenceBound
  /\ RemoveFromLevel(i)
  /\ order' = [order EXCEPT ![i] = Replace(@, price, quantity, nextSequence)]
  /\ nextSequence' = nextSequence + 1
  /\ error' = "none"
  /\ UNCHANGED trades
  /\ \/ /\ quantity = FilledQuantity(order[i])
        /\ Complete(i)
        /\ UNCHANGED taker
     \/ /\ quantity # FilledQuantity(order[i])
        /\ level' = [level EXCEPT ![i] = None]
        /\ taker' = i
        /\ UNCHANGED <<active, completed>>

ReplaceOrder(i, price, quantity) ==
  \/ ShrinkInPlace(i, price, quantity)
  \/ ShrinkNullLevel(i, price, quantity)
  \/ GrowRequeue(i, price, quantity)
  \/ ShrinkToExecuted(i, price, quantity)
  \/ Reprice(i, price, quantity)
  \/ /\ Replaceable(i, price, quantity) /\ ~Shrinks(i, price, quantity)
     /\ MissingLevel(i)
=============================================================================
