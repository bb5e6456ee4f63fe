---------------------------- MODULE MatchingEngine ----------------------------
(***************************************************************************)
(* The matching engine (cpp/src/matching_engine.cpp): submit, cancel and   *)
(* modify, each a validation followed by an operation of the order book.   *)
(* Requests and ModifyRequests are the calls clients make, the malformed   *)
(* ones included; a refused call changes nothing but rejected_orders_.     *)
(* Which RejectReason a refusal reports, and the reports themselves (views *)
(* of the order), are left out.                                            *)
(***************************************************************************)
EXTENDS OrderBook

CONSTANTS
  ZeroId,          \* the invalid order id 0
  Requests,        \* the OrderRequests clients submit
  ModifyRequests   \* the ModifyRequests clients send

\* An OrderRequest, well formed or not.
OrderRequests ==
  [id : Ids \cup {ZeroId}, side : Sides \cup {"Invalid"}, type : OrderTypes \cup {"Invalid"},
   price : Prices \cup {0, None}, quantity : Quantities]

ASSUME RequestsAssumption ==
  /\ ZeroId \notin Ids
  /\ Requests \subseteq OrderRequests
  /\ ModifyRequests \subseteq [price : Prices \cup {0, None},
                               quantity : Quantities \cup {None}]

VARIABLE rejected  \* the keys of rejected_orders_

vars == <<order, active, completed, level, levels, queue, total, trades,
          nextSequence, taker, error, rejected>>

Init == BookInit /\ rejected = {}
-----------------------------------------------------------------------------
\* Mutant of Acceptable: the ids of refused orders may be used again.
AcceptableAfterRefusal(r) ==
  /\ r.id # ZeroId /\ r.side \in Sides /\ r.type \in OrderTypes /\ r.quantity # 0
  /\ ~HasUsedOrderId(r.id)
  /\ r.type = "Limit" => r.price # None /\ r.price # 0
  /\ r.type = "Market" => r.price = None

\* Every check of submit passes.
Acceptable(r) ==
  /\ r.id # ZeroId
  /\ r.side \in Sides
  /\ r.type \in OrderTypes
  /\ r.quantity # 0
  /\ ~HasUsedOrderId(r.id) /\ r.id \notin rejected
  /\ r.type = "Limit" => r.price # None /\ r.price # 0
  /\ r.type = "Market" => r.price = None

Submit(r) ==
  /\ Acceptable(r)
  /\ AddOrder(r.id, r.side, r.type, IF r.type = "Limit" THEN r.price ELSE 0, r.quantity)
  /\ UNCHANGED rejected

\* The id of a refused order is burnt, unless it is 0 or already in use.
RejectSubmit(r) ==
  /\ Idle
  /\ ~Acceptable(r)
  /\ rejected' = IF r.id # ZeroId /\ ~HasUsedOrderId(r.id)
                 THEN rejected \cup {r.id} ELSE rejected
  /\ error' = "none"
  /\ UNCHANGED <<order, active, completed, level, levels, queue, total, trades,
                 nextSequence, taker>>

\* The engine cancels only an active order it knows.
Cancel(i) ==
  /\ i \in active /\ IsActive(order[i])
  /\ CancelOrder(i) \/ MissingLevel(i)
  /\ UNCHANGED rejected

TargetPrice(i, m)    == IF m.price = None THEN order[i].price ELSE m.price
TargetQuantity(i, m) == IF m.quantity = None THEN order[i].original ELSE m.quantity

\* Every check of modify passes.
Modifiable(i, m) ==
  /\ i \in active /\ IsActive(order[i]) /\ order[i].type = "Limit"
  /\ TargetPrice(i, m) > 0
  /\ TargetQuantity(i, m) >= FilledQuantity(order[i])
  /\ TargetQuantity(i, m) # 0
  /\ <<TargetPrice(i, m), TargetQuantity(i, m)>> # <<order[i].price, order[i].original>>

Modify(i, m) ==
  /\ Modifiable(i, m)
  /\ ReplaceOrder(i, TargetPrice(i, m), TargetQuantity(i, m))
  /\ UNCHANGED rejected

\* A cancel or a modify that fails a check returns a refusal.
Refuse ==
  /\ Idle
  /\ \/ \E i \in Ids : i \notin active
     \/ \E i \in active, m \in ModifyRequests : ~Modifiable(i, m)
  /\ error' = "none"
  /\ UNCHANGED <<order, active, completed, level, levels, queue, total, trades,
                 nextSequence, taker, rejected>>

Match == Matching /\ UNCHANGED rejected

Next ==
  \/ \E r \in Requests : Submit(r)
  \/ \E r \in Requests : RejectSubmit(r)
  \/ \E i \in Ids : Cancel(i)
  \/ \E i \in Ids, m \in ModifyRequests : Modify(i, m)
  \/ Refuse
  \/ Match

\* A call that has begun runs to its end: the engine is one thread's code.
Spec == Init /\ [][Next]_vars /\ WF_vars(Match)
-----------------------------------------------------------------------------
(***************************************************************************)
(* Properties.                                                             *)
(***************************************************************************)

\* Every variable has its type.  That no total underflows is part of
\* RestingBookValid.
TypeOK ==
  /\ order \in [Ids -> Orders]
  /\ active \subseteq Ids /\ completed \subseteq Ids /\ rejected \subseteq Ids
  /\ level \in [Ids -> Prices \cup {None}]
  /\ levels \in [Sides -> SUBSET Prices]
  /\ queue \in [Sides -> [Prices -> Seq(Ids)]]
  /\ total \in [Sides -> [Prices -> Int]]
  /\ trades \in Seq(Trades)
  /\ nextSequence \in Nat \ {0}
  /\ taker \in Ids \cup {None}
  /\ error \in {"none", "overflow", "missing level", "null level"}

Resting  == {i \in active : level[i] # None}
\* Active, in no level, and in no call: lost between the two maps.
Stranded == {i \in active : level[i] = None} \ {taker}

\* The best bid is below the best ask, also while an order is being matched
\* (OrderBook::is_crossed).
Uncrossed == \A b \in levels["Buy"], a \in levels["Sell"] : b < a

\* A level's list is in the order of its orders' sequence numbers: front first
\* is oldest first (docs/architecture.md:303-305).
OldestFirst ==
  \A s \in Sides, p \in Prices : \A j, k \in DOMAIN queue[s][p] :
    j < k => order[queue[s][p][j]].sequence < order[queue[s][p][k]].sequence

RemainingIn(q) ==
  SeqX!FoldLeft(LAMBDA sum, i : sum + order[i].remaining, 0, q)

\* OrderBook::validate_invariants, for the orders that have a level: levels,
\* queues, level pointers and the cached totals all describe the same orders.
RestingBookValid ==
  /\ \A s \in Sides, p \in Prices :
       LET q == queue[s][p] IN
       /\ p \in levels[s] <=> q # <<>>
       /\ total[s][p] = RemainingIn(q) /\ total[s][p] <= MaxQuantity
       /\ \A k \in DOMAIN q :
            /\ q[k] \in Resting
            /\ level[q[k]] = p /\ order[q[k]].price = p /\ order[q[k]].side = s
            /\ order[q[k]].type = "Limit"
            /\ IsActive(order[q[k]]) /\ order[q[k]].remaining > 0
       /\ \A i \in Resting : level[i] = p /\ order[i].side = s =>
            Cardinality({k \in DOMAIN q : q[k] = i}) = 1

\* What validate_invariants reports between calls (docs/architecture.md:324-325).
ValidateInvariants ==
  Idle => Uncrossed /\ RestingBookValid /\ Stranded = {}

TradesOf(i) == {k \in DOMAIN trades : i \in {trades[k].buy, trades[k].sell}}

\* Through partial fills, modifications and cancellations, an order's filled
\* quantity and notional are those of its trades (order.cpp, record_trade).
FillsAreTrades ==
  \A i \in active \cup completed :
    /\ FilledQuantity(order[i]) =
         SeqX!SumFunctionOnSet([k \in DOMAIN trades |-> trades[k].quantity], TradesOf(i))
    /\ order[i].notional =
         SeqX!SumFunctionOnSet(
           [k \in DOMAIN trades |-> trades[k].price * trades[k].quantity], TradesOf(i))

\* An id is used at most once: it is known to at most one of the engine's three
\* maps (duplicates are refused across all of them).
OneMapPerId ==
  /\ active \cap completed = {}
  /\ rejected \cap (active \cup completed) = {}

\* The history is final: ids leave neither the completed nor the rejected
\* orders, a completed order does not change, and trades are only appended.
HistoryIsFinal ==
  [][/\ completed \subseteq completed' /\ rejected \subseteq rejected'
     /\ \A i \in completed : order'[i] = order[i]
     /\ SeqX!IsPrefix(trades, trades')]_vars

\* A submit or a modify that enters the matching loop comes out of it.
EveryCallReturns == taker # None ~> taker = None

\* Orders are stranded by a price-level overflow only, and for good: neither a
\* cancel, nor a modify, nor a fill ever reaches them again.
OnlyOverflowStrands ==
  [][/\ Stranded \subseteq Stranded'
     /\ Stranded # Stranded' => error' = "overflow"]_vars

-----------------------------------------------------------------------------
(***************************************************************************)
(* The inductive invariant behind the theorems of MatchingEngineProofs: it *)
(* says how the maps, the pointers and the lists describe one another, in  *)
(* every state of a call.                                                  *)
(***************************************************************************)

\* The order in the matching loop is active, in no level, and the youngest.
TakerInHand ==
  taker # None =>
    /\ taker \in active /\ level[taker] = None
    /\ \A i \in active \ {taker} : order[i].sequence < order[taker].sequence

\* The active orders are open, except the taker, which may just be used up.
ActiveAreOpen ==
  \A i \in active :
    /\ order[i].sequence < nextSequence
    /\ order[i].remaining <= order[i].original
    /\ order[i].remaining > 0 => IsActive(order[i])
    /\ order[i].type = "Limit" => order[i].price \in Prices
    /\ i # taker => order[i].remaining > 0 /\ order[i].type = "Limit"

\* What a list holds is an active order that points back at that level.
QueuedAreLinked ==
  \A s \in Sides, p \in Prices : \A k \in DOMAIN queue[s][p] :
    LET i == queue[s][p][k] IN
    i \in active /\ level[i] = p /\ order[i].side = s

\* An order that points at a level is active, priced at it, and in its list.
LinkedAreQueued ==
  \A i \in Ids : level[i] # None =>
    /\ i \in active
    /\ order[i].price = level[i]
    /\ \E k \in DOMAIN queue[order[i].side][level[i]] :
         queue[order[i].side][level[i]][k] = i

\* The maps hold the levels whose list is not empty.
LevelsAreNonEmpty ==
  \A s \in Sides, p \in Prices : p \in levels[s] <=> queue[s][p] # <<>>

\* Of a list of orders that offer r[i] each, the first k offer f[k] together, for
\* every k, and all of them offer t; no partial sum exceeds a Quantity.
SumsTo(q, r, t) ==
  \E f \in [0 .. Len(q) -> Quantities] :
    /\ f[0] = 0 /\ f[Len(q)] = t
    /\ \A k \in 1 .. Len(q) : f[k] = f[k - 1] + r[q[k]]
    /\ \A j, k \in 0 .. Len(q) : j <= k => f[j] <= f[k]

Open == [i \in Ids |-> order[i].remaining]

\* The cached total of a level is what its orders have left, and fits a Quantity,
\* so that none of the subtractions from it wraps around.
TotalsAddUp ==
  \A s \in Sides, p \in Prices : SumsTo(queue[s][p], Open, total[s][p])

\* The book's maps, pointers, lists and totals agree at every step of every call.
BookInvariant ==
  /\ TypeOK
  /\ OneMapPerId
  /\ TakerInHand
  /\ ActiveAreOpen
  /\ QueuedAreLinked
  /\ LinkedAreQueued
  /\ LevelsAreNonEmpty
  /\ TotalsAddUp
  /\ OldestFirst
  /\ Uncrossed
-----------------------------------------------------------------------------
(***************************************************************************)
(* The engine implements the abstract price-time priority auction.         *)
(***************************************************************************)
Entry(i) == [id |-> i, side |-> order[i].side, type |-> order[i].type,
             price |-> order[i].price, rank |-> order[i].sequence,
             open |-> order[i].remaining]

\* The orders as clients see them.
BookEntries == {Entry(i) : i \in Resting}
IncomingEntry == IF taker = None THEN None ELSE Entry(taker)

Auction == INSTANCE PriceTimePriority WITH
             book <- BookEntries, incoming <- IncomingEntry, tape <- trades

\* std::nullopt is not an order: "no incoming order" is told from every entry.
ASSUME NoneIsNoEntry == None \notin Auction!Entries

\* The levels, their FIFO lists, the in-place decrease and the requeue give
\* price-time priority as clients are promised it.
ImplementsPriceTimePriority == Auction!AuctionSpec
=============================================================================
