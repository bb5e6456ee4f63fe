------------------------------- MODULE Order -------------------------------
(***************************************************************************)
(* One order of the native engine (cpp/src/order.cpp): the fields of the   *)
(* class Order that the rest of the engine reads and the four operations   *)
(* that change them.  An order is a record; an operation is an operator    *)
(* from a record to a record.  The book calls replace only within its      *)
(* guard (CanReplace); that it fills and cancels only active orders, the   *)
(* guard of the other two, is part of RestingBookValid.                    *)
(*                                                                         *)
(* Abstracted: the timestamp, the last execution and the long double in    *)
(* which the notional is kept (it is an integer here).                     *)
(***************************************************************************)
EXTENDS Integers

CONSTANTS
  Ids,          \* the order ids clients may use (the engine's nonzero OrderIds)
  Prices,       \* the limit prices clients may use, in ticks
  MaxQuantity   \* the largest Quantity (2^64 - 1 in the code)

ASSUME PricesAssumption == Prices \subseteq Nat \ {0}
ASSUME MaxQuantityAssumption == MaxQuantity \in Nat \ {0}

Sides      == {"Buy", "Sell"}
Opposite(side) == IF side = "Buy" THEN "Sell" ELSE "Buy"
OrderTypes == {"Limit", "Market"}
Statuses   == {"New", "Active", "PartiallyFilled", "Filled", "Cancelled"}

Quantities == 0 .. MaxQuantity

\* A market order has price 0, as in OrderBook::add_market_order.
Orders == [side : Sides, type : OrderTypes, price : Prices \cup {0},
           original : Quantities, remaining : Quantities,
           sequence : Nat, notional : Int, status : Statuses]

\* What the model keeps for an id that no order has used.
BlankOrder == [side |-> "Buy", type |-> "Limit", price |-> 0,
               original |-> 0, remaining |-> 0,
               sequence |-> 0, notional |-> 0, status |-> "New"]

\* The constructor followed by activate(): the book never keeps a New order.
ActivatedOrder(side, type, price, quantity, sequence) ==
  [side |-> side, type |-> type, price |-> price,
   original |-> quantity, remaining |-> quantity,
   sequence |-> sequence, notional |-> 0, status |-> "Active"]

IsActive(o) == o.status \in {"Active", "PartiallyFilled"}

FilledQuantity(o) == o.original - o.remaining

Fill(o, quantity, price) ==
  [o EXCEPT !.notional  = @ + price * quantity,
            !.remaining = @ - quantity,
            !.status    = IF o.remaining = quantity THEN "Filled"
                                                    ELSE "PartiallyFilled"]

CanReplace(o, price, total) ==
  IsActive(o) /\ o.type = "Limit" /\ price > 0 /\ total >= FilledQuantity(o)

\* Mutant of Replace: what was executed is offered again.
ReplaceForgettingFills(o, price, total, sequence) ==
  [o EXCEPT !.price = price, !.original = total, !.remaining = total,
            !.sequence = sequence, !.status = "Active"]

Replace(o, price, total, sequence) ==
  LET executed == FilledQuantity(o)
  IN  [o EXCEPT !.price     = price,
                !.original  = total,
                !.remaining = total - executed,
                !.sequence  = sequence,
                !.status    = IF total = executed THEN "Cancelled"
                              ELSE IF executed = 0 THEN "Active"
                              ELSE "PartiallyFilled"]

\* The remaining quantity of a cancelled order is kept, not zeroed.
Cancelled(o) == [o EXCEPT !.status = "Cancelled"]
=============================================================================
