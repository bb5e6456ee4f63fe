------------------------------ MODULE Portfolio ------------------------------
(***************************************************************************)
(* The accounting of quant_system/portfolio: a Portfolio is a record, each *)
(* of its methods an operator that returns the record it leaves behind.    *)
(*                                                                         *)
(* positions, which the code fills on the first fill of a symbol, is total *)
(* here, with flat positions for the symbols not yet traded: every method  *)
(* treats the two alike.  Money is exact, prices of bars are integers.     *)
(***************************************************************************)
EXTENDS Fractions, Sequences

CONSTANT Symbols

Funcs == INSTANCE Functions

Sides == {"BUY", "SELL"}

\* A mark that _latest_prices does not hold; real ones are positive.
NoMark == 0

Signed(side, quantity) == IF side = "BUY" THEN quantity ELSE -quantity

FlatPosition == [quantity |-> 0, average |-> Zero, realized |-> Zero, trips |-> 0]

NewPortfolio(capital, allowShort) ==
  [cash |-> Whole(capital), allowShort |-> allowShort,
   positions |-> [s \in Symbols |-> FlatPosition],
   marks |-> [s \in Symbols |-> NoMark],
   applied |-> {}, commission |-> Zero, snapshots |-> <<>>]
-----------------------------------------------------------------------------
\* Position.apply_fill: open, increase, or reduce, close and reverse.
Opened(pos, change, price) == [pos EXCEPT !.quantity = change, !.average = price]

Increased(pos, change, price) ==
  LET total == pos.quantity + change
  IN  [pos EXCEPT !.quantity = total,
                  !.average = (Whole(pos.quantity) ** @ ++ Whole(change) ** price) // Whole(total)]

Crosses(quantity, total) == quantity * total <= 0

\* Mutant of Remaining: a reversal keeps the old average price.
RemainingAverage(pos, total, price) == IF total = 0 THEN Zero ELSE pos.average

\* The average price of what is left after a reduction to total.
Remaining(pos, total, price) ==
  CASE total = 0 -> Zero
    [] total * pos.quantity < 0 -> price
    [] OTHER -> pos.average

Reduced(pos, change, price) ==
  LET total == pos.quantity + change
      crossed == Crosses(pos.quantity, total)
      closed == IF crossed THEN pos.quantity ELSE -change
  IN  [quantity |-> total,
       average |-> Remaining(pos, total, price),
       realized |-> pos.realized ++ (price -- pos.average) ** Whole(closed),
       trips |-> pos.trips + (IF crossed THEN 1 ELSE 0)]

ApplyFill(pos, side, quantity, price) ==
  LET change == Signed(side, quantity)
  IN  IF pos.quantity = 0 THEN Opened(pos, change, price)
      ELSE IF pos.quantity * change > 0 THEN Increased(pos, change, price)
      ELSE Reduced(pos, change, price)
-----------------------------------------------------------------------------
\* A fill or an order would create or increase a short that is not allowed.
OpensForbiddenShort(p, symbol, side, quantity) ==
  LET current == p.positions[symbol].quantity
      new == current + Signed(side, quantity)
  IN  ~p.allowShort /\ new < 0 /\ (current < 0 => new < current)

CashAfter(p, fill) ==
  (p.cash -- Whole(Signed(fill.side, fill.quantity)) ** fill.price) -- fill.commission

CanProcessFill(p, fill) ==
  /\ fill.id \notin p.applied
  /\ ~OpensForbiddenShort(p, fill.symbol, fill.side, fill.quantity)
  /\ Zero \preceq CashAfter(p, fill)

\* What process_fill raises when it does not apply the fill.
FillError(p, fill) ==
  IF fill.id \in p.applied THEN "DuplicateFillError"
  ELSE IF ~p.allowShort /\ p.positions[fill.symbol].quantity + Signed(fill.side, fill.quantity) < 0
  THEN "ShortSellingDisabledError" ELSE "InsufficientCashError"

-----------------------------------------------------------------------------
Total(values) == Funcs!FoldFunction(LAMBDA a, b : a ++ b, Zero, values)

\* process_fill, when it does not raise.
ProcessFill(p, fill) ==
  [p EXCEPT !.cash = CashAfter(p, fill),
            !.positions[fill.symbol] = ApplyFill(@, fill.side, fill.quantity, fill.price),
            !.commission = @ ++ fill.commission,
            !.applied = @ \cup {fill.id}]

MarketValues(p) == [s \in Symbols |-> Whole(p.positions[s].quantity * p.marks[s])]

NetExposure(p) == Total(MarketValues(p))
GrossExposure(p) == Total([s \in Symbols |-> Absolute(MarketValues(p)[s])])
Equity(p) == p.cash ++ NetExposure(p)
Realized(p) == Total([s \in Symbols |-> p.positions[s].realized])
Unrealized(p) ==
  Total([s \in Symbols |->
           (Whole(p.marks[s]) -- p.positions[s].average) ** Whole(p.positions[s].quantity)])

Snapshot(p, time) ==
  [timestamp |-> time, cash |-> p.cash, equity |-> Equity(p), realized |-> Realized(p),
   unrealized |-> Unrealized(p), gross |-> GrossExposure(p), net |-> NetExposure(p)]

\* update_market_price
Marked(p, symbol, price) == [p EXCEPT !.marks[symbol] = price]

MarkToMarket(p, bar) ==
  LET marked == Marked(p, bar.symbol, bar.close)
  IN  [marked EXCEPT !.snapshots = Append(@, Snapshot(marked, bar.timestamp))]

=============================================================================
