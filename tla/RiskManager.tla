----------------------------- MODULE RiskManager -----------------------------
(***************************************************************************)
(* quant_system/risk: the pre-trade checks of an order against the         *)
(* exposure the portfolio would have with it.  Limits are fractions or     *)
(* None; percentages are fractions of equity.                              *)
(***************************************************************************)
EXTENDS Portfolio

CONSTANT None

Approved == "approved"

LimitReasons ==
  {"MAX_POSITION_NOTIONAL", "MAX_GROSS_EXPOSURE", "MAX_NET_EXPOSURE",
   "MAX_POSITION_PCT", "MAX_GROSS_EXPOSURE_PCT"}
Reasons ==
  LimitReasons \cup {"SHORT_SELLING_DISABLED", "INSUFFICIENT_CASH", "NON_POSITIVE_EQUITY"}

\* RiskLimits with every limit absent.
NoLimits ==
  [position |-> None, gross |-> None, net |-> None, positionPct |-> None, grossPct |-> None]

\* Mutant of Exposure: the other positions are forgotten.
ExposureAlone(p, symbol, quantity, price) ==
  LET value == Absolute(Whole(quantity * price))
      pct(v) == IF Equity(p) \preceq Zero THEN None ELSE v // Equity(p)
  IN  [position |-> value, gross |-> value, net |-> value,
       positionPct |-> pct(value), grossPct |-> pct(value)]

\* _exposure_state: the exposure with quantity units of symbol, valued at price
\* where the other positions are valued at their marks.
Exposure(p, symbol, quantity, price) ==
  LET values == [MarketValues(p) EXCEPT ![symbol] = Whole(quantity * price)]
      gross == Total([s \in Symbols |-> Absolute(values[s])])
      pct(value) == IF Equity(p) \preceq Zero THEN None ELSE value // Equity(p)
  IN  [position |-> Absolute(values[symbol]), gross |-> gross, net |-> Absolute(Total(values)),
       positionPct |-> pct(Absolute(values[symbol])), grossPct |-> pct(gross)]

\* The limits in the order they are checked, each with the reason it gives.
Checks ==
  <<<<"position", "MAX_POSITION_NOTIONAL">>, <<"gross", "MAX_GROSS_EXPOSURE">>,
    <<"net", "MAX_NET_EXPOSURE">>, <<"positionPct", "MAX_POSITION_PCT">>,
    <<"grossPct", "MAX_GROSS_EXPOSURE_PCT">>>>

\* Mutant of Exceeds: an order that reduces an excess is refused too.
ExceedsAtAll(before, after, limit) == limit \prec after

\* A value over its limit is refused only when the order makes it worse.
Exceeds(before, after, limit) == limit \prec after /\ before \prec after

LimitDecision(before, after, limits) ==
  LET undefined(k) == before[k] = None \/ after[k] = None
      refuses(i) == LET k == Checks[i][1] IN
        limits[k] # None /\ (undefined(k) \/ Exceeds(before[k], after[k], limits[k]))
      first(i) == refuses(i) /\ \A j \in 1 .. i - 1 : ~refuses(j)
  IN  IF \E i \in DOMAIN Checks : refuses(i)
      THEN LET i == CHOOSE i \in DOMAIN Checks : first(i)
           IN  IF undefined(Checks[i][1]) THEN "NON_POSITIVE_EQUITY" ELSE Checks[i][2]
      ELSE Approved

\* validate_order: Approved, or the reason of the rejection.
Decision(order, p, price, limits) ==
  LET current == p.positions[order.symbol].quantity
      hypothetical == current + Signed(order.side, order.quantity)
  IN  IF OpensForbiddenShort(p, order.symbol, order.side, order.quantity)
      THEN "SHORT_SELLING_DISABLED"
      ELSE IF order.side = "BUY" /\ p.cash \prec Whole(order.quantity * price)
      THEN "INSUFFICIENT_CASH"
      ELSE LimitDecision(Exposure(p, order.symbol, current, price),
                         Exposure(p, order.symbol, hypothetical, price), limits)
=============================================================================
