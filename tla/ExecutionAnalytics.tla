-------------------------- MODULE ExecutionAnalytics --------------------------
(***************************************************************************)
(* The report on a parent order (execution_summary.cpp) and what it is     *)
(* judged by (analytics/execution_analytics.cpp,                           *)
(* implementation_shortfall.cpp), on exact fractions.  Fills and market    *)
(* trades are functions from some indices to prices and quantities.        *)
(*                                                                         *)
(* Abstracted: the times of the fills, the same figures in basis points,   *)
(* and the text of both reports.                                           *)
(***************************************************************************)
EXTENDS Fractions, ParentOrder, FiniteSets

FunX == INSTANCE Functions

CONSTANT None  \* an absent optional

\* What a parent's owner compares with: prices, None where not given, in ticks.
Benchmarks ==
  [arrival : Nat, decision : Nat \cup {None}, final : Nat \cup {None},
   bid : Nat \cup {None}, ask : Nat \cup {None}, fees : Fractions, tick : Fractions]

Volume(fills) == FunX!SumFunction([k \in DOMAIN fills |-> fills[k].quantity])

Notional(fills) ==
  FunX!SumFunction([k \in DOMAIN fills |-> fills[k].price * fills[k].quantity])

\* The average price weighted by quantity, absent without fills: of a parent's fills, and,
\* over all trades of the market, its VWAP.
WeightedPrice(fills) ==
  IF DOMAIN fills = {} THEN None ELSE Ratio(Notional(fills), Volume(fills))

\* build_execution_summary of parent p; it throws unless FillsAddUp.
FillsAddUp(p, fills) == Volume(fills) = p.executed

Summary(p, fills) ==
  [side |-> p.side, status |-> p.status,
   requested |-> p.total, executed |-> p.executed, remaining |-> Unexecuted(p),
   children |-> Cardinality(p.children), fills |-> Cardinality(DOMAIN fills),
   average |-> WeightedPrice(fills),
   participation |-> IF p.observed = 0 THEN None ELSE Ratio(Volume(fills), p.observed)]
-----------------------------------------------------------------------------
\* What validate_inputs demands of a summary.
SummaryAccepted(s) ==
  /\ s.executed <= s.requested /\ s.remaining = s.requested - s.executed
  /\ IF s.executed > 0 THEN s.average # None /\ Zero \prec s.average ELSE s.average = None

\* And of a benchmark; so does validate_benchmark, with the quotes at arrival.
BenchmarkAccepted(b) ==
  /\ b.arrival > 0 /\ Zero \prec b.tick /\ Zero \preceq b.fees
  /\ b.final # 0 /\ b.decision # 0
  /\ b.bid = None <=> b.ask = None
  /\ b.bid # None => 0 < b.bid /\ b.bid <= b.ask

\* directional_difference, signed_slippage: positive when it is bad for the owner.
Against(side, price, reference) ==
  IF side = "Buy" THEN price -- reference ELSE reference -- price

\* The cost of a quantity at one price rather than another.
Cost(s, b, price, reference, quantity) ==
  Against(s.side, price, reference) ** Whole(quantity) ** b.tick

ExecutionCost(s, b) ==
  IF s.average = None THEN Zero ELSE Cost(s, b, s.average, Whole(b.arrival), s.executed)

\* Mutant of OpportunityCost: all that was requested is valued at the final price.
OpportunityOfRequested(s, b) ==
  IF s.remaining = 0 THEN Zero
  ELSE IF b.final = None THEN None
  ELSE Cost(s, b, Whole(b.final), Whole(b.arrival), s.requested)

\* What was not executed, at the final price; absent when that is not known.
OpportunityCost(s, b) ==
  IF s.remaining = 0 THEN Zero
  ELSE IF b.final = None THEN None
  ELSE Cost(s, b, Whole(b.final), Whole(b.arrival), s.remaining)

\* Reported apart from the total.
DelayCost(s, b) ==
  IF b.decision = None THEN None
  ELSE Cost(s, b, Whole(b.arrival), Whole(b.decision), s.requested)

\* calculate_implementation_shortfall.
Shortfall(s, b) ==
  LET opportunity == OpportunityCost(s, b) IN
  [execution |-> ExecutionCost(s, b), opportunity |-> opportunity, delay |-> DelayCost(s, b),
   fees |-> b.fees,
   total |-> IF opportunity = None THEN None ELSE ExecutionCost(s, b) ++ b.fees ++ opportunity]

\* What the executed quantity cost against a reference, absent without it or a fill.
SlippageAmount(s, b, reference) ==
  IF s.average = None \/ reference = None THEN None
  ELSE Cost(s, b, s.average, reference, s.executed)

Midpoint(b) == IF b.bid = None THEN None ELSE Ratio(b.bid + b.ask, 2)

\* generate_execution_quality_report, given the trades of the market.
QualityReport(s, b, tape) ==
  [shortfall |-> Shortfall(s, b), vwap |-> WeightedPrice(tape),
   arrival_amount |-> SlippageAmount(s, b, Whole(b.arrival)),
   vwap_amount    |-> SlippageAmount(s, b, WeightedPrice(tape)),
   spread_cost    |-> SlippageAmount(s, b, Midpoint(b))]
=============================================================================
