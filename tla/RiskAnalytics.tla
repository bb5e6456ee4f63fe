---------------------------- MODULE RiskAnalytics ----------------------------
(***************************************************************************)
(* What quant/returns.py, quant/metrics.py and quant_system/risk compute   *)
(* from a series of prices, returns or equity, on exact fractions.  An     *)
(* observation is known by its position.  Standard deviations and normal   *)
(* quantiles are left out, and with them volatility, Sharpe, Sortino, beta *)
(* and parametric VaR.                                                     *)
(***************************************************************************)
EXTENDS Fractions, Sequences, TLC

LOCAL SeqX == INSTANCE SequencesExt

One == Whole(1)
AllPositive(values) == \A i \in DOMAIN values : Zero \prec values[i]
Least(values) == CHOOSE v \in values : \A w \in values : v \preceq w
Greatest(values) == CHOOSE v \in values : \A w \in values : w \preceq v
-----------------------------------------------------------------------------
\* simple_returns of prices that are not zero, without its leading NaN.
SimpleReturns(prices) ==
  [i \in 1 .. Len(prices) - 1 |-> prices[i + 1] // prices[i] -- One]

\* equity_curve: capital * (1 + returns).cumprod()
EquityCurve(returns, capital) ==
  LET curve[i \in 0 .. Len(returns)] ==
        IF i = 0 THEN capital ELSE curve[i - 1] ** (One ++ returns[i])
  IN  [i \in DOMAIN returns |-> curve[i]]
-----------------------------------------------------------------------------
\* metrics.drawdown: the decline from the running maximum.
Drawdown(equity) ==
  [i \in DOMAIN equity |-> equity[i] // Greatest({equity[k] : k \in 1 .. i}) -- One]

MaxDrawdown(equity) ==
  LET declines == Drawdown(equity) IN Least({declines[i] : i \in DOMAIN declines})
-----------------------------------------------------------------------------
(***************************************************************************)
(* drawdown_periods: one scan of the equity, which knows the last peak     *)
(* and, under water, the trough and the observations since the peak.       *)
(***************************************************************************)
Period(scan, equity, recovery) ==
  [peak |-> scan.peak, trough |-> scan.trough, recovery |-> recovery,
   depth |-> equity[scan.trough] // equity[scan.peak] -- One, duration |-> scan.underwater]

\* The recovery of a period that lasts to the end of the series.
NotRecovered == 0

StartScan == [peak |-> 1, under |-> FALSE, trough |-> 1, underwater |-> 0, periods |-> <<>>]

AtPeak(scan, i) == [scan EXCEPT !.peak = i, !.under = FALSE]

\* Mutant of Recovers: only a new high ends a period.
RecoversAbove(scan, equity, i) == equity[scan.peak] \prec equity[i]

Recovers(scan, equity, i) == equity[scan.peak] \preceq equity[i]

ScanStep(scan, equity, i) ==
  CASE ~scan.under /\ Recovers(scan, equity, i) -> AtPeak(scan, i)
    [] ~scan.under /\ ~Recovers(scan, equity, i) -> [scan EXCEPT !.under = TRUE, !.trough = i, !.underwater = 1]
    [] scan.under /\ Recovers(scan, equity, i) ->
         AtPeak([scan EXCEPT !.periods = Append(@, Period(scan, equity, i))], i)
    [] OTHER ->
         [scan EXCEPT !.underwater = @ + 1,
                      !.trough = IF equity[i] \prec equity[@] THEN i ELSE @]

DrawdownPeriods(equity) ==
  LET scan[i \in DOMAIN equity] ==
        IF i = 1 THEN StartScan ELSE ScanStep(scan[i - 1], equity, i)
      last == scan[Len(equity)]
  IN  IF last.under THEN Append(last.periods, Period(last, equity, NotRecovered)) ELSE last.periods

\* max_drawdown_period, of which the report uses the duration: the first of the deepest.
MaxDrawdownDuration(equity) ==
  LET periods == DrawdownPeriods(equity) IN
  IF periods = <<>> THEN 0
  ELSE LET deepest == Least({periods[k].depth : k \in DOMAIN periods})
       IN  periods[SeqX!SelectInSeq(periods, LAMBDA p : p.depth = deepest)].duration
-----------------------------------------------------------------------------
\* np.quantile(values, q, method="linear")
Quantile(values, q) ==
  LET sorted == SortSeq(values, LAMBDA a, b : a \prec b)
      place == Whole(Len(values) - 1) ** q
      below == place.n \div place.d
      rest == place -- Whole(below)
  IN  IF rest = Zero THEN sorted[below + 1]
      ELSE sorted[below + 1] ++ rest ** (sorted[below + 2] -- sorted[below + 1])

Cutoff(returns, confidence) == Quantile(returns, One -- confidence)

\* max(0.0, -value)
Loss(value) == IF value \prec Zero THEN opposite[value] ELSE Zero

Mean(values) == SeqX!FoldLeft(LAMBDA a, b : a ++ b, Zero, values) // Whole(Len(values))

HistoricalVaR(returns, confidence) == Loss(Cutoff(returns, confidence))

\* The mean of the returns at or below the cutoff.
ExpectedShortfall(returns, confidence) ==
  LET cutoff == Cutoff(returns, confidence)
  IN  Loss(Mean(SelectSeq(returns, LAMBDA r : r \preceq cutoff)))

Percent(p) == Ratio(p, 100)

\* generate_risk_report raises unless the equity is positive and there are two returns,
\* none of them below -1 (annualized_volatility).
ReportDefined(returns, equity) ==
  AllPositive(equity) /\ Len(returns) >= 2 /\ \A i \in DOMAIN returns : opposite[One] \preceq returns[i]

RiskReport(returns, equity) ==
  [historical_var_95 |-> HistoricalVaR(returns, Percent(95)),
   historical_var_99 |-> HistoricalVaR(returns, Percent(99)),
   expected_shortfall_95 |-> ExpectedShortfall(returns, Percent(95)),
   max_drawdown |-> MaxDrawdown(equity), max_drawdown_duration |-> MaxDrawdownDuration(equity)]
=============================================================================
