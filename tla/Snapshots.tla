------------------------------ MODULE Snapshots ------------------------------
(***************************************************************************)
(* The dashboard's reports on one instrument (dashboard.py): the dataset   *)
(* summary, the portfolio snapshot and the risk snapshot each load the     *)
(* same source for themselves and compute their own figures from it.       *)
(*                                                                         *)
(* A source has columns, a mapping and the symbol of the requests, and its *)
(* rows come one after the other; new rows make earlier answers void.      *)
(***************************************************************************)
EXTENDS MarketData, Portfolio, RiskAnalytics

LOCAL List == INSTANCE SequencesExt

CONSTANTS
  Sources,   \* columns, mapping, symbol, payload, and the rows that may come next
  Epsilon    \* 1e-9, below which the equity is not divided by

VARIABLES
  source,
  rows,      \* the rows of the source so far
  answers    \* what each report answered, or None

vars == <<source, rows, answers>>

NoAnswers == [dataset |-> None, portfolio |-> None, risk |-> None]

\* _load_data; MarketDataError has no handler of its own, the others are answered with 400.
Loaded == LoadFrame([columns |-> source.columns, rows |-> rows], source.mapping, source.symbol)

\* Requests name their symbol.  Prices that are not positive load too; what the reports'
\* divisions make of them is left out.
Reportable ==
  LET loaded == Loaded IN
  /\ source.symbol # None
  /\ loaded.error = None =>
       \A i \in DOMAIN loaded.rows : loaded.rows[i].open > 0 /\ loaded.rows[i].close > 0

\* A report answers once, with figures or with the name of the exception.
Figures(figures) == [error |-> None, figures |-> figures]
Raises(error) == [error |-> error, figures |-> None]

Answer(report, answer) ==
  /\ Reportable /\ answers[report] = None
  /\ answers' = [answers EXCEPT ![report] = answer] /\ UNCHANGED <<source, rows>>

Prices(bars, field) == [i \in DOMAIN bars |-> Whole(bars[i][field])]
First(bars, field) == Whole(bars[1][field])
Last(bars, field) == Whole(bars[Len(bars)][field])

DatasetFigures(bars) ==
  [bars |-> Len(bars), start |-> bars[1].timestamp, end |-> bars[Len(bars)].timestamp,
   last_close |-> Last(bars, "close"), price_change |-> Last(bars, "close") // First(bars, "close") -- One,
   period_high |-> Greatest({Whole(bars[i].high) : i \in DOMAIN bars}),
   period_low |-> Least({Whole(bars[i].low) : i \in DOMAIN bars})]
-----------------------------------------------------------------------------
(***************************************************************************)
(* run_portfolio_snapshot: one purchase at the first open, marked at the   *)
(* last close, in a Portfolio of its own.                                  *)
(***************************************************************************)
\* _number and _integer
InvalidPayload(p) == p.capital < 1 \/ p.quantity < 1 \/ p.commission \prec Zero

Commission(bars, p) == First(bars, "open") ** Whole(p.quantity) ** p.commission

RequiredCash(bars, p) == First(bars, "open") ** Whole(p.quantity) ++ Commission(bars, p)

Purchase(bars, p) ==
  [id |-> 1, timestamp |-> bars[1].timestamp, symbol |-> bars[1].symbol, side |-> "BUY",
   quantity |-> p.quantity, price |-> First(bars, "open"), commission |-> Commission(bars, p)]

PortfolioFigures(bars, p) ==
  LET held == Marked(ProcessFill(NewPortfolio(p.capital, FALSE), Purchase(bars, p)),
                     bars[1].symbol, bars[Len(bars)].close)
      net == Equity(held) -- Whole(p.capital)
  IN  [cash |-> held.cash, equity |-> Equity(held), realized_pnl |-> Realized(held),
       gross_unrealized_pnl |-> Unrealized(held), net_pnl |-> net, commission |-> held.commission,
       net_position_return |-> net // RequiredCash(bars, p),
       gross_exposure |-> GrossExposure(held), net_exposure |-> NetExposure(held),
       entry_price |-> First(bars, "open"), market_price |-> Last(bars, "close")]
-----------------------------------------------------------------------------
(***************************************************************************)
(* run_risk_snapshot: the same position, computed without a Portfolio and  *)
(* without asking whether the capital is enough, against four limits.      *)
(***************************************************************************)
InvalidLimits(limits) ==
  \/ limits.position \prec Percent(1) \/ limits.leverage \prec Percent(1)
  \/ limits.drawdown \prec Percent(1) \/ limits.var \prec Ratio(1, 1000)

\* Mutant of Cash: the commission is not paid.
CashBeforeCommission(bars, p) == Whole(p.capital) -- First(bars, "open") ** Whole(p.quantity)

Cash(bars, p) == Whole(p.capital) -- First(bars, "open") ** Whole(p.quantity) -- Commission(bars, p)

MarketValue(bars, p) == Last(bars, "close") ** Whole(p.quantity)

Denominator(equity) == IF Absolute(equity) \preceq Epsilon THEN Epsilon ELSE Absolute(equity)

Status(utilization) ==
  CASE One \preceq utilization -> "breach"
    [] Percent(80) \preceq utilization /\ utilization \prec One -> "warning"
    [] OTHER -> "healthy"

Limit(current, limit) ==
  [current |-> current, limit |-> limit, utilization |-> current // limit, status |-> Status(current // limit)]

Limits(bars, p) ==
  LET value == MarketValue(bars, p)
      equity == Denominator(Cash(bars, p) ++ value)
      closes == Prices(bars, "close")
      var95 == Loss(Quantile(SimpleReturns(closes), Percent(5))) ** value
  IN  <<Limit(value // equity, p.limits.position), Limit(value // equity, p.limits.leverage),
        Limit(Absolute(MaxDrawdown(closes)), p.limits.drawdown), Limit(var95 // equity, p.limits.var)>>

\* The worst status of any limit.
Overall(limits) ==
  LET statuses == {limits[k].status : k \in DOMAIN limits}
  IN  IF "breach" \in statuses THEN "breach" ELSE IF "warning" \in statuses THEN "warning" ELSE "healthy"

Alerts(limits) == SelectSeq(limits, LAMBDA limit : limit.status # "healthy")

RiskFigures(bars, p) ==
  LET value == MarketValue(bars, p)
      equity == Cash(bars, p) ++ value
      gross == (Last(bars, "close") -- First(bars, "open")) ** Whole(p.quantity)
      limits == Limits(bars, p)
      used == Greatest({limits[k].utilization : k \in DOMAIN limits}) ** Whole(100)
  IN  [status |-> Overall(limits), cash |-> Cash(bars, p), equity |-> equity,
       risk_score |-> IF used \prec Whole(999) THEN used ELSE Whole(999),
       gross_unrealized_pnl |-> gross, net_pnl |-> gross -- Commission(bars, p),
       daily_pnl |-> (Last(bars, "close") -- Whole(bars[Len(bars) - 1].close)) ** Whole(p.quantity),
       commission |-> Commission(bars, p), gross_exposure |-> value, net_exposure |-> value,
       market_price |-> Last(bars, "close"), limits |-> limits, alerts |-> Alerts(limits)]
-----------------------------------------------------------------------------
Init ==
  /\ source \in Sources
  /\ rows = <<>> /\ answers = NoAnswers

\* The source has one more row.
Publish ==
  /\ Len(rows) < Len(source.next)
  /\ \E row \in source.next[Len(rows) + 1] : rows' = Append(rows, row)
  /\ answers' = NoAnswers /\ UNCHANGED source

DatasetSummary ==
  LET loaded == Loaded IN
  Answer("dataset", IF loaded.error # None THEN Raises(loaded.error) ELSE Figures(DatasetFigures(loaded.rows)))

PortfolioRaises(bars, p) == InvalidPayload(p) \/ Whole(p.capital) \prec RequiredCash(bars, p)

RunPortfolioSnapshot ==
  LET loaded == Loaded IN
  Answer("portfolio",
    IF loaded.error # None THEN Raises(loaded.error)
    ELSE IF PortfolioRaises(loaded.rows, source.payload) THEN Raises("ValueError")
    ELSE Figures(PortfolioFigures(loaded.rows, source.payload)))

RiskRaises(bars, p) == Len(bars) < 2 \/ InvalidPayload(p) \/ InvalidLimits(p.limits)

RunRiskSnapshot ==
  LET loaded == Loaded IN
  Answer("risk",
    IF loaded.error # None THEN Raises(loaded.error)
    ELSE IF RiskRaises(loaded.rows, source.payload) THEN Raises("ValueError")
    ELSE Figures(RiskFigures(loaded.rows, source.payload)))

Next == Publish \/ DatasetSummary \/ RunPortfolioSnapshot \/ RunRiskSnapshot

Spec == Init /\ [][Next]_vars
-----------------------------------------------------------------------------
Frame == [columns |-> source.columns, rows |-> rows]

Backwards(frame) == [frame EXCEPT !.rows = List!Reverse(@)]
Mirrored(frame) ==
  [columns |-> List!Reverse(frame.columns),
   rows |-> [r \in DOMAIN frame.rows |-> List!Reverse(frame.rows[r])]]

Header == <<"timestamp", "symbol", "open", "high", "low", "close", "volume">>
AsFrame(bars) ==
  [columns |-> Header, rows |-> [i \in DOMAIN bars |-> [c \in DOMAIN Header |-> bars[i][Header[c]]]]]

\* No repair and no loss: what loads is every row of the source once, in strict order, with
\* finite prices that fit each other, and the actual close where there is one; and neither
\* the order of rows and columns nor loading the result again makes a difference
\* (architecture.md:69-79, "does not infer missing prices ... or deduplicate").
LoadedFramesAreValid ==
  LET loaded == Loaded IN
  /\ loaded.error = None =>
       /\ Len(loaded.rows) = Len(rows)
       /\ \A i \in DOMAIN loaded.rows :
            LET bar == loaded.rows[i] IN
            /\ i > 1 => Before(loaded.rows[i - 1], bar)
            /\ bar.low <= bar.open /\ bar.open <= bar.high /\ bar.low <= bar.close /\ bar.close <= bar.high
            /\ bar.volume >= 0
            /\ \E r \in DOMAIN rows : \A c \in DOMAIN source.columns :
                 /\ source.columns[c] \in {"timestamp", "open", "high", "low"} /\ source.mapping = <<>> =>
                      rows[r][c] = bar[source.columns[c]]
                 /\ source.columns[c] = "close" /\ "close" \notin Mapped(source.mapping) => rows[r][c] = bar.close
       /\ LoadFrame(AsFrame(loaded.rows), <<>>, source.symbol) = loaded
  /\ LoadFrame(Backwards(Frame), source.mapping, source.symbol) = loaded
  /\ LoadFrame(Mirrored(Frame), source.mapping, source.symbol) = loaded

\* The periods of a series by their definition: the longest runs of observations below an
\* earlier one, from the observation before the run to the one after.
UnderWater(equity, i) == \E k \in 1 .. i - 1 : equity[i] \prec equity[k]

Runs(equity) ==
  {run \in (DOMAIN equity) \X (DOMAIN equity) :
     /\ run[1] <= run[2] /\ \A i \in run[1] .. run[2] : UnderWater(equity, i)
     /\ ~UnderWater(equity, run[1] - 1)
     /\ run[2] < Len(equity) => ~UnderWater(equity, run[2] + 1)}

PeriodOf(equity, run) ==
  LET trough == CHOOSE t \in run[1] .. run[2] : \A i \in run[1] .. run[2] :
                  equity[t] \preceq equity[i] /\ (i < t => equity[t] \prec equity[i])
  IN  [peak |-> run[1] - 1, trough |-> trough,
       recovery |-> IF run[2] = Len(equity) THEN NotRecovered ELSE run[2] + 1,
       depth |-> equity[trough] // equity[run[1] - 1] -- One, duration |-> run[2] - run[1] + 1]

\* The scan of drawdown_periods finds the periods there are, in order ("recovers at equity
\* >= prior peak", "excludes the recovery bar", architecture.md:237-239), the running
\* maximum gives the same deepest decline, and returns compound back to their prices.
DrawdownsAgree(equity) ==
  LET periods == DrawdownPeriods(equity)
      depths == {periods[k].depth : k \in DOMAIN periods}
  IN  /\ {periods[k] : k \in DOMAIN periods} = {PeriodOf(equity, run) : run \in Runs(equity)}
      /\ \A k \in DOMAIN periods \ {1} : periods[k - 1].trough < periods[k].peak
      /\ MaxDrawdown(equity) = (IF depths = {} THEN Zero ELSE Least(depths))
      /\ IF depths = {} THEN MaxDrawdownDuration(equity) = 0
         ELSE \E k \in DOMAIN periods :
                periods[k].depth = MaxDrawdown(equity) /\ periods[k].duration = MaxDrawdownDuration(equity)
      /\ EquityCurve(SimpleReturns(equity), equity[1]) = Tail(equity)

\* Losses are ordered as their names say: VaR grows with the confidence up to the worst
\* loss, and the expected shortfall, of a tail that has observations, is not below it.
LossesAreOrdered(returns) ==
  LET worst == Loss(Least({returns[i] : i \in DOMAIN returns})) IN
  /\ HistoricalVaR(returns, Percent(50)) \preceq HistoricalVaR(returns, Percent(95))
  /\ HistoricalVaR(returns, Percent(95)) \preceq HistoricalVaR(returns, Percent(99))
  /\ HistoricalVaR(returns, Percent(99)) \preceq worst
  /\ \A confidence \in {Percent(50), Percent(95)} :
       /\ \E i \in DOMAIN returns : returns[i] \preceq Cutoff(returns, confidence)
       /\ HistoricalVaR(returns, confidence) \preceq ExpectedShortfall(returns, confidence)
       /\ ExpectedShortfall(returns, confidence) \preceq worst

RiskNumbersAgree ==
  LET loaded == Loaded
      closes == Prices(loaded.rows, "close")
  IN  Reportable /\ loaded.error = None =>
        DrawdownsAgree(closes) /\ (Len(closes) > 1 => LossesAreOrdered(SimpleReturns(closes)))

HasFigures(report) == answers[report] # None /\ answers[report].error = None
\* "... portfolio ... calls then share the same snapshot so their calculations reconcile"
\* (README.md:210-211): the risk snapshot, which keeps no Portfolio, has the cash, the
\* equity, the profits and the exposure that the Portfolio books; equity is capital and
\* net profit; a portfolio is refused for its cost when, and only when, the risk snapshot
\* is left without cash; and a status is as bad as the worst limit, and so is the score.
SnapshotsReconcile ==
  LET p == answers.portfolio.figures
      r == answers.risk.figures
      payload == source.payload
  IN  /\ HasFigures("portfolio") /\ HasFigures("risk") =>
           \A field \in {"cash", "equity", "gross_unrealized_pnl", "net_pnl", "commission",
                         "gross_exposure", "net_exposure", "market_price"} : p[field] = r[field]
      /\ HasFigures("portfolio") =>
           /\ Zero \preceq p.cash /\ p.realized_pnl = Zero
           /\ p.equity = Whole(payload.capital) ++ p.gross_unrealized_pnl -- p.commission
      /\ HasFigures("risk") =>
           /\ r.equity = Whole(payload.capital) ++ r.net_pnl
           /\ (r.status = "breach") = (Whole(100) \preceq r.risk_score)
           /\ (r.status = "healthy") = (r.alerts = <<>>)
           /\ \E k \in DOMAIN r.limits : r.limits[k].status = r.status
           /\ answers.portfolio # None /\ answers.portfolio.error = "ValueError" => r.cash \prec Zero
      /\ HasFigures("risk") /\ HasFigures("dataset") =>
           /\ answers.dataset.figures.last_close = r.market_price
           /\ r.limits[3].current \preceq One
           /\ answers.dataset.figures.price_change \prec Zero => Zero \prec r.limits[3].current
=============================================================================
