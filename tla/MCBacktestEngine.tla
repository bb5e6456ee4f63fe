--------------------------- MODULE MCBacktestEngine ---------------------------
(***************************************************************************)
(* Instances of BacktestEngine for TLC: a run is determined by its job, so *)
(* the sets of jobs are what is explored.                                  *)
(***************************************************************************)
EXTENDS BacktestEngine

Bar(t, s, open, close) == [timestamp |-> t, symbol |-> s, open |-> open, close |-> close]
Fixed(amount) == [kind |-> "fixed", amount |-> Whole(amount)]
Percentage(n, d) == [kind |-> "percentage", amount |-> Ratio(n, d)]

\* The script that gives the signals <<symbol, side>> of answers[i] at the i-th bar.
Script(bars, answers) ==
  [kind |-> "script",
   script |-> [key \in {<<bars[i].symbol, bars[i].timestamp>> : i \in DOMAIN bars} |->
     LET answer == answers[CHOOSE i \in DOMAIN bars : <<bars[i].symbol, bars[i].timestamp>> = key]
     IN  [k \in DOMAIN answer |->
            [timestamp |-> key[2], symbol |-> answer[k][1], side |-> answer[k][2]]]]]

Job(bars, strat) ==
  [bars |-> bars, warmup |-> <<>>, strategy |-> strat, capital |-> 6, quantity |-> 2,
   commission |-> Fixed(0), slippage |-> Fixed(0), allowShort |-> TRUE, limits |-> NoLimits,
   runs |-> 1]

\* One symbol, prices that move between close and open.
OneSymbol == <<Bar(1, "A", 2, 2), Bar(2, "A", 1, 3), Bar(3, "A", 3, 1), Bar(4, "A", 2, 2)>>

Answers == {<<>>, <<"BUY">>, <<"SELL">>, <<"EXIT">>, <<"BUY", "BUY">>, <<"SELL", "EXIT">>}
ForA(sides) == [k \in DOMAIN sides |-> <<"A", sides[k]>>]

\* Every script of up to two signals a bar, with and without short sales, with costs
\* that are fixed or percentages, and with a fixed slippage larger than a price.
OrderJobs ==
  {[Job(OneSymbol, Script(OneSymbol, <<ForA(a), ForA(b), ForA(c), ForA(<<"BUY">>)>>)) EXCEPT
      !.capital = 9, !.allowShort = costs.short, !.commission = costs.commission, !.slippage = costs.slippage]
    : a \in Answers, b \in Answers, c \in Answers,
      costs \in {[short |-> TRUE, commission |-> Percentage(1, 2), slippage |-> Percentage(1, 3)],
                 [short |-> FALSE, commission |-> Fixed(1), slippage |-> Fixed(0)],
                 [short |-> TRUE, commission |-> Fixed(0), slippage |-> Fixed(1)]}}

\* Two symbols whose bars of one time come in either order, and a strategy that
\* trades both from the bars of each.
TwoSymbols ==
  <<Bar(1, "A", 1, 2), Bar(1, "B", 2, 1), Bar(2, "B", 1, 3), Bar(2, "A", 2, 1), Bar(3, "A", 1, 1),
    Bar(4, "B", 2, 2)>>

CrossAnswers == {<<>>, <<<<"A", "BUY">>>>, <<<<"A", "EXIT">>>>, <<<<"B", "BUY">>>>, <<<<"B", "SELL">>>>}

\* A position is left once from its own bar and once from the other symbol's.
Twice == <<Bar(1, "A", 1, 1), Bar(2, "A", 1, 1), Bar(3, "B", 1, 1), Bar(3, "A", 1, 1), Bar(4, "A", 1, 1)>>
LeaveTwice ==
  [Job(Twice, Script(Twice, <<ForA(<<"BUY">>), ForA(<<"EXIT">>), ForA(<<"EXIT">>), <<>>, <<>>>>)) EXCEPT
     !.allowShort = FALSE]

\* Three orders for one bar of which only the first can be paid for.
ThreeAtOnce ==
  LET bars == <<Bar(1, "A", 2, 2), Bar(2, "A", 3, 3)>>
  IN  [Job(bars, Script(bars, <<ForA(<<"BUY", "BUY", "BUY">>), <<>>>>)) EXCEPT !.capital = 8]

CrossJobs ==
  {LeaveTwice, ThreeAtOnce} \cup {[Job(TwoSymbols, Script(TwoSymbols, <<a, b, c, d, <<>>, <<>>>>)) EXCEPT
      !.allowShort = FALSE, !.commission = Fixed(1)]
    : a \in CrossAnswers, b \in CrossAnswers, c \in CrossAnswers, d \in CrossAnswers}
-----------------------------------------------------------------------------
\* The bars of two symbols whose prices move against each other: the closes of A are
\* the path, and every bar opens at the middle price.
Mirror(path) ==
  Seqs!FlattenSeq([t \in DOMAIN path |-> <<Bar(t, "A", 2, path[t]), Bar(t, "B", 2, 4 - path[t])>>])

Paths(n) == [1 .. n -> 1 .. 3]

MCStrategies ==
  {[kind |-> "momentum", lookback |-> 1, threshold |-> Ratio(1, 4)],
   [kind |-> "mean_reversion", window |-> 3, entry |-> Whole(1), exit |-> Ratio(1, 2)],
   [kind |-> "crossover", fast |-> 1, slow |-> 2, allowShort |-> TRUE],
   [kind |-> "crossover", fast |-> 1, slow |-> 3, allowShort |-> FALSE]}

\* The first two times warm the strategy up, or belong to the evaluation.
StrategyJobs(n) ==
  {[Job(SubSeq(Mirror(path), first, 2 * n), strat) EXCEPT
      !.warmup = SubSeq(Mirror(path), 1, first - 1), !.capital = 20]
    : path \in Paths(n), strat \in MCStrategies, first \in {1, 5}}

\* Strategies whose entries and exits are rejected for want of cash, and some later ones not.
Poor(path) == [t \in DOMAIN path |-> Bar(t, "A", 1, path[t])]
PoorStrategies == {strat \in MCStrategies : strat.kind \in {"momentum", "crossover"}}
PoorJobs ==
  {[Job(Poor(<<2, 1>> \o path), strat) EXCEPT !.capital = 4]
    : path \in [1 .. 5 -> {1, 2, 4}], strat \in PoorStrategies}
-----------------------------------------------------------------------------
\* Prices that stand still, and a strategy that trades each symbol from its own bars.
Steady ==
  <<Bar(1, "A", 1, 1), Bar(1, "B", 2, 2), Bar(2, "A", 1, 1), Bar(3, "B", 2, 2), Bar(3, "A", 1, 1),
    Bar(4, "A", 1, 1), Bar(5, "B", 2, 2)>>

SteadyAnswers(s) == {<<>>, <<<<s, "BUY">>>>, <<<<s, "SELL">>>>, <<<<s, "EXIT">>>>}

MCLimits ==
  {[NoLimits EXCEPT !.gross = Whole(5)], [NoLimits EXCEPT !.net = Whole(3)],
   [NoLimits EXCEPT !.grossPct = Ratio(2, 3), !.positionPct = Ratio(1, 2)],
   [NoLimits EXCEPT !.position = Whole(2), !.net = Whole(2)]}

SteadyJobs ==
  {[Job(Steady, Script(Steady, <<a, b, c, d, <<<<"A", "BUY">>>>, <<>>, <<>>>>)) EXCEPT
      !.limits = limits]
    : a \in SteadyAnswers("A"), b \in SteadyAnswers("B"), c \in SteadyAnswers("A"),
      d \in SteadyAnswers("B"), limits \in MCLimits}

\* Prices that carry a position over its limits and back.
Swings == <<Bar(1, "A", 1, 1), Bar(2, "A", 1, 3), Bar(3, "A", 3, 2), Bar(4, "A", 2, 2)>>

SwingJobs ==
  {[Job(Swings, Script(Swings, <<ForA(a), ForA(b), ForA(c), <<>>>>)) EXCEPT !.limits = limits]
    : a \in Answers, b \in Answers, c \in Answers, limits \in MCLimits}
-----------------------------------------------------------------------------
\* Short positions whose price goes up fourfold.
Squeeze == <<Bar(1, "A", 1, 1), Bar(2, "A", 1, 4), Bar(3, "A", 4, 4)>>
SqueezeJobs ==
  {[Job(Squeeze, Script(Squeeze, <<ForA(<<"SELL", "SELL">>), ForA(a), <<>>>>)) EXCEPT !.limits = limits]
    : a \in Answers, limits \in MCLimits \cup {NoLimits}}
-----------------------------------------------------------------------------
\* Engines that are run twice: every strategy, scripts whose orders stay pending, and
\* runs that raise before the first bar, in execution, in application and at the end.
BrokenBars == <<Bar(1, "A", 1, 1), Bar(2, "A", 0, 1)>>
\* A strategy that signals the time of the next bar.
EarlySignal ==
  [kind |-> "script",
   script |-> [key \in {<<"A", 2>>} |-> <<[timestamp |-> 3, symbol |-> "A", side |-> "BUY"]>>]]
RerunJobs ==
  {[j EXCEPT !.runs = 2] : j \in
  StrategyJobs(3)
  \cup {[Job(OneSymbol, Script(OneSymbol, <<ForA(a), ForA(b), <<>>, ForA(<<"BUY">>)>>)) EXCEPT !.slippage = Fixed(1)]
          : a \in Answers, b \in Answers}
  \cup {Job(OneSymbol, EarlySignal), [Job(OneSymbol, EarlySignal) EXCEPT
            !.warmup = <<Bar(0, "A", 1, 0)>>]}
  \cup {Job(BrokenBars, Script(BrokenBars, <<<<>>, <<>>>>))} \cup SqueezeJobs}
-----------------------------------------------------------------------------
MCJobs ==
  OrderJobs \cup CrossJobs \cup RerunJobs \cup StrategyJobs(4) \cup PoorJobs
    \cup SteadyJobs \cup SwingJobs \cup SqueezeJobs
=============================================================================
