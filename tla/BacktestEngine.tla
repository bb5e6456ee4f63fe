---------------------------- MODULE BacktestEngine ----------------------------
(***************************************************************************)
(* BacktestEngine.run (quant_system/backtest/engine.py) with the execution *)
(* simulator, the portfolio, the risk manager and the strategy it drives.  *)
(*                                                                         *)
(* run is one thread; its loops are taken one iteration a step, so that a  *)
(* state is a point between two calls of a component:                      *)
(*   warmup    bars before the evaluation go to the strategy;              *)
(*   bar       the next market event is taken;                             *)
(*   execute   execute_pending goes through the pending orders;            *)
(*   apply     the fills in the queue are applied to the portfolio;        *)
(*   strategy  the bar is marked and shown to the strategy;                *)
(*   decide    signals become orders, orders are approved or rejected.     *)
(* An exception ends the run, which may be called again.                   *)
(***************************************************************************)
EXTENDS ExecutionSimulator, FiniteSets

CONSTANT
  Jobs   \* the arguments engines are constructed with, and as a bound "runs", the calls of run

Strat == INSTANCE Strategies

Bars == [timestamp : Nat, symbol : Symbols, open : Int, close : Int]

\* validate_ohlcv: bars in the order of time, one for each symbol and time.
Chronological(bars) ==
  \A i, j \in DOMAIN bars : i < j =>
    /\ bars[i].timestamp <= bars[j].timestamp
    /\ bars[i].timestamp = bars[j].timestamp => bars[i].symbol # bars[j].symbol

Signals == [timestamp : Nat, symbol : Symbols, side : {"BUY", "SELL", "EXIT"}]
Orders == [id : Nat \ {0}, timestamp : Nat, symbol : Symbols, side : Sides, quantity : Nat \ {0}]
Fills == [id : Nat \ {0}, timestamp : Nat, symbol : Symbols, side : Sides,
          quantity : Nat \ {0}, price : Fractions, commission : Fractions]

\* What the constructors accept: costs that are not negative, signals, windows; capital,
\* an order size, and bars.
ASSUME BacktestAssumption ==
  /\ IsFiniteSet(Symbols)
  /\ None \notin {NoMark, "BUY", "SELL", "EXIT"} /\ None \notin Quotients
  /\ \A j \in Jobs : \A model \in {j.commission, j.slippage} :
       /\ model.kind \in {"fixed", "percentage"}
       /\ model.amount \in Fractions /\ Zero \preceq model.amount
  /\ \A j \in Jobs : j.strategy.kind = "script" =>
       \A key \in DOMAIN j.strategy.script : j.strategy.script[key] \in Seq(Signals)
  /\ \A j \in Jobs : Strat!WindowSize(j.strategy) \in Nat
  /\ \A j \in Jobs :
       /\ j.capital \in Nat \ {0} /\ j.quantity \in Nat \ {0} /\ j.allowShort \in BOOLEAN /\ j.runs \in Nat
       /\ j.bars \in Seq(Bars) /\ j.bars # <<>> /\ Chronological(j.bars)
       /\ j.warmup \in Seq(Bars) /\ Chronological(j.warmup)
       /\ \A w \in DOMAIN j.warmup : j.warmup[w].timestamp < j.bars[1].timestamp

\* RiskLimits accepts limits that are absent or not negative.
ASSUME LimitsAssumption ==
  \A j \in Jobs : \A k \in DOMAIN NoLimits :
    j.limits[k] = None \/ (j.limits[k] \in Fractions /\ Zero \preceq j.limits[k])

VARIABLES
  job,        \* the engine: its data, strategy, models and limits
  step,       \* where run is, "idle" outside
  cursor,     \* the bar being processed
  queue,      \* _queue, without the market events, which never wait in it
  portfolio,
  strategy,   \* the state of the strategy
  nextOrder,  \* FixedSizeOrderGenerator._next_order_number
  signals, orders, fills, rejected,   \* run's lists
  outcomes    \* what the calls of run have returned or raised

runVars == <<step, cursor, queue, portfolio, strategy, nextOrder, signals, orders, fills,
             rejected, outcomes>>
vars == <<job, runVars, simulatorVars>>

Init ==
  /\ job \in Jobs
  /\ step = "idle" /\ cursor = 1 /\ queue = <<>> /\ outcomes = <<>>
  /\ portfolio = NewPortfolio(job.capital, job.allowShort)
  /\ strategy = Strat!FreshStrategy /\ nextOrder = 1
  /\ signals = <<>> /\ orders = <<>> /\ fills = <<>> /\ rejected = <<>>
  /\ SimulatorInit

Market == job.bars[cursor]

\* MarketEvent refuses prices that are not positive.
Valid(bars) == \A i \in DOMAIN bars : bars[i].open > 0 /\ bars[i].close > 0
-----------------------------------------------------------------------------
\* An exception leaves run: what its local variables hold is gone.
Raise(error) ==
  /\ step' = "idle"
  /\ outcomes' = Append(outcomes, [error |-> error])

\* The generator and the strategy as run resets them.
ResetParts == nextOrder' = 1 /\ strategy' = Strat!FreshStrategy

\* run begins: everything is reset, whatever an earlier call has left.
StartRun ==
  /\ step = "idle" /\ Len(outcomes) < job.runs
  /\ step' = "warmup" /\ cursor' = 1 /\ queue' = <<>>
  /\ portfolio' = NewPortfolio(job.capital, job.allowShort)
  /\ signals' = <<>> /\ orders' = <<>> /\ fills' = <<>> /\ rejected' = <<>>
  /\ ResetParts /\ ResetSimulator
  /\ UNCHANGED <<job, outcomes>>

WarmUp ==
  /\ step = "warmup" /\ cursor <= Len(job.warmup)
  /\ IF Valid(job.warmup)
     THEN /\ strategy' = Strat!Observe(job.strategy, strategy, job.warmup[cursor], FALSE).state
          /\ cursor' = cursor + 1 /\ UNCHANGED <<step, outcomes>>
     ELSE Raise("ValueError") /\ UNCHANGED <<strategy, cursor>>
  /\ UNCHANGED <<job, queue, portfolio, nextOrder, signals, orders, fills, rejected, simulatorVars>>

\* All market events are made before the first is processed.
BeginEvaluation ==
  /\ step = "warmup" /\ cursor > Len(job.warmup)
  /\ IF Valid(job.bars)
     THEN step' = "bar" /\ cursor' = 1 /\ UNCHANGED outcomes
     ELSE Raise("ValueError") /\ UNCHANGED cursor
  /\ UNCHANGED <<job, queue, portfolio, strategy, nextOrder, signals, orders, fills, rejected,
                 simulatorVars>>

NextBar ==
  /\ step = "bar" /\ cursor <= Len(job.bars)
  /\ step' = "execute"
  /\ UNCHANGED <<job, cursor, queue, portfolio, strategy, nextOrder, signals, orders, fills,
                 rejected, outcomes, simulatorVars>>
-----------------------------------------------------------------------------
(***************************************************************************)
(* _process_pending_orders                                                 *)
(***************************************************************************)
\* Mutant of Accepts: the simulator is not given the portfolio's check.
AcceptsAll(fill) == TRUE

\* Every fill of a bar is accepted against the portfolio before all of them.
Accepts(fill) == CanProcessFill(portfolio, fill)

ExecuteOrder ==
  /\ step = "execute" /\ pending # <<>>
  /\ LET fill == FillOf(Head(pending), Market, job.commission, job.slippage) IN
     \/ Hold(Market) /\ UNCHANGED <<step, outcomes>>
     \/ Eligible(Head(pending), Market) /\ Match(fill, Accepts(fill)) /\ UNCHANGED <<step, outcomes>>
     \/ Eligible(Head(pending), Market) /\ PriceFails(fill) /\ Raise("ValueError")
  /\ UNCHANGED <<job, cursor, queue, portfolio, strategy, nextOrder, signals, orders, fills, rejected>>

\* The orders refused since the last bar are reported, all as unaffordable.
Reported == Cardinality({k \in DOMAIN rejected : rejected[k].late})
NewlyRefused == SubSeq(refused, Reported + 1, Len(refused))

Refusal(order) ==
  [order |-> order, timestamp |-> Market.timestamp, reason |-> "INSUFFICIENT_CASH", late |-> TRUE]

EndExecution ==
  /\ step = "execute" /\ pending = <<>>
  /\ queue' = accepted
  /\ rejected' = rejected \o [i \in DOMAIN NewlyRefused |-> Refusal(NewlyRefused[i])]
  /\ FinishExecution
  /\ step' = "apply"
  /\ UNCHANGED <<job, cursor, portfolio, strategy, nextOrder, signals, orders, fills, outcomes>>

ApplyNext ==
  /\ step = "apply" /\ queue # <<>>
  /\ LET fill == Head(queue) IN
     IF CanProcessFill(portfolio, fill)
     THEN /\ portfolio' = ProcessFill(portfolio, fill)
          /\ fills' = Append(fills, fill)
          /\ UNCHANGED <<step, outcomes>>
     ELSE Raise(FillError(portfolio, fill)) /\ UNCHANGED <<portfolio, fills>>
  /\ queue' = Tail(queue)
  /\ UNCHANGED <<job, cursor, strategy, nextOrder, signals, orders, rejected, simulatorVars>>

MarkBar ==
  /\ step = "apply" /\ queue = <<>>
  /\ portfolio' = MarkToMarket(portfolio, Market)
  /\ step' = "strategy"
  /\ UNCHANGED <<job, cursor, queue, strategy, nextOrder, signals, orders, fills, rejected, outcomes,
                 simulatorVars>>
-----------------------------------------------------------------------------
(***************************************************************************)
(* _process_strategy                                                       *)
(***************************************************************************)
\* A signal of another time than the bar's raises; the signals before it stay
\* in the queue, which the next run clears.
CallStrategy ==
  /\ step = "strategy"
  /\ LET answer == Strat!Observe(job.strategy, strategy, Market, TRUE)
         late == {i \in DOMAIN answer.signals : answer.signals[i].timestamp # Market.timestamp}
     IN  /\ strategy' = answer.state
         /\ IF late = {}
            THEN queue' = answer.signals /\ step' = "decide" /\ UNCHANGED outcomes
            ELSE Raise("ValueError") /\ UNCHANGED queue
  /\ UNCHANGED <<job, cursor, portfolio, nextOrder, signals, orders, fills, rejected, simulatorVars>>

IsOrder(event) == "id" \in DOMAIN event

\* Mutant of Generated: leaving a short asks for its signed quantity.
GeneratedSigned(signal) ==
  LET position == portfolio.positions[signal.symbol].quantity
      order(side, quantity) ==
        <<[id |-> nextOrder, timestamp |-> signal.timestamp, symbol |-> signal.symbol,
           side |-> side, quantity |-> quantity]>>
  IN  CASE signal.side # "EXIT" -> order(signal.side, job.quantity)
        [] signal.side = "EXIT" /\ position > 0 -> order("SELL", position)
        [] signal.side = "EXIT" /\ position < 0 -> order("BUY", position)
        [] OTHER -> <<>>

\* Mutant of Generated: an exit is for the order size, not for what is held.
GeneratedSized(signal) ==
  LET position == portfolio.positions[signal.symbol].quantity
      order(side) ==
        <<[id |-> nextOrder, timestamp |-> signal.timestamp, symbol |-> signal.symbol,
           side |-> side, quantity |-> job.quantity]>>
  IN  CASE signal.side # "EXIT" -> order(signal.side)
        [] signal.side = "EXIT" /\ position > 0 -> order("SELL")
        [] signal.side = "EXIT" /\ position < 0 -> order("BUY")
        [] OTHER -> <<>>

\* FixedSizeOrderGenerator.generate, as a sequence of at most one order.
Generated(signal) ==
  LET position == portfolio.positions[signal.symbol].quantity
      order(side, quantity) ==
        <<[id |-> nextOrder, timestamp |-> signal.timestamp, symbol |-> signal.symbol,
           side |-> side, quantity |-> quantity]>>
  IN  CASE signal.side # "EXIT" -> order(signal.side, job.quantity)
        [] signal.side = "EXIT" /\ position > 0 -> order("SELL", position)
        [] signal.side = "EXIT" /\ position < 0 -> order("BUY", -position)
        [] OTHER -> <<>>

TakeSignal ==
  /\ step = "decide" /\ queue # <<>> /\ ~IsOrder(Head(queue))
  /\ signals' = Append(signals, Head(queue))
  /\ queue' = Tail(queue) \o Generated(Head(queue))
  /\ nextOrder' = nextOrder + Len(Generated(Head(queue)))
  /\ UNCHANGED <<job, step, cursor, portfolio, strategy, orders, fills, rejected, outcomes, simulatorVars>>

\* The order is checked at the close of the bar being processed.
DecisionFor(order) == Decision(order, portfolio, Market.close, job.limits)

TakeOrder ==
  /\ step = "decide" /\ queue # <<>> /\ IsOrder(Head(queue))
  /\ LET order == Head(queue)
         decision == DecisionFor(order)
     IN  /\ orders' = Append(orders, order)
         /\ IF decision # Approved
            THEN /\ rejected' = Append(rejected, [order |-> order, timestamp |-> Market.timestamp,
                                                  reason |-> decision, late |-> FALSE])
                 /\ UNCHANGED <<simulatorVars, step, outcomes>>
            ELSE IF order.id \in seen
            THEN Raise("DuplicateOrderError") /\ UNCHANGED <<rejected, simulatorVars>>
            ELSE Submit(order) /\ UNCHANGED <<rejected, step, outcomes>>
  /\ queue' = Tail(queue)
  /\ UNCHANGED <<job, cursor, portfolio, strategy, nextOrder, signals, fills>>

EndBar ==
  /\ step = "decide" /\ queue = <<>>
  /\ step' = "bar" /\ cursor' = cursor + 1
  /\ UNCHANGED <<job, queue, portfolio, strategy, nextOrder, signals, orders, fills, rejected,
                 outcomes, simulatorVars>>
-----------------------------------------------------------------------------
EquityCurve == [i \in DOMAIN portfolio.snapshots |-> portfolio.snapshots[i].equity]

\* A BacktestResult, without the metrics that only restate the equity curve.
Result ==
  [signals |-> signals, orders |-> orders, fills |-> fills, rejected |-> rejected,
   pending |-> pending, snapshots |-> portfolio.snapshots]

\* _performance raises in max_drawdown when the equity was ever negative; the other
\* metrics that cannot be computed are None.
PerformanceFails == \E i \in DOMAIN EquityCurve : EquityCurve[i] \prec Zero

FinishRun ==
  /\ step = "bar" /\ cursor > Len(job.bars)
  /\ IF PerformanceFails
     THEN Raise("ValueError")
     ELSE step' = "idle" /\ outcomes' = Append(outcomes, Result)
  /\ UNCHANGED <<job, cursor, queue, portfolio, strategy, nextOrder, signals, orders, fills, rejected,
                 simulatorVars>>

Execute == ExecuteOrder \/ EndExecution \/ ApplyNext \/ MarkBar
Decide == CallStrategy \/ TakeSignal \/ TakeOrder \/ EndBar
RunStep == WarmUp \/ BeginEvaluation \/ NextBar \/ Execute \/ Decide \/ FinishRun

Next == StartRun \/ RunStep

\* run is a loop over finite sequences: once called it takes its next step.
Spec == Init /\ [][Next]_vars /\ WF_vars(RunStep)
-----------------------------------------------------------------------------
(***************************************************************************)
(* What a run promises                                                     *)
(***************************************************************************)
Seqs == INSTANCE SequencesExt

Steps == {"idle", "warmup", "bar", "execute", "apply", "strategy", "decide"}

EventIds(events) == {events[i].id : i \in {k \in DOMAIN events : IsOrder(events[k])}}

\* The engine's state has the shape its classes declare: events of the three kinds
\* in the queue and the lists, numbered orders, and money that is never rounded.
EngineTypeOK ==
  /\ step \in Steps /\ cursor \in Nat \ {0} /\ nextOrder \in Nat \ {0}
  /\ queue \in Seq(Signals \cup Orders \cup Fills)
  /\ signals \in Seq(Signals) /\ orders \in Seq(Orders) /\ fills \in Seq(Fills)
  /\ pending \in Seq(Orders) /\ still \in Seq(Orders) /\ refused \in Seq(Orders)
  /\ accepted \in Seq(Fills)
  /\ seen \subseteq 1 .. nextOrder /\ portfolio.applied \subseteq seen
  /\ portfolio.cash \in Fractions
  /\ \A i \in DOMAIN rejected : rejected[i].order \in Orders /\ rejected[i].reason \in Reasons

\* The orders that were not approved.
Denied == {rejected[k].order.id : k \in {r \in DOMAIN rejected : ~rejected[r].late}}

\* Where an order is, as seen from the lists and queues of engine and simulator.
OutcomeOf(i) ==
  IF i \in EventIds(fills) THEN "filled"
  ELSE IF i \in EventIds(refused) THEN "refused"
  ELSE IF i \in Denied THEN "rejected"
  ELSE IF i \in EventIds(pending \o still) THEN "waiting"
  ELSE IF i \in EventIds(accepted) \/ (step = "apply" /\ i \in EventIds(queue)) THEN "matched"
  ELSE IF step = "decide" /\ i \in EventIds(queue) THEN "created"
  ELSE IF i < nextOrder THEN "lost" ELSE "none"

CONSTANT MaxOrders   \* bound: the orders of a run that are followed
ASSUME MaxOrdersAssumption == MaxOrders \in Nat

Lifecycle == INSTANCE OrderOutcomes
               WITH Numbers <- 1 .. MaxOrders, outcome <- [i \in 1 .. MaxOrders |-> OutcomeOf(i)]

\* The engine does to its orders what OrderOutcomes promises: numbered in turn, each is
\* decided once and in turn, waits, meets its bar, and is settled, until a new run
\* (architecture.md, "Event Processing Order").
OrdersHaveOneLife == Lifecycle!OutcomesSpec

\* The lists and queues of engine and simulator, by the orders in them.
Places ==
  [filled |-> EventIds(fills), refused |-> EventIds(refused), pending |-> EventIds(pending),
   still |-> EventIds(still), accepted |-> EventIds(accepted), queued |-> EventIds(queue),
   denied |-> Denied]

\* While a run is in progress no order is lost between the queues, and none is in two
\* places: every order created is in exactly one of the lists of the result or on its way.
NoOrderIsLost ==
  step # "idle" \/ (outcomes # <<>> /\ "error" \notin DOMAIN outcomes[Len(outcomes)]) =>
    \A i \in 1 .. nextOrder - 1 : Cardinality({p \in DOMAIN Places : i \in Places[p]}) = 1

OrderOf(id) == orders[CHOOSE i \in DOMAIN orders : orders[i].id = id]

\* The bars of an order's symbol later than the order.
LaterBars(order) ==
  {k \in DOMAIN job.bars : job.bars[k].symbol = order.symbol
                             /\ job.bars[k].timestamp > order.timestamp}

\* The bars whose pending orders have been executed.
Processed ==
  CASE step = "warmup" -> 0
    [] step \in {"apply", "strategy", "decide"} -> cursor
    [] OTHER -> cursor - 1

\* No look-ahead and no delay: an order is filled, if at all, by the first later bar of
\* its symbol, at that bar's open or worse, in full; until that bar it waits (README,
\* "The ordering prevents same-bar look-ahead").
FillsAtNextBar ==
  /\ \A i \in DOMAIN fills :
       LET fill == fills[i]
           order == OrderOf(fill.id)
       IN  \E k \in LaterBars(order) :
             /\ \A l \in LaterBars(order) : k <= l
             /\ fill.timestamp = job.bars[k].timestamp
             /\ fill.symbol = order.symbol /\ fill.side = order.side /\ fill.quantity = order.quantity
             /\ IF fill.side = "BUY" THEN Whole(job.bars[k].open) \preceq fill.price
                                     ELSE fill.price \preceq Whole(job.bars[k].open)
  /\ \A i \in DOMAIN pending : \A k \in LaterBars(pending[i]) : k > Processed
  /\ \A i \in DOMAIN still : \A k \in LaterBars(still[i]) : k > cursor

\* Cash never goes below zero, and nothing is sold short unless the engine allows it,
\* however fills of one bar, commissions and refusals combine.
Solvent ==
  /\ Zero \preceq portfolio.cash
  /\ job.allowShort \/ \A s \in Symbols : portfolio.positions[s].quantity >= 0

\* Money is neither made nor lost by the accounting: equity is the capital plus realized
\* and unrealized profit less commissions, and the last snapshot says so.
EquityAddsUp ==
  LET last == portfolio.snapshots[Len(portfolio.snapshots)] IN
  /\ Equity(portfolio)
       = ((Whole(job.capital) ++ Realized(portfolio)) ++ Unrealized(portfolio)) -- portfolio.commission
  /\ step \in {"strategy", "decide", "bar"} /\ portfolio.snapshots # <<>> =>
       /\ last.equity = Equity(portfolio) /\ last.cash = portfolio.cash
       /\ (last.realized ++ last.unrealized) -- portfolio.commission = last.equity -- Whole(job.capital)

\* The position in s after each of the first i fills.
PositionAfter(s, i) ==
  Seqs!FoldLeft(LAMBDA q, f : IF f.symbol = s THEN q + Signed(f.side, f.quantity) ELSE q,
                0, SubSeq(fills, 1, i))

\* Positions are the sums of their fills, and round trips count the fills that bring a
\* position to zero or through it.
PositionsFollowFills ==
  \A s \in Symbols :
    LET path == [i \in 0 .. Len(fills) |-> PositionAfter(s, i)] IN
    /\ portfolio.positions[s].quantity = path[Len(fills)]
    /\ portfolio.positions[s].trips
         = Cardinality({i \in DOMAIN fills : path[i - 1] # 0 /\ path[i] * path[i - 1] <= 0})

\* Each symbol is marked at the last of its closes that the loop has reached, and no open
\* position is without a mark, so that equity never raises.
OpenPositionsAreMarked ==
  \A s \in Symbols :
    LET known == {k \in DOMAIN job.bars : job.bars[k].symbol = s /\ k <= Len(portfolio.snapshots)}
    IN  /\ step # "apply" /\ step # "idle" => (portfolio.positions[s].quantity # 0 => known # {})
        /\ known # {} => portfolio.marks[s]
             = job.bars[CHOOSE k \in known : \A l \in known : l <= k].close

\* Whatever the order of fills, refusals, marks and snapshots of several symbols, the
\* accounts are what the fills and the closes make them (Portfolio.process_fill,
\* mark_to_market and record_snapshot; Position.apply_fill).
AccountsBalance == Solvent /\ EquityAddsUp /\ PositionsFollowFills /\ OpenPositionsAreMarked

\* A fill that was accepted is refused later only if another fill of the same bar was
\* applied before it: acceptance and application agree on a portfolio they share.
OnlyLaterFillsRaise ==
  [][step = "apply" /\ step' = "idle" =>
       /\ fills # <<>>
       /\ fills[Len(fills)].timestamp = Market.timestamp
       /\ fills[Len(fills)].symbol = Market.symbol]_vars

\* With one symbol, an order that does not enlarge the position is refused by no limit,
\* even when the limit is already broken and whatever equity is left; only where there is
\* no equity for a percentage limit to be a share of is it refused all the same
\* (RiskManager.validate_order, and _exposure_state at equity <= 0).
ReducersPassLimits ==
  [][step = "decide" /\ Len(rejected') > Len(rejected)
       /\ (\A s \in Symbols \ {Market.symbol} : portfolio.positions[s].quantity = 0) =>
       LET order == Head(queue)
           current == portfolio.positions[order.symbol].quantity
           reason == rejected'[Len(rejected')].reason
       IN  Magnitude(current + Signed(order.side, order.quantity)) <= Magnitude(current) =>
             /\ reason \notin LimitReasons
             /\ reason = "NON_POSITIVE_EQUITY" =>
                  /\ Equity(portfolio) \preceq Zero
                  /\ job.limits.positionPct # None \/ job.limits.grossPct # None]_vars

\* No order is decided while an earlier approved one waits.
OrdersDoNotOverlap ==
  \A a, b \in DOMAIN orders :
    a < b /\ (\A r \in DOMAIN rejected : rejected[r].order # orders[a]) =>
      \E k \in LaterBars(orders[a]), l \in DOMAIN job.bars :
        k <= l /\ job.bars[l].symbol = orders[b].symbol /\ job.bars[l].timestamp = orders[b].timestamp

SteadyPrices ==
  /\ \A i, j \in DOMAIN job.bars :
       job.bars[i].symbol = job.bars[j].symbol =>
         job.bars[i].open = job.bars[j].close /\ job.bars[i].close = job.bars[j].close
  /\ job.commission.amount = Zero /\ job.slippage.amount = Zero

Within(value, limit) == limit = None \/ value \preceq limit

LimitsKept ==
  \A i \in DOMAIN portfolio.snapshots :
    LET shot == portfolio.snapshots[i] IN
    /\ Within(shot.gross, job.limits.gross)
    /\ Within(Absolute(shot.net), job.limits.net)
    /\ job.limits.grossPct # None => shot.gross \preceq (job.limits.grossPct ** shot.equity)

\* A script trades the symbol of the bar it answers, as the strategies of the package do:
\* an order is checked at the close of that bar, whatever its symbol is.
TradesOwnBars ==
  job.strategy.kind = "script" =>
    \A key \in DOMAIN job.strategy.script : \A i \in DOMAIN job.strategy.script[key] :
      job.strategy.script[key][i].symbol = key[1]

\* While prices stand still, orders are of the symbols of their bars and none is decided
\* before the last one is filled, the exposure of every snapshot is within the limits:
\* what was checked is what happens.
LimitsHoldForFills == SteadyPrices /\ TradesOwnBars /\ OrdersDoNotOverlap => LimitsKept

\* Whatever the first run leaves behind, pending orders, ids, beliefs, or an exception,
\* the second returns or raises the same (run: "identical output for identical input").
RerunsAreIdentical == \A i, j \in DOMAIN outcomes : outcomes[i] = outcomes[j]

\* A call of run returns or raises.
EveryRunEnds == step # "idle" ~> step = "idle"
-----------------------------------------------------------------------------
(***************************************************************************)
(* What strategies promise                                                 *)
(***************************************************************************)
Intended(belief) == CASE belief = "LONG" -> job.quantity [] belief = "SHORT" -> -job.quantity [] OTHER -> 0

\* The last of the first n signals of s in told asks to enter.
Entered(told, s, n) ==
  \E i \in 1 .. n :
    /\ told[i].symbol = s /\ told[i].side # "EXIT"
    /\ \A k \in i + 1 .. n : told[k].symbol # s

\* An exit of s was signalled after time t.
Exited(s, t) ==
  \E j \in DOMAIN signals :
    signals[j].symbol = s /\ signals[j].side = "EXIT" /\ t < signals[j].timestamp

\* When a strategy sees a bar, what it believes to hold in the bar's symbol is what the
\* portfolio holds: each of its signals has been turned into an order and filled before its
\* next decision.  A strategy is not told of an order that was rejected, and believes what it
\* asked for; but the next exit it signals afterwards, unless that is rejected in turn,
\* closes whatever is held, and belief and position agree again.  Entries and exits
\* of a symbol alternate (MomentumStrategy: "preventing repeated entries").
BeliefIsPosition ==
  job.strategy.kind # "script" =>
    /\ step = "strategy"
         /\ (\A r \in DOMAIN rejected : rejected[r].order.symbol = Market.symbol =>
               Exited(Market.symbol, rejected[r].order.timestamp)) =>
         portfolio.positions[Market.symbol].quantity = Intended(strategy.belief[Market.symbol])
    /\ \A j \in DOMAIN signals :
         signals[j].side = "EXIT" <=> Entered(signals, signals[j].symbol, j - 1)

\* How many bars the strategy has seen, those of the warm-up first.
SeenBars ==
  CASE step = "warmup" -> cursor - 1
    [] step = "decide" -> Len(job.warmup) + cursor
    [] OTHER -> Len(job.warmup) + cursor - 1

\* Which of them were of s.
SeenOf(s) == {i \in 1 .. SeenBars : (job.warmup \o job.bars)[i].symbol = s}

\* A window holds the last closes of its own symbol, as many as fit, across the border
\* between warm-up and evaluation and between runs.
WindowIsRecent ==
  job.strategy.kind # "script" /\ step # "idle" =>
    \A s \in Symbols :
      LET window == strategy.history[s]
          size == Strat!WindowSize(job.strategy)
          later(i) == Cardinality({k \in SeenOf(s) : i < k})
      IN  /\ Len(window) = IF Cardinality(SeenOf(s)) < size THEN Cardinality(SeenOf(s)) ELSE size
          /\ \A i \in SeenOf(s) : later(i) < size =>
               window[Len(window) - later(i)] = (job.warmup \o job.bars)[i].close

\* Through warm-up, evaluation and rejected orders, a strategy knows the closes and the
\* position it decides from.
StrategiesAreInStep == BeliefIsPosition /\ WindowIsRecent
-----------------------------------------------------------------------------
\* "Accepted fills update cash and positions. Unaffordable fills become rejected
\* orders." (docs/architecture.md:111): the fills of a bar do not raise.
UnaffordableFillsAreRejected ==
  \A i \in DOMAIN outcomes :
    "error" \in DOMAIN outcomes[i] => outcomes[i].error # "InsufficientCashError"
=============================================================================
