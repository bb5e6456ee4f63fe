# TLA+ models of quant-execution-lab

The repository has two halves. The native half (`cpp/`) is a limit order book
with a matching engine, and an execution layer that works large parent orders
through it. The Python half (`python/quant_system/`) is an event-driven
backtester with portfolio accounting, risk checks and walk-forward research,
and a dashboard server in front of it. The directory `tla/` holds TLA+ models
of this code, TLC configurations that check them on small instances, and TLAPS
proofs of theorems that hold for all instances.

Both halves are modelled, up to the parts named in section 5. Everything listed
under "runs" is checked by TLC. Proved for all instances are the safety properties
of the order book and the matching engine; those of the execution scheduler, of the
schedules it is given, and of the implementation shortfall it is judged by; where
a backtest's orders are, which bars fill them, that its accounts balance, that a
rerun gives the same and that a strategy knows its closes and its position; which rows walk-forward research tests and what its choices
depend on; and the bound and the freshness of the dashboard's cache (section 4).

## 1. The system's parts

### Native half

**Orders, price levels and the order book** (`order.cpp`, `price_level.cpp`,
`order_book.cpp`).
*State:* the `Order` objects; `active_orders_` (order, pointer to its level,
iterator into the level's list), `completed_orders_`; `bids_` and `asks_`, maps
from a price to a `PriceLevel`, which has a FIFO list of order pointers and a
cached total; `trades_`; the counters of sequence numbers and trade ids.
*Operations:* add a limit or market order, cancel, replace, match.
*Hard:* the same facts are kept in several places (map, pointer, list, total)
and every operation updates them piecemeal; an exception in the middle leaves
them as they are at that point. *Correct means:* the copies agree, the book is
uncrossed, price-time priority is respected through modifications, fills and
trades say the same.

**Matching engine** (`matching_engine.cpp`). *State:* the book and
`rejected_orders_`. *Operations:* `submit`, `cancel`, `modify`, each a list of
checks and then a book operation. *Correct means:* an id is used once over all
three maps, history is final, and each call returns.

**Execution layer** (`cpp/src/execution/`). `ParentOrder` is a small state
machine. `TWAP` and `VWAP` compute static schedules of child orders, `POV`
computes one child from an observation of market volume. `ExecutionScheduler`
keeps the parents, one merged schedule of all their children, the ids used, a
map from trades to children and a clock; it submits children to a matching
engine that it holds by reference and that has other clients.
*Operations:* `add_parent`, `advance_to`, `on_market_volume`, `cancel_parent`.
*Hard:* parents end (fill, cancel, expiry) while their slices are still in the
schedule; participation and slices work the same parent; a child is refused or
throws in the middle of a loop; a child that rests is filled in somebody else's
call. *Correct means:* what a parent reports as executed is what the market
executed for it, never more than its total, nothing after it has ended, and the
residual is caught up when it can be.

**Execution summary, execution analytics, implementation shortfall**
(`execution_summary.cpp`, `cpp/src/analytics/`): functions of a parent, its fills,
the trades of the market and the prices its owner compares with. *Hard:* four
records of one execution (the parent's count, the scheduler's fills, the engine's
orders, the tape) meet in one report. *Correct means:* the costs reported are what
the owner is worse off than on paper. **Option pricing, Greeks, implied volatility**: closed-form
arithmetic and one iterative solver. **Benchmarks, examples**: clients.

### Python half

**Backtest engine** (`backtest/`). *State:* a FIFO queue of events, the order
generator's counter, lists of signals, orders, fills and refusals. *One bar:*
execute the pending orders of the bar's symbol at its open, apply the fills,
mark to market, ask the strategy for signals, turn signals into orders, check
them, submit them. *Hard:* fills are accepted one by one against a portfolio
that has not seen the others of the same bar; orders are checked against a
portfolio that has not seen the orders still pending. *Correct means:* no fill
on the bar of its signal, no fill applied twice, every order ends up in exactly
one of filled, refused, pending.

**Execution simulator, costs, slippage** (`execution/`). *State:* pending
orders, ids seen, refused orders. *Correct means:* an order leaves the queue
once, for a fill or a refusal.

**Portfolio, positions, account** (`portfolio/`). *State:* cash, signed
positions with average price and realized P&L, marks, ids of applied fills,
snapshots. *Correct means:* cash and positions follow from the fills, cash is
never negative, shorts only when allowed, equity is conserved by trades at the
mark.

**Risk manager** (`risk/manager.py`, `limits.py`): stateless checks of an order
against the portfolio it would produce; a reduction of risk is never refused by
a limit.

**Strategies** (`strategy/`). *State per symbol:* a window of closes, a position
state, the previous indicator. *Hard:* the position state is the strategy's own
belief, it is not told of refusals.

**Dashboard** (`dashboard.py`). *State:* `_YAHOO_CACHE`, shared by the server's
threads and the pool of the market overview, under one lock that is not held
during a download. *Operations:* load data, with or without a refresh; the market
overview, which hands one task per symbol to a pool; the dataset summary and the
portfolio and risk snapshots, which load the same source each for itself. *Hard:*
look-up and store are separate critical sections; a task may fail or raise what
the collecting loop does not catch; three reports compute the same figures in
different ways. *Correct means:* at most 96 entries, no entry served after its
time, a refresh is not answered with data from before it, no instrument is
missing from an overview, the reports on one instrument agree.

**Walk-forward research** (`research/`). *State:* the folds, the scores of a
fold's candidates, the results so far. *Operations:* cut folds, score candidates
on training rows, keep the best, run it on the test rows that follow, combine the
curves. *Correct means:* no test row is used before, or twice, and the choice of
parameters does not depend on it.

**Risk analytics, metrics** (`risk/analytics.py`, `quant/`): returns, VaR,
expected shortfall, drawdown periods, as functions of a series. *Correct means:*
the scan finds the periods there are, and the numbers fit each other.

**Market data** (`data/`): a frame of an outside source becomes canonical,
validated rows, or one of several errors. *Correct means:* what loads is valid,
in order, and does not depend on how the columns were named or the rows arranged.

### How they interact

Everything is synchronous calls in one thread, except the dashboard, whose
request handlers and overview pool run in threads and share the cache. The
scheduler calls `MatchingEngine::submit` and reads the returned report; the
engine never calls back. The backtest engine passes the portfolio's
`can_process_fill` to the simulator as a callback, and reads the portfolio in
the risk check. The dashboard runs backtests and starts the native example as a
process.

## 2. Modules

| module | models | uses |
|---|---|---|
| `Order` | one order and its operations (`order.cpp`) | |
| `OrderBook` | the book's maps and one action per piece of an operation (`order_book.cpp`, `price_level.cpp`) | `Order` |
| `MatchingEngine` | `submit`, `cancel`, `modify`; the properties of the engine; its inductive invariant | `OrderBook`, `PriceTimePriority` |
| `PriceTimePriority` | abstract specification: what the engine promises its clients | |
| `MatchingEngineProofs` | the book in every state; what no step may do to ended and to stranded orders; fills and trades; `validate_invariants`; the engine implements `PriceTimePriority`; with proofs | `MatchingEngine`, `NumberFacts` |
| `ParentOrder` | a parent order and what the scheduler keeps with it | |
| `Schedules` | `TWAP`, `VWAP`, `VolumeProfile` as pure definitions | `ParentOrder` |
| `ScheduleProofs` | the schedules of any parent, number of slices and profile, with proofs | `MCSchedules`, `NumberFacts` |
| `ExecutionScheduler` | the scheduler, step by step, over the engine, with the engine's other clients | `MatchingEngine`, `ParentOrder`, `WorkingOrder` |
| `ExecutionAnalytics` | the summary of a parent, implementation shortfall, slippage, as definitions (`execution_summary.cpp`, `analytics/`) | `Fractions`, `ParentOrder` |
| `ExecutionReports` | the same of the scheduler's parents while they are worked | `ExecutionScheduler`, `ExecutionAnalytics` |
| `WorkingOrder` | abstract specification: what the execution layer promises the owner of a parent | |
| `SchedulerProofs` | the scheduler for any parents, schedules and clients, and its reports, with proofs | `ExecutionReports`, `MatchingEngineProofs` |
| `Fractions` | exact rational numbers, in place of floats | |
| `NumberFacts` | lemmas about no model, with proofs: sums over finite sets, folds over lists, exact arithmetic, ranks in an order, recursion on an interval | `Fractions` |
| `Portfolio` | cash, positions, marks, fills, as records and the operators that are their methods (`portfolio/`) | `Fractions` |
| `RiskManager` | the pre-trade checks (`risk/manager.py`, `limits.py`) | `Portfolio` |
| `ExecutionSimulator` | pending orders, costs, slippage (`execution/`) | `RiskManager` |
| `Strategies` | momentum, mean reversion, crossover, scripts (`strategy/`) | `Fractions` |
| `BacktestEngine` | `run` and the components it drives, one loop iteration a step (`backtest/`) | `ExecutionSimulator`, `Strategies`, `OrderOutcomes` |
| `OrderOutcomes` | abstract specification: what a backtest promises of its orders | |
| `BacktestProofs` | the backtest's orders for any jobs, symbols and bars, with proofs | `BacktestEngine`, `NumberFacts` |
| `RunProofs` | its accounts, reruns, limits and strategies, with proofs | `BacktestProofs` |
| `MarketCache` | the dashboard's cache and the threads in it (`dashboard.py`) | `FreshAnswers` |
| `MarketOverview` | the overview, its pool and the other requests, around the cache (`dashboard.py`) | `MarketCache` |
| `FreshAnswers` | abstract specification: how old an answer may be | |
| `MarketOverviewProofs` | the cache for any number of keys, threads and tasks, the overview for any number of instruments and workers, with proofs | `MarketOverview` |
| `RiskAnalytics` | returns, drawdowns, VaR, expected shortfall (`risk/analytics.py`, `quant/`) | `Fractions` |
| `WalkForward` | folds, selection, tests, the combined curve, several evaluations at once (`research/`) | `RiskAnalytics` |
| `WalkForwardProofs` | the research on any data, settings, grids, backtest and objective, with proofs | `WalkForward`, `NumberFacts` |
| `MarketData` | ingestion and validation (`data/`) | |
| `Snapshots` | the dashboard's three reports on one instrument (`dashboard.py`) | `MarketData`, `Portfolio`, `RiskAnalytics` |
| `MCMatchingEngine`, `MCExecutionScheduler`, `MCSchedules`, `MCBacktestEngine`, `MCMarketOverview`, `MCWalkForward`, `MCSnapshots` | instances for TLC | |

Definitions keep the names of the source where that is possible. Operators
whose comment begins with "Mutant of" are plausible bugs; no specification uses
them. They are there to show that the properties notice such bugs.

### Order book and engine

`order` is the function from ids to `Order` objects, whichever of the two maps
has them; `active` and `completed` are the keys of the maps; `level` is the
pointer to the level (a price, or `None` for a null pointer); `levels`, `queue`
and `total` are the two price maps and the contents of the levels; a trade's id
is its position in `trades`. The completed orders keep their last record.

A call of the engine is one action, except that the loop of
`match_buy`/`match_sell` is modelled one fill at a time: `taker` names the order
in the loop, and until the loop is over no other call can begin (`Idle`). So the
invariants are checked, and proved, in the middle of calls as well. The loop
ends with one of `CompleteTaker`, `CancelRemainder`, `Rest`, or
`RestOverflows`, the exception that `PriceLevel::add_order` throws when the sum
of a level does not fit a `Quantity`. `error` is what the last call threw. An
order that an exception left active without a level is "stranded". A decrease of
a stranded order dereferences its null level (`ShrinkNullLevel`): the process is
gone, and nothing is enabled after it.

`replace_order` has one action per branch: `ShrinkInPlace`, `GrowRequeue` (both
outcomes), `ShrinkToExecuted`, `Reprice`, `MissingLevel`.

Abstracted: timestamps, the reason a refusal reports, the reports (copies of an
order), `reserve`, the read-only views, trade ids apart from their order. The
notional, a `long double` in the code, is an integer. Iterators into the list are
represented by the id they point at.

### Execution layer

The thread is inside `advance_to` while `advancing` is a time, and inside
`submit_child` while `submitting` is a child. A submission is the engine's own
`Submit` and its matching loop; `Record` is the rest of `submit_child`; `Abort`
is what happens when the engine threw. `SendChild` has the case that the engine
refuses the child, in which `advance_to` throws: the entry is consumed and the
clock does not move. `Clients` are calls of others to the engine, possible
between two calls of the scheduler.

`schedule` is the sequence `schedule_`, without the entries marked submitted, which
the loop passes over: each entry is a child and its position among its parent's
slices. `add_parent` appends the new entries and sorts all of them (`Merged`, with
the comparison `Precedes`; entries that compare equal end up in any order, as
`std::sort` allows). `advance_to` walks the sequence from its front and stops at the
entries that are due (`Due`, `NextDue`), so it is only the sort, kept up through every
removal, that makes it submit them in the order of their times. `on_market_volume` is
one action per outcome;
the clock moves in all of them, the throwing ones included.

`ExecutionReports` reads the state and changes nothing: it builds the summary from
`state.fills`, as `ExecutionScheduler::summary` does, and takes all trades of the
engine for the market's tape.

Calls that throw before they change anything (a clock moving backward, an
invalid schedule, an unknown parent) are stuttering steps.

`Schedules` gives both algorithms as functions from a parent and a configuration
to a sequence of slices. Weights are integers and a target is an exact fraction
of the total weight; the doubles and long doubles of the code round, which the
model does not show (see the hazards). The instances of the scheduler take p1's
slices from `TWAP`. With `ChildType = "Limit"` the same slices are given to limit
children, as a client of `add_parent` may do; the repository's own algorithms
make market children only.

### Backtest

A run is one thread; `BacktestEngine` takes its loops one iteration a step, so
that a state is a point between two calls of a component. `step` says where the
run is: `warmup`, `bar`, `execute` (the simulator goes through the pending
orders: `pending` is what its loop has not popped yet, `still` what it keeps,
`accepted` what it will return), `apply` (fills in the queue reach the
portfolio), `strategy`, `decide` (signals become orders, orders are approved or
rejected). An exception ends the run where it is (`Raise`), leaves the parts as
they are, and the engine may be run again: `StartRun` has the resets of `run`,
and `outcomes` the results of the calls so far. `job` is what an engine is
constructed with: bars, warm-up, a strategy, costs, limits.

A strategy of kind `script` answers bars with given signals; it stands for the
scheduled strategy and for any other implementation of the `Strategy` boundary,
signals with another symbol or time included, which `run` refuses.

Money is exact: prices of bars are integers, everything computed from them is a
fraction in lowest terms. So a property may ask for equality, and what is left
out is the rounding of floats.

### Dashboard, cache and overview

`call[t]` is where thread `t` is in its call and what it has read. The look-up,
the store and the removal by a refresh are one step each, as they hold the lock;
reading the clock, the download and what follows are steps of their own. A frame
is known by its key and the time at which the provider took its snapshot; the
properties are about that time. Of several entries that expire together any may
be evicted (`min` takes the one inserted first, and the order of insertion is
not kept). A task of the overview is taken by a worker (`TakeTask`), goes through
the same cache, and ends with a value, with the `ValueError` that the collecting
loop records, or with an `IndexError` for a frame without rows, which it does not
catch: leaving the pool's block then waits for the other tasks (`Raise`).

### Research, analytics, data, snapshots

`WalkForward` has several evaluations side by side, each with its own `stage`,
folds, scores and results; a step is one fold cut, one candidate scored, one test
run, or the combination. The backtest and the objective are constants: operators
from rows, warm-up rows and parameters to an equity curve or an exception, which
is what `BacktestEngine` makes of them (`RerunsAreIdentical` is why this is
sound). The properties assume only that an equity curve has one fraction for each
bar and an objective yields a number or none (`BacktestAssumption`); the instance uses
a rule with a lookback, so that warm-up rows matter.

`MarketData` takes a column by the key its name folds to and a cell by what its
text parses to, and follows `load_frame` check by check. `Snapshots` publishes
rows one after the other and has one action per report; each loads the source
for itself and computes its figures by its own formulas, the portfolio snapshot
through `Portfolio`, the risk snapshot through `RiskAnalytics`.

## 3. What the runs check

All bounds are constants in the `.cfg` files or the sets of an MC module.
`SequenceBound` bounds the number of sequence numbers the book hands out, so the
number of accepted submits and of modifications that requeue or reprice; it is
the only guard added to the code's and it stands in `AddOrder`, `GrowRequeue` and
`Reprice`. `MaxTime` stops the clock of the cache.

| run | shows | bounds |
|---|---|---|
| `core` | between calls `validate_invariants` holds; fills, notionals and trades agree; an id is in one map; history is final; the engine implements `PriceTimePriority` | 3 ids of either side and type, 2 prices, quantities 1 and 2, modified to 1, 2 or 3 at any price, malformed requests of every kind, 5 sequence numbers; no overflow possible |
| `overflow` | in every state of every call the orders that have a level are consistent and the book is uncrossed; orders are stranded by the overflow only and never reached again; every call leaves the matching loop; the inductive invariant of the proofs holds | a `Quantity` of at most 3, orders of 2, sizes 1 and 3, 4 sequence numbers, so that two orders overflow a level by resting and by growing |
| `market` | the scheduler with market children: a parent's summary and implementation shortfall are what the engine's record of its children's orders says they cost (`ShortfallIsPaperDifference`), the last slice catches up, order of submission, finality of an end, and the refinement of `WorkingOrder` for each parent | 2 parents (3 units by TWAP in two slices; 2 units by one slice or by participation at 1/2 of volumes 1 and 3), times 0..2, prices 1 and 2, other clients with sells of 1 or 4, one of which takes a child's id; reports against a low arrival price with all optional prices given and a high one with none |
| `limit` | the records and the life cycle stay consistent with children that rest and submissions that throw after matching; every call of the scheduler returns | the same with limit children |
| `undercount` | violation: fills of a resting child are not counted | as `limit` |
| `cases` | `TWAP` and `VWAP` add up to the parent, lie in its horizon in time order, and have the shape they promise | totals to 7, slices to 4, horizons to 6, 3 buckets with weights 0..3 |
| `backtest` | no order is lost or in two places, and the engine implements `OrderOutcomes`; fills at the next bar of the symbol and at no better than its open; accounts balance; a strategy knows the closes and the position it decides from, and after a rejected order knows its position again from the next exit on; limits that were checked hold for the fills; reducing orders pass them; what was accepted is refused only after another fill of its bar; a second run gives what the first gave; every run ends | some 4,900 engines (below), at most 8 orders a run |
| `unaffordable` | violation: a bar's fills that are affordable one by one raise | the engines with swinging prices and limits |
| `cache` | the cache is bounded and implements `FreshAnswers`; an overview accounts for every instrument; every request and overview ends | a handler that loads and refreshes any of 3 keys, a pool thread, an overview of 2 keys, 2 entries, a time to live of 1, times 0..1 |
| `refresh` | violation: a refresh is answered with data from before it | the same with a time to live of 2 and times 0..2 |
| `research` | tests follow their training in place and time and are counted once, the combined curve goes on from fold to fold; scores and choices do not depend on later rows or on other evaluations | 2 evaluations side by side over 7 rows that agree up to row 3..6, with rolling and expanding windows and steps shorter, equal to and longer than a test; repeated and backward times, sizes that leave no fold or overlap, empty choices |
| `snapshots` | what loads is valid and independent of layout and order; drawdowns, VaR and shortfall fit their definitions; the three reports agree | sources in every layout and with every kind of wrong cell; rows in any order of time; a long source of closes that rise and fall |

Why the bounds are enough. *Book.* A level with three orders has a front, a
middle and a back, which is what removal and requeueing tell apart; two prices
make a best and a second level on each side, and a taker that walks from one to
the other. Quantities 1 and 2 give full fills, partial fills of either party and
remainders; sizes to 3 give decreases, decreases to the executed quantity, and
increases. For the overflow the width of a `Quantity` is what matters relative to
the sums, so it is made narrow. *Scheduler.* p1 has a slice that is not its last
and one that is; at time 1 it competes with p2, whose child has the higher id and
the lower sequence; liquidity may be missing, short, or enough; p2 may be filled
by participation, cancelled or expired with its slice pending; a child's id may
be taken by another client or burnt by a refusal, so that `advance_to` throws
between two children. *Schedules.* The totals pass the number of slices and of
buckets, so that every remainder occurs. *Backtest.* A run is determined by what
its engine is given, so the sets of jobs are what is explored: every script of up
to two signals a bar over four bars, with fixed and percentage costs and a
slippage that may exceed the price, with and without short sales; two symbols
whose bars of one time come in either order; the indicator strategies over every
path of four closes, warmed up or not; strategies so short of cash that entries
are rejected, exits of shorts too, and positions go apart from beliefs until a later
exit is filled; limits on prices that stand still, swing,
and squeeze a short; and engines run twice, the first time ending with orders
pending or with an exception at each place that can raise. Two signals a bar give
two fills of one bar, which is where acceptance and application come apart; one job
has three, so that the one that raises takes another with it.
*Cache.* Three keys and two entries make an eviction; a time to live of 1 lets an
entry expire between any two steps; the pool's thread and the handler meet in
every order, on the same key and on others; the proofs take it from there.
*Research.* Seven rows give up to four folds, with and without rows left over; the
row from which the twins differ falls in the training, at the border and in the
test of a fold.

`CHECK_DEADLOCK FALSE` stands where the system stops: `overflow` (the process may
die of the null level), `cases`, `backtest`, `unaffordable`, `research` and
`snapshots` (jobs, evaluations and sources come to an end).

*Fairness.* The matching engine's `Spec` has weak fairness of `Match`, the steps
of the matching loop, `SchedulerSpec` of `Running`, the steps of a call in
progress, and the backtest's `Spec` of `RunStep`: this code is single-threaded and
synchronous, without waiting, so a call that has begun continues. The overview's
`Spec` has weak fairness of each thread that is in a call, of each worker that may
take a task, and of the collecting loop: threads are scheduled, and a download
ends because it has a timeout (`timeout=12`). The lock needs no fairness of its
own, for a critical section is one step and a thread in a call is never disabled.
No fairness is assumed of clients, nor that time passes; `WalkForward` and
`Snapshots` have no fairness and no liveness property.

*Symmetry.* `core` permutes the ids of orders, which the engine only compares for
equality. No other run uses symmetry.

*Mutants.* Each property of a passing run has a mutated definition in
`PROJECT.json` under which TLC finds the property violated in the same run.

### Findings

1. `undercount`: `submit_child` counts what the submission executed, so a limit
   child that is filled later is not counted (docs/portfolio.md:40). Market
   children never rest; run `market` checks that for them the statement holds, as
   part of `ShortfallIsPaperDifference`.
2. `unaffordable`: the fills of a bar are accepted against the portfolio before
   any of them is applied; of two that are affordable only singly, the second
   raises `InsufficientCashError` and the run gives no result
   (docs/architecture.md:111 says unaffordable fills become rejected orders).
3. `refresh`: a refresh removes the entry and then looks up the cache in another
   critical section; a download that began earlier may put older data back in
   between (README.md:209-210 says a refresh takes a fresh snapshot).

Observations made on the way, which no run states as a violation:

- An order that overflows its level stays active in no level; `validate_invariants`
  fails from then on (docs/architecture.md:324-325), and an increase that
  overflows throws after the order was unlinked and replaced (:307-310). The models
  contain both; `OnlyOverflowStrands` says that nothing else strands an order.
- `add_parent` checks the ids of a schedule against earlier schedules, not
  against each other.
- Prices of zero or below pass ingestion, but `MarketEvent` rejects them, so that
  a frame that validates may not run (docs/architecture.md:75-79).
- The risk snapshot makes no check of funds: where the portfolio snapshot refuses
  a purchase, it reports negative cash, and with it possibly negative equity.
- `MarketDataError`, `IndexError` and `ZeroDivisionError` are not among the
  exceptions that `_operation_error` turns into a response.
- Rows of equal time at the border of a fold make the engine refuse the fold's
  warm-up, so that the evaluation fails.
- Several orders of one bar pass a limit that they break together, and a
  strategy's belief goes apart from its position after a rejected order, until its
  next exit.
  `LimitsHoldForFills` and `BeliefIsPosition` say when that cannot happen.
- The risk manager is given the close of the bar at hand (`engine.py:285`): an order
  for another symbol is checked at the wrong price and may pass limits its fill
  breaks. The strategies of the package have no such order, a strategy of a user may; it is
  why `LimitsHoldForFills` asks for `TradesOwnBars`.

## 4. What is proved

### The book

`MatchingEngineProofs` has theorems about `Spec` for all sets of ids, prices
and requests, all widths of a `Quantity` and all values of `SequenceBound`:

- `BookIsConsistent`: `[]BookInvariant`;
- `TypesAreRight`, `IdsAreUsedOnce`: `TypeOK` and `OneMapPerId`, which runs check too;
- `LevelsAreOldestFirst`, `TotalsAreSums`: the parts `OldestFirst` and
  `TotalsAddUp` of `BookInvariant`.

*Assumptions:* those the modules declare: prices are positive integers,
`MaxQuantity` is a positive integer, `None` is neither an id nor an integer,
requests have the types the interface gives them, the id 0 is no id, and `None` is
no entry of the auction (`NoneIsNoEntry`).

*Argument.* None of the properties is inductive alone. That the book stays
uncrossed when an order rests needs that a level exists only while its list is
not empty (`LevelsAreNonEmpty`), for the loop stops at the best *level*, and that
the order in hand is in no list (`TakerInHand`). That lists stay oldest-first
when an order joins needs that it is the youngest of all active orders
(`TakerInHand`, `ActiveAreOpen`). That an erased list node is the right one needs
links in both directions (`QueuedAreLinked`, `LinkedAreQueued`). That a level is
erased exactly when its list is empty needs the totals in one branch: when an
increase throws, the code does not erase the level, and what makes this correct
is that a level of a single order cannot overflow, because its total is that
order's remainder (`TotalsAddUp`). `BookInvariant` is the conjunction.

`TotalsAddUp` says of each level that there is a sequence of partial sums
(`SumsTo`) from 0 to the cached total, each within a `Quantity`. It is an explicit
witness in place of a fold; `MatchingEngineProofs` shows how it changes when an order
is removed from the middle, joins the back, or is partly filled, and
that it is the fold that `RestingBookValid` writes.

There is one lemma per action (`SubmitStep`, `MatchFrontStep`, ...), each with
one step per conjunct of the invariant that the action can disturb, and the
shared facts are lemmas before them: what leaving a list does to everybody else
(`UnlinkingKeepsTheRest`), what joining does (`LinkingKeepsTheRest`), what
happens to sums (`SetLevelAddsUp`, `LeftBehind`).

### The history

The same module derives two action properties, under the same assumptions:

- `HistoryStaysFinal`: `HistoryIsFinal`;
- `OnlyOverflowsStrand`: `OnlyOverflowStrands`.

*Argument.* Which orders can a step change? The order in hand, the front of a list,
and an order that has a level. `BookInvariant` says that all of these are active
(so none has ended), and that the front of a list has a level (so none is stranded).
An order that ends (`EndingIsSound`), one that stays (`StayingIsSound`), and the two
of a fill (`FillIsSound`) are the only three shapes of a step.

### Fills, trades and validate_invariants

And, with `NumberFacts`, what is said with sums:

- `FillsMatchTheTape`: `FillsAreTrades`;
- `RestingBookStaysValid`: `[]RestingBookValid`;
- `ValidateInvariantsPass`: `Spec /\ [](error # "overflow") => []ValidateInvariants`.

The hypothesis of the last one is there because it is true of the code that
`validate_invariants` fails after an overflow: the order that add_order's exception
left behind is stranded. `RestingBookStaysValid` needs no hypothesis and says that
nothing but those orders is wrong then.

*Argument.* `FillsAreTrades` becomes inductive with `TradesAreKnown`: the parties of a
trade are two different orders that the book knows, so that an id which is used for the
first time has no trades. A fill adds the same quantity and notional to both parties
and to the sums over their trades (`FillKeepsTape`); a replacement and a
cancellation keep what is filled and the notional (`ChangedOrderKeepsTape`).
For `RestingBookValid`, the witness of `TotalsAddUp` is the fold over the list, and
an order is in its list once, since the list is in the order of sequence numbers.

*Sums.* The provers cannot use induction theorems that take an operator as a parameter.
`NumberFacts` does without: a sum over a finite set is a function on its subsets
(`Adds`), and a smallest set for which a claim failed would exist
(`SmallestSubset`, from the well-foundedness of strict inclusion on finite sets). That
gives that the sum does not depend on the order of the elements, is a number,
changes by what one element changes, and adds over disjoint sets.

### Price-time priority

The refinement is part of the same module:

- `PriceTimePriorityHolds`: `Spec /\ [][~RestOverflows]_vars => ImplementsPriceTimePriority`.

The hypothesis excludes one action, the one in which `add_order` throws out of
`rest`: the incoming order then vanishes from the book with a remainder although
nobody was willing, a step the auction does not have. The run `core`, where no
total can overflow, checks the refinement without it. An *increase* that overflows
needs no hypothesis: to a client it is a withdrawal.

*Argument.* Each action maps to one step of the auction or is hidden. A fill is an
`Execute` because the front of the best level is ahead of every other resting order
of its side (`BestIsFirst`): an order at another level has a worse price, since its
level is in the map of its own side (`LinkedAreQueued`, `LevelsAreNonEmpty`), and one
further down the same list is younger (`OldestFirst`). The end of the loop is a
`Settle` because the best level not being reached means no order is willing
(`NobodyWilling`). An increase and another price get a rank behind all others
because every sequence number is below the next one (`NextIsLatest`); the in-place
decrease keeps the rank (`ShrinkingKeepsRank`).

### The scheduler

`SchedulerProofs` has theorems about `SchedulerSpec`, for any parents, offers,
schedules, observations, horizon, either value of `CatchUp`, and any requests and
modifications of the engine's other clients:

- `SchedulerIsConsistent`: `[]SchedulerInvariant`;
- `LifecyclesAreKept`, `SummariesAddUp`: `LifecycleOK`, `SummaryAddsUp`;
- `EndedParentsStay`, `SlicesKeepTheirOrder`, `LastSlicesCatchUp`: `EndIsFinal`,
  `NoChildIsOvertaken`, `LastSliceCatchesUp`;
- `ParentsGetWhatIsPromised`, `MarketFillsAreExecuted`: if all scheduled children are
  market orders (`MarketOffers`), `WorksTheParents` and `ExecutedIsFilled`.

*Assumptions:* the engine's, and `SchedulerAssumption`: the arguments have the types
the interface gives them, a parent ends after it starts, a participation rate is at
most one, ids are numbers. `MarketOffers` is what the repository's own
schedule builders make (they refuse limit children: `twap.cpp:13`, `vwap.cpp:21`,
`pov.cpp:14`), though `add_parent` takes any schedule; the run `undercount` shows that
`ExecutedIsFilled` is not true without it: a limit child that rests is filled behind
its parent's back.

*Argument.* The scheduler submits ids and quantities that are not among `Requests`, so
the engine's invariants are proved for `AnyStep`, a step with any well-typed request,
and every step of `SchedulerNext` is one (`SchedulerTakesAnyStep`). Next to
`BookInvariant` and `TapeInvariant`, `WorkInvariant` relates four records of one
execution. `ParentsAddUp`: a parent's executed quantity is the sum of the trades
recorded for it, and its status follows from that quantity (`Standing`).
`SlicesAreKnown`: the counter of pending slices is the number of entries, and the
schedule is sorted (`SlicesAreOrdered`). That `add_parent` keeps it so is the sort's
doing (`SlicesMerge`), that the loop does is a fact about taking one entry out of the
middle of a sorted sequence (`SliceLeaves`); then the first due entry is a least one of
all those that are due (`FrontIsSubmitted`), though the loop never compares two.
`ChildInHand`:
the child in `submit_child` is an order of the book that no parent has recorded, its trades
neither, and it asks for no more than its parent has left; so recording it
counts every trade once and cannot pass the total (`RecordStep`), and a
parent that has ended has no child in hand (`EndedStays`). `CallsNest`:
between two children of one `advance_to` no order is in the loop.

`CatchUpInvariant` adds that a last slice asks for all that is left, and that a loop
which ended with a remainder had no level left in reach (`LoopIsOver`).
`MarketInvariant` adds that a market child is out of the book when the loop is over, so that
nobody fills it later: what the children were filled stays what the parent has
executed. Then the child going in hand is a `Place`, a turn of the loop a `Fill`,
the cancelled remainder a `Return`, an ending an `End`, and everything else is hidden.

### The implementation shortfall

The same module proves of the reports, for any benchmark prices, tick and fees:

- `ShortfallsArePaperDifferences`: if `MarketOffers`, `[]ShortfallIsPaperDifference`.

*Assumptions:* the scheduler's, and `GivenAssumption`: the benchmarks are such that
the analytics accept them (`implementation_shortfall.cpp` throws on the others), and
`None` is no number.

*Argument.* The report and the engine keep different records of one execution: the
report adds up the fills that `submit_child` recorded, the property what the engine
has written into the children's orders. `FillsArePaid` says that the two notionals
are equal for each parent in every state: recording adds the trades of one child,
whose order has what these trades add up to (`FillsAreTrades`), and nothing else
changes either side, for a market child is out of the book by then. It is inductive
with `MarketInvariant`. What the report makes of it is arithmetic: the average price
times the volume is the notional again, the sum of executed and missed quantity is the
total, and the costs of the parts add up to the cost of the whole. Tick and fees
are multiples of one small fraction, and counted in it the sums are sums
of integers (`MoneyAddsUp`).

### The schedules

`ScheduleProofs` has theorems about the definitions of `Schedules`, for any parent
with work left (`HasWork`), any number of slices and any valid profile of buckets in
time order:

- `TwapIsSchedule`, `VwapIsSchedule`: the slices are all of the quantity, none is empty,
  they are in time order and inside the horizon (`IsSchedule`);
- `TwapIsEven`, `VwapFollowsProfile`: their shape;
- `SlicesAlwaysAddUp`, `SlicesAlwaysFollowShape`: from these, the properties of the run
  `cases` for any values of its bounds (`CasesAreCases` is its invariant).

*Argument.* TWAP hands the remainder of a division to the first slices, one unit
each. VWAP's largest-remainder rounding needs that the units left over by the floors
are no more than there are buckets with a fraction (`FewUnitsAreLeft`: the fractions,
each less than one, add up to that number), so that the ranks of the
fractions decide who gets one: they are one-to-one, the order of fractions being
total with the position to break ties, and as many ranks are below a bound as the bound
says (`RanksBelow`). A bucket without a fraction thus gets exactly its target, and a
heavier bucket never less (`RoundedInTurn`). The loop that leaves out
empty slices keeps `Taken`: what it has appended is what the buckets so far were
allotted, in their order. All this is about exact weights; the doubles of the code
are in the hazards.

### The backtest

`BacktestProofs` has theorems about the `Spec` of `BacktestEngine`, for any symbols,
bars, costs, limits, strategies and scripts, and any number of runs of one engine:

- `EngineIsTyped`: `EngineTypeOK`;
- `NoOrderGoesMissing`: `NoOrderIsLost`;
- `FillsAreAtTheNextBar`: `FillsAtNextBar`;
- `AccountsStaySolvent`: `[]Solvent`, the first part of `AccountsBalance`;
- `RefusalsFollowFills`: `OnlyLaterFillsRaise`;
- `EngineImplementsOutcomes`: `OrdersHaveOneLife`, the refinement of `OrderOutcomes`.

*Assumptions:* `BacktestAssumption`, which says what the constructors let through:
finitely many symbols, positive capital and sizes, bars in chronological order, costs that are not negative
(`costs.py:40`, `:58`, `slippage.py:41`, `:62`), scripts that are lists of signals, windows
that are numbers (`momentum.py:29`, `mean_reversion.py:31`, `moving_average.py:32`); that
`None` is no price, no side and no quotient; `LimitsAssumption`, that a limit is absent or not negative
(`limits.py:34`); and `MaxOrdersAssumption`, that the bound on the
orders followed by the refinement is a number.

*Argument.* The invariant is in three parts, each inductive with those before it.
`TypeInvariant` has the exact arithmetic: money is a fraction in lowest terms in every
state. It needs that Euclid's recursion has exactly one solution (`EuclidExists`,
`EuclidIsUnique`), that what it yields divides both numbers and that dividing by it
leaves them without a common divisor (`GcdDivides`, `GcdScales`); `NumberFacts` has
this, and that sums and products keep the order, on which the second and third part
rest wherever prices are compared.

`LifeInvariant` says where orders are. `OnePlace`: each id below the next one is in
exactly one of seven places, the lists of the result, the two queues of the simulator
and the queue of events, and no other id is in any. `InTurn`: queues are in the order
of ids, and the queue of events holds the newest. `EmptyQueues`: what is empty between the
phases of a bar. `IdsRemembered`: the simulator's set of ids has the orders it was given and
none that is still to be decided, so that its check of duplicates never fires. The outcome of an order is
its place (`OutcomeOf`), so that most actions map to a step of one order or to none;
an exception maps to the loss of the order being matched, or of the fills not
yet applied.

`TimeInvariant` says which bars they meet. `OrdersTimed`: an order is as old as the bar it
was made at. `WaitingTimed`: a pending order has met no later bar of its symbol;
with the bars in order, the first it meets is therefore the first there is.
`FillsTimed`: each fill has that bar's time and a price no better than its open,
because slippage is not negative. `Affordable`: a fill in the queue was accepted against
the portfolio of this moment, unless another fill of the bar was applied since.
`Solvency`: `process_fill` repeats the check that acceptance made, so cash stays
non-negative whatever is applied before.

The refinement was corrected by its proof. An exception in the middle of a
bar's fills loses every fill not yet applied, in one step; the specification let go of one
order at a time, and the runs had no bar with three fills to show the difference.
`LoseMatched` and the job `ThreeAtOnce` came of it.

### Accounts, reruns, limits and strategies

`RunProofs` goes on, under the same assumptions:

- `AccountsAlwaysBalance`: `AccountsBalance`;
- `RerunsAreAlike`: `RerunsAreIdentical`;
- `ReducersAreNotRefused`: `ReducersPassLimits`, at any equity: an order that reduces the
  only position is refused by no limit, but by every percentage where equity is not
  positive, that is where reducing matters most (`manager.py:172`);
- `StrategiesStayInStep`: `StrategiesAreInStep`;
- `CheckedLimitsHold`: `LimitsHoldForFills`.

*Argument.* Money is conserved: `Books`, the cash, the commissions and what the held
positions cost, less the profits taken out of them, stays the capital through every fill,
be it an increase, a reduction or a reversal. The sums are over positions, and the
fractions are in lowest terms; they are calculated with as integers by writing all
those of one step over a common denominator (`CommonGrid`, `TotalIsSum`). Positions
and round trips are the fold of the accepted fills because each fill is applied once,
when it is appended to the list (`Follows`), marks are closes because every bar marks its
symbol before anything reads a mark (`MarksTaken`), and the snapshots were taken when
equity was that (`SnapshotsTaken`): `AccountInvariant`.

Two runs are related by what determines a step. `Moment` is all that a run reads, and
every step makes of one moment the next, a function of the job (one lemma per step);
so in every state the run in progress is at a point of *the* path from a fresh start,
each earlier outcome was the end of one (`PathsTaken`), and paths of one job agree
(`PathsAgree`). What makes this true of the code is that `run` resets every part it uses.

An order that leaves the only position no larger leaves every exposure no larger, and
while equity is positive every ratio to it, for equity does not change at the mark
(`ExposureOfOne`); the check refuses what is over a limit *and* more than before. Where
equity is not positive, exposures are still compared so, and a limit that is a share of
equity refuses with a reason of its own, which the property allows there only. With a second symbol held this is not so of the
limits on the whole portfolio, and the property does not claim it.

A strategy's windows, signals and beliefs have an invariant each. `WindowInvariant`: the
bars of warm-up and evaluation are one sequence (`AllBars`), and a window holds the last
closes of its symbol among those seen; places in it are counted by cardinality, and a
bar seen adds one to the counts of its own symbol only (`OneMoreOwn`, `RecentGrows`).
`AlternationInvariant`: a strategy believes to be in what it last asked to enter
(`Remembers`), the signal still in the queue included (`Told`), so that entries and exits
alternate. `BeliefInvariant`: at most one event of a symbol is on its way from signal
to portfolio (`Coming`), and with its effect the position is the intended one, unless
an order of the symbol was rejected or refused and no exit of it was signalled since
(`Clear`, `InStep`). An exit brings them together whatever went before, because its order
is of the size of the position and the strategy then believes to be flat
(`BeliefInTakeSignal`); an order rejected after it is later than it (`NoExitYet`,
`NoExitSince`). When the strategy is called
nothing is on its way for the bar's symbol (`NothingComes`): an order that still waits
answers an earlier bar (`AnswersBars`), and would have met this one if it were of its
symbol (`WaitingTimed`). Position and belief therefore agree at that moment.

That limits checked before a trade hold after it needs all of this. While prices stand still
and trading costs nothing, a portfolio is worth its capital whatever is filled, and what it
would be worth with an order is known when the order is decided (`Worth`, `WorthWith`,
`FillKeepsWorth`). `LimitInvariant` keeps a promise for each order (`Promised`): as
long as it is neither filled nor rejected, and no fill of a bar later than it has been
applied, the positions *with it added* are within the limits (`Fits`). An approval makes
that promise (`ApprovalFits`): the marks of what is held are the prices (`MarkedAtAClose`),
and the close the order is checked at is the price of its symbol, because orders are of the
symbol of their bar (`OwnBars`). A fill redeems the promise of its own order and voids
that of every other, because its bar is later than any order there is (`KeptInFillApplied`);
nothing else touches positions. It is needed that no order was decided between another's
approval and its fill (`FilledApart`), which is what `OrdersDoNotOverlap` comes to once
fills are in the order of their bars (`FillsInOrder`) and a rejected order is never filled
(`Settled`). As later orders can spoil that, the invariant says it of the fills and orders so
far, and the step that adds one takes it back (`ApartBefore`).

### The research

`WalkForwardProofs` has theorems about the `Spec` of `WalkForward`, for any data,
settings and grids, any backtest and objective, and any number of evaluations:

- `ResearchIsConsistent`: `[]ResearchInvariant`;
- `HonestFolds`, `BlindSelection`: `FoldsAreHonest`, `SelectionIsBlind`;
- `TestedRows`: `RowsAreTestedOnce`, the part of `FoldsAreHonest` about rows.

*Assumptions:* `ResearchAssumption`, the types of the arguments and that the initial
capital is positive (`engine.py:99`, `returns.py:104`); `BacktestAssumption`, that a
backtest which does not raise has one equity for each of its bars, and the objective
a number or none.

*Argument.* `ResearchInvariant` says that everything an evaluation has is a function of
its data and settings. `FoldsOK`: the k-th fold is the one after (k - 1) steps, and
when cutting is over the next would not fit. `ScoresOK`, `ResultsOK`: the scores in
hand are those of the fold in hand, and the result of a fold is `ResultOf`, in which
the test rows occur in the test's equity only. Folds are then apart because a step is
no shorter than a test (`CutFoldsAreApart`), rows tested come later because the engine
refuses warm-up that does not end before the first bar and times do not decrease
(`TestedLater`), and two evaluations whose rows agree up to some row have the same
`ResultOf` of every fold that ends there (`RowsAgree`, `ResultsAgree`).

That the combined curve goes on from fold to fold is arithmetic on fractions in lowest
terms: after bar i of a fold the curve is what it was before the fold times the fold's
equity over the initial capital (`CurveGoesOn`), since returns of consecutive bars
multiply (`GrowthChains`), for which a number needs to have one fraction in lowest
terms only (`LowestTermsAreUnique`). The product of the grid, the concatenation of the
returns and the curve are recursive functions: that they exist and have their types is
proved once (`RecursionExists`), and their values by least counterexample
(`FlattenedLists`, `CombinationsType`, `CurveGrows`).

### The cache

`MarketOverviewProofs` has theorems about the `Spec` of `MarketOverview` for any sets
of keys, threads, workers and tasks, any capacity, time to live and bound on time:

- `CacheIsBounded`: `[]CacheOK`;
- `AnswersAreFreshAlways`: the cache implements `FreshAnswers`.

*Assumptions:* capacity and time to live are positive, `None` is no key, frame or
request, workers are threads, the requested keys are keys.

*Argument.* `CacheInvariant` adds to `CacheOK` what makes it inductive, and
what makes a hit fresh: an entry expires at most TTL after its snapshot was taken,
because its life is counted from the clock reading *before* the download
(`EntryOK`); a thread about to store holds a frame of its own key, taken between
that reading and now (`CallOK`). The bound needs that the cache is finite and that
`MakingRoom` always leaves room for one (`RoomIsMade`). For the refinement a
request begins when a call reads the clock; a hit is an `Answer` because
`taken + TTL >= expires > now`, a store because `taken >= now`
(`LookingIsFresh`, `StoringIsFresh`), and everything else is hidden
(`OtherWorkIsHidden`). Fairness plays no part.

### The overview

The same module builds on it, for any number of instruments, workers and handlers:

- `OverviewReportsAll`: `OverviewAccountsForAll`.

*Assumptions:* those of the cache, and that the requested keys are finitely many
(they are a literal of the code).

*Argument.* `TasksInvariant` says where a requested key is: with the waiting tasks,
with one worker, with the results not yet taken, in `instruments` or in `failures`;
in one place at most (`OnePlace`), and in one at least while results are collected
(`EveryPlace`). It needs that nothing is left over from the overview before, not even
a worker still at it (`NothingLeft`): that is what leaving the pool's block waits
for, also when an exception passes. When the overview returns, the first three places
are empty.

### Model-checked only

The properties of `Snapshots` (`LoadedFramesAreValid`, `RiskNumbersAgree`,
`SnapshotsReconcile`). They are about values that recursion computes from
data (sorted and filtered rows, running peaks, quantiles)
and lean on `SelectSeq` and `SortSeq`, which the provers know nothing of. Out of their reach
are the liveness properties (`EveryCallReturns`, `EveryAdvanceReturns`,
`EveryRunEnds`, `EveryRequestEnds`).

## 5. Not modelled

*Floats.* Prices in ticks are integers in the native engine anyway; elsewhere
weights, money and returns are exact fractions. Rounding is therefore outside the
models, and with it the one hazard without a property (`vwap.cpp:60`, where the
floors of rounded weights might exceed the quantity). What needs square roots or
quantiles is left out: standard deviations, Sharpe and Sortino ratios, beta,
parametric VaR, annualised figures, option prices, Greeks, implied volatility. The
reports on executions leave out basis points and durations, which restate amounts
and times that nothing else reads. For the same reason the `OverflowError` that the growth
rate may raise (`quant/metrics.py:92`) is not among the ways a run fails; the `ValueError` of
a negative equity is.

*Borders of what is modelled.* A response without the expected columns raises `KeyError`
in a task of the overview (`dashboard.py:158-167`); the model has that way out of the collecting
loop once, as the `IndexError` of a response that is too short. `SnapshotsReconcile` compares
reports on one frame: `Publish` starts over, and the drift between two reports when
the cache is refreshed between two requests is outside it.

*Drivers and text.* The dashboard's endpoints that run a backtest, a walk-forward
evaluation or the native example build arguments for components that are modelled
and format their results; HTTP, JSON and the page are input and output;
`backtest/report.py` collects the metrics of several runs; `time_series_split` is
a plain cut. Reports as text, logging, CSV parsing below the level of a cell are
left out. Benchmarks, examples, scripts and tests are clients.

## 6. Plan

Done: (1) order book and matching engine with their abstract specification and
proofs; (2) execution scheduler, schedules and reports; (3) backtest engine with simulator,
portfolio, risk manager and strategies, and the abstract life of an order; (4) the
dashboard's cache and overview, the abstract freshness of an answer, and their
proofs; (5) walk-forward research, risk analytics, market data and snapshots.

Still to do:

- the theorem that every frame `MarketData` lets through is valid;
- the control flow of the implied-volatility solver over an abstract monotone
  price;
- the dashboard's endpoints over the components they drive.
