---------------------------- MODULE MCWalkForward ----------------------------
(***************************************************************************)
(* WalkForward for TLC: pairs of evaluations with the same settings, whose *)
(* data agree up to some row, and single ones with settings or data that   *)
(* are refused somewhere on the way.                                       *)
(***************************************************************************)
EXTENDS WalkForward

CONSTANTS e1, e2

Row(t, c) == [timestamp |-> t, close |-> c]
MCBars == {Row(t, c) : t \in 1 .. 7, c \in 1 .. 4}
MCValues == {1, 2, 4}

Daily(closes) == [i \in DOMAIN closes |-> Row(i, closes[i])]

\* The strategy holds "quantity" while the close is above the one "lookback" rows before,
\* and is short of it while it is below; what a row decides is held over the next row.
Held(history, i, lookback, quantity) ==
  IF i - lookback < 1 \/ history[i] = history[i - lookback] THEN 0
  ELSE IF history[i] > history[i - lookback] THEN quantity ELSE -quantity

MCCapital == Whole(6)

MCBacktest(rows, warmup, parameters) ==
  LET history == [i \in DOMAIN (warmup \o rows) |-> (warmup \o rows)[i].close]
      w == Len(warmup)
      equity[i \in DOMAIN rows] ==
        IF i = 1 THEN 6
        ELSE equity[i - 1] + Held(history, w + i - 1, parameters[1], parameters[2]) * (rows[i].close - rows[i - 1].close)
  IN  IF \E i \in DOMAIN rows : equity[i] < 0 THEN None ELSE [i \in DOMAIN rows |-> Whole(equity[i])]

\* The total return, undefined when the equity never moved, as the Sharpe ratio is.
MCObjective(equity) ==
  IF \A i \in DOMAIN equity : equity[i] = MCCapital THEN None
  ELSE equity[Len(equity)] // MCCapital -- One

Closes ==
  {<<1, 2, 3, 2, 1, 2, 3>>, <<3, 2, 1, 1, 2, 3, 1>>, <<2, 2, 2, 2, 3, 1, 2>>, <<1, 3, 1, 3, 1, 3, 1>>,
   <<2, 3, 2, 3, 3, 2, 4>>}

Settings ==
  {[train |-> 3, test |-> 2, step |-> None, expanding |-> FALSE], [train |-> 2, test |-> 2, step |-> 3, expanding |-> TRUE],
   [train |-> 3, test |-> 1, step |-> 1, expanding |-> FALSE]}

Grid == <<<<1, 2>>, <<1, 4>>>>

Job(rows, s, grid) ==
  [rows |-> rows, train |-> s.train, test |-> s.test, step |-> s.step, expanding |-> s.expanding, grid |-> grid]

Twins ==
  {[e \in Evaluations |->
      Job(Daily(IF e = e1 THEN before ELSE SubSeq(before, 1, cut) \o SubSeq(after, cut + 1, 7)), s, Grid)]
    : before \in Closes, after \in Closes, cut \in 3 .. 6, s \in Settings}

\* Times that repeat, at the border of training and test and elsewhere, or go back.
Times == {<<1, 2, 3, 3, 4, 5, 6>>, <<1, 1, 2, 3, 4, 4, 5>>, <<2, 1, 3, 4, 5, 6, 7>>}

OddSettings ==
  {[train |-> 3, test |-> 2, step |-> 1, expanding |-> FALSE], [train |-> 5, test |-> 3, step |-> None, expanding |-> FALSE],
   [train |-> 0, test |-> 2, step |-> None, expanding |-> TRUE], [train |-> 6, test |-> 1, step |-> None, expanding |-> FALSE]}

Odd ==
  {Job([i \in 1 .. 7 |-> Row(times[i], closes[i])], s, Grid) : times \in Times, closes \in Closes, s \in Settings}
  \cup {Job(Daily(closes), s, Grid) : closes \in Closes, s \in OddSettings}
  \cup {Job(Daily(closes), s, <<<<1>>, <<>>>>) : closes \in Closes, s \in Settings}

MCJobs == Twins \cup {[e \in Evaluations |-> job] : job \in Odd}
=============================================================================
