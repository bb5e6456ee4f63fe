----------------------------- MODULE Strategies -----------------------------
(***************************************************************************)
(* quant_system/strategy: what a strategy answers to a bar, and the state  *)
(* it keeps per symbol: its recent closes, the position it believes it     *)
(* has asked for, and the sign of the crossover's last difference.         *)
(*                                                                         *)
(* A strategy is a record whose kind is momentum, mean_reversion,          *)
(* crossover or script.  A script is the scheduled strategy, and, when its *)
(* signals name another symbol or time than the bar they answer, any other *)
(* implementation of the Strategy boundary.  Indicators are compared       *)
(* exactly, without the rounding of the floats.                            *)
(***************************************************************************)
EXTENDS Fractions, Sequences

CONSTANTS Symbols, None

LOCAL Seqs == INSTANCE SequencesExt

Beliefs == {"FLAT", "LONG", "SHORT"}

\* __init__ and reset.
FreshStrategy ==
  [history |-> [s \in Symbols |-> <<>>], belief |-> [s \in Symbols |-> "FLAT"],
   previous |-> [s \in Symbols |-> None]]

\* The closes a strategy needs before it decides anything.
WindowSize(strategy) ==
  CASE strategy.kind = "momentum" -> strategy.lookback + 1
    [] strategy.kind = "mean_reversion" -> strategy.window
    [] strategy.kind = "crossover" -> strategy.slow
    [] OTHER -> 0

-----------------------------------------------------------------------------
(***************************************************************************)
(* The cues each strategy takes from a full window: to enter long or       *)
(* short, and to leave either.                                             *)
(***************************************************************************)
MomentumCues(strategy, closes) ==
  LET momentum == Ratio(closes[Len(closes)], closes[1]) -- Whole(1)
      up == strategy.threshold \prec momentum
      down == momentum \prec (Zero -- strategy.threshold)
  IN  [buy |-> up, sell |-> down, exitLong |-> down, exitShort |-> up]

\* A deque(maxlen=size) after append.
Recent(closes, close, size) ==
  LET longer == Append(closes, close) IN IF Len(longer) > size THEN Tail(longer) ELSE longer

Sum(values) == Seqs!FoldLeft(LAMBDA a, b : a + b, 0, values)

\* The z-score of the last of n closes is deviation / sqrt(variance) when both
\* are multiplied by n.  With the sign kept, it compares as its square does.
Deviation(closes) == Len(closes) * closes[Len(closes)] - Sum(closes)
Variance(closes) == Len(closes) * Sum([i \in DOMAIN closes |-> closes[i] * closes[i]])
                    - Sum(closes) * Sum(closes)
ZScoreSquared(closes) ==
  LET a == Deviation(closes) IN Ratio(a * Magnitude(a), Variance(closes))
Squared(z) == Ratio(z.n * z.n, z.d * z.d)

MeanReversionCues(strategy, closes) ==
  IF Variance(closes) = 0
  THEN [buy |-> FALSE, sell |-> FALSE, exitLong |-> FALSE, exitShort |-> FALSE]
  ELSE LET z == ZScoreSquared(closes)
           entry == Squared(strategy.entry)
           exit == Squared(strategy.exit)
       IN  [buy |-> z \preceq (Zero -- entry), sell |-> entry \preceq z,
            exitLong |-> (Zero -- exit) \preceq z, exitShort |-> z \preceq exit]

\* The sign of the fast average less the slow one.
DifferenceSign(strategy, closes) ==
  LET fast == SubSeq(closes, Len(closes) - strategy.fast + 1, Len(closes))
      difference == Sum(fast) * strategy.slow - Sum(closes) * strategy.fast
  IN  IF difference > 0 THEN 1 ELSE IF difference < 0 THEN -1 ELSE 0

CrossoverCues(strategy, previous, difference) ==
  LET bullish == previous # None /\ previous <= 0 /\ difference > 0
      bearish == previous # None /\ previous >= 0 /\ difference < 0
  IN  [buy |-> bullish, sell |-> bearish /\ strategy.allowShort,
       exitLong |-> bearish, exitShort |-> bullish]

Cues(strategy, closes, previous) ==
  CASE strategy.kind = "momentum" -> MomentumCues(strategy, closes)
    [] strategy.kind = "mean_reversion" -> MeanReversionCues(strategy, closes)
    [] OTHER -> CrossoverCues(strategy, previous, DifferenceSign(strategy, closes))
-----------------------------------------------------------------------------
\* The side of the signal a belief and its cues call for, or None.
Reaction(belief, cues) ==
  CASE belief = "FLAT" /\ cues.buy -> "BUY"
    [] belief = "FLAT" /\ ~cues.buy /\ cues.sell -> "SELL"
    [] belief = "LONG" /\ cues.exitLong -> "EXIT"
    [] belief = "SHORT" /\ cues.exitShort -> "EXIT"
    [] OTHER -> None

BeliefAfter(side) == CASE side = "BUY" -> "LONG" [] side = "SELL" -> "SHORT" [] OTHER -> "FLAT"

\* _schedule is a dict from symbol and time to the signals of that bar.
Scripted(strategy, bar) ==
  LET key == <<bar.symbol, bar.timestamp>>
  IN  IF key \in DOMAIN strategy.script THEN strategy.script[key] ELSE <<>>

\* Mutant of Decides: warming up moves the belief as trading does.
DecidesAlways(strategy, closes, emits) == Len(closes) = WindowSize(strategy)

\* Whether a strategy decides on a bar: its window is full and it is not warming up.
Decides(strategy, closes, emits) == emits /\ Len(closes) = WindowSize(strategy)

\* on_market (emits) and warm_up: the state afterwards and the signals returned.
Observe(strategy, state, bar, emits) ==
  LET s == bar.symbol
      closes == Recent(state.history[s], bar.close, WindowSize(strategy))
      crossing == strategy.kind = "crossover" /\ Len(closes) = WindowSize(strategy)
      side == IF Decides(strategy, closes, emits)
              THEN Reaction(state.belief[s], Cues(strategy, closes, state.previous[s])) ELSE None
      observed == [state EXCEPT
        !.history[s] = closes,
        !.previous[s] = IF crossing THEN DifferenceSign(strategy, closes) ELSE @,
        !.belief[s] = IF side = None THEN @ ELSE BeliefAfter(side)]
  IN  IF strategy.kind = "script"
      THEN [state |-> state, signals |-> IF emits THEN Scripted(strategy, bar) ELSE <<>>]
      ELSE [state |-> observed,
            signals |-> IF side = None THEN <<>>
                        ELSE <<[timestamp |-> bar.timestamp, symbol |-> s, side |-> side]>>]
=============================================================================
