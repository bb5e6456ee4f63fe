---------------------------- MODULE BacktestProofs ----------------------------
(***************************************************************************)
(* The theorems about BacktestEngine, for any jobs, symbols and bars: its  *)
(* state is what its classes declare, no order is lost or in two places,   *)
(* an order is filled by the first later bar of its symbol and at no       *)
(* better price than its open, accounts stay solvent, and the engine       *)
(* implements OrderOutcomes.                                               *)
(*                                                                         *)
(* The invariant is in three parts, each inductive with those before it:   *)
(* TypeInvariant, LifeInvariant (where the orders are) and TimeInvariant   *)
(* (which bars they meet).                                                 *)
(***************************************************************************)
EXTENDS BacktestEngine, NumberFacts, SequenceTheorems


\* What may stand in the queue and the lists.
Events == Signals \cup Orders \cup Fills

\* Signals have no id, orders and fills have one.
LEMMA EventKinds ==
  /\ \A e \in Signals : ~IsOrder(e)
  /\ \A e \in Orders \cup Fills : IsOrder(e) /\ e.id \in Nat \ {0}
<1>1. \A e \in Signals : ~IsOrder(e)
  BY DEF Signals, IsOrder
<1>2. \A e \in Orders : IsOrder(e) /\ e.id \in Nat \ {0}
  BY DEF Orders, IsOrder
<1>3. \A e \in Fills : IsOrder(e) /\ e.id \in Nat \ {0}
  BY DEF Fills, IsOrder
<1>4. QED
  BY <1>1, <1>2, <1>3

\* The ids in a sequence, after each way to change it.
LEMMA IdsOfNothing == EventIds(<<>>) = {}
BY DEF EventIds

\* the ids of a longer sequence,
LEMMA IdsOfAppend ==
  ASSUME NEW S, NEW s \in Seq(S), NEW e \in S
  PROVE  EventIds(Append(s, e)) = EventIds(s) \cup (IF IsOrder(e) THEN {e.id} ELSE {})
<1> DEFINE t == Append(s, e)
<1>1. /\ Len(s) \in Nat /\ DOMAIN s = 1 .. Len(s)
      /\ DOMAIN t = 1 .. Len(s) + 1 /\ t[Len(s) + 1] = e
      /\ \A k \in 1 .. Len(s) : t[k] = s[k]
  OBVIOUS
<1> HIDE DEF t
<1>2. QED
  BY <1>1 DEF EventIds, t

\* and of two in a row.
LEMMA IdsOfConcat ==
  ASSUME NEW S, NEW s \in Seq(S), NEW t \in Seq(S)
  PROVE  EventIds(s \o t) = EventIds(s) \cup EventIds(t)
<1> DEFINE u == s \o t
<1>1. /\ Len(s) \in Nat /\ DOMAIN s = 1 .. Len(s)
      /\ Len(t) \in Nat /\ DOMAIN t = 1 .. Len(t)
      /\ DOMAIN u = 1 .. Len(s) + Len(t)
      /\ \A k \in 1 .. Len(s) : u[k] = s[k]
      /\ \A k \in 1 .. Len(t) : u[k + Len(s)] = t[k]
  BY ConcatProperties
<1>2. \A k \in (1 .. Len(s) + Len(t)) \ (1 .. Len(s)) : k - Len(s) \in 1 .. Len(t) /\ k = (k - Len(s)) + Len(s)
  BY <1>1
<1> HIDE DEF u
<1>3. \A k \in (1 .. Len(s) + Len(t)) \ (1 .. Len(s)) : u[k] = t[k - Len(s)]
  BY <1>1, <1>2
<1>4. \A k \in 1 .. Len(t) : k + Len(s) \in DOMAIN u
  BY <1>1
<1>5. \A k \in 1 .. Len(s) : k \in DOMAIN u
  BY <1>1
<1>6. EventIds(s) \subseteq EventIds(u)
  BY <1>1, <1>5 DEF EventIds
<1>7. EventIds(t) \subseteq EventIds(u)
  BY <1>1, <1>4 DEF EventIds
<1>8. EventIds(u) \subseteq EventIds(s) \cup EventIds(t)
  <2> SUFFICES ASSUME NEW k \in DOMAIN u, IsOrder(u[k])
               PROVE  u[k].id \in EventIds(s) \cup EventIds(t)
    BY DEF EventIds
  <2>1. CASE k \in 1 .. Len(s)
    BY <1>1, <2>1 DEF EventIds
  <2>2. CASE k \notin 1 .. Len(s)
    BY <1>1, <1>2, <1>3, <2>2 DEF EventIds
  <2>3. QED
    BY <2>1, <2>2
<1>9. QED
  BY <1>6, <1>7, <1>8 DEF u

\* Orders and fills in the order of their ids.
Rising(s) ==
  \A k, l \in DOMAIN s :
    k < l /\ IsOrder(s[k]) /\ IsOrder(s[l]) => s[k].id < s[l].id

\* All of s come before all of t.
Before(s, t) == \A i \in EventIds(s), j \in EventIds(t) : i < j

\* What is left of a sequence that loses its first element.
LEMMA TailFacts ==
  ASSUME NEW S, NEW s \in Seq(S), s # <<>>
  PROVE  /\ Head(s) \in S /\ Tail(s) \in Seq(S) /\ Head(s) = s[1] /\ 1 \in DOMAIN s
         /\ DOMAIN Tail(s) = 1 .. Len(s) - 1 /\ DOMAIN s = 1 .. Len(s) /\ Len(s) \in Nat \ {0}
         /\ \A k \in DOMAIN Tail(s) : k + 1 \in DOMAIN s /\ Tail(s)[k] = s[k + 1]
         /\ \A k \in DOMAIN s : k # 1 => k - 1 \in DOMAIN Tail(s) /\ Tail(s)[k - 1] = s[k]
<1>1. /\ Head(s) \in S /\ Tail(s) \in Seq(S) /\ Head(s) = s[1] /\ Len(s) \in Nat \ {0}
      /\ DOMAIN s = 1 .. Len(s) /\ Len(Tail(s)) = Len(s) - 1
      /\ DOMAIN Tail(s) = 1 .. Len(Tail(s))
  OBVIOUS
<1>2. \A k \in 1 .. Len(s) - 1 : k + 1 \in DOMAIN s /\ Tail(s)[k] = s[k + 1]
  BY <1>1
<1>3. \A k \in DOMAIN s : k # 1 => k - 1 \in 1 .. Len(s) - 1 /\ (k - 1) + 1 = k
  BY <1>1
<1>4. QED
  BY <1>1, <1>2, <1>3

\* Taking the first event takes its id, the least of a rising sequence.
LEMMA IdsOfTail ==
  ASSUME NEW S, NEW s \in Seq(S), s # <<>>, Rising(s), EventIds(s) \subseteq Nat
  PROVE  /\ Rising(Tail(s))
         /\ EventIds(Tail(s)) \subseteq EventIds(s)
         /\ IsOrder(Head(s)) =>
              /\ Head(s).id \in EventIds(s)
              /\ EventIds(Tail(s)) = EventIds(s) \ {Head(s).id}
              /\ \A i \in EventIds(Tail(s)) : Head(s).id < i
         /\ ~IsOrder(Head(s)) => EventIds(Tail(s)) = EventIds(s)
<1> DEFINE t == Tail(s)
<1>1. /\ Head(s) = s[1] /\ 1 \in DOMAIN s
      /\ DOMAIN t = 1 .. Len(s) - 1 /\ DOMAIN s = 1 .. Len(s) /\ Len(s) \in Nat \ {0}
      /\ \A k \in DOMAIN t : k + 1 \in DOMAIN s /\ t[k] = s[k + 1]
      /\ \A k \in DOMAIN s : k # 1 => k - 1 \in DOMAIN t /\ t[k - 1] = s[k]
  BY TailFacts
<1> HIDE DEF t
<1>2. Rising(t)
  <2> SUFFICES ASSUME NEW k \in DOMAIN t, NEW l \in DOMAIN t, k < l, IsOrder(t[k]), IsOrder(t[l])
               PROVE  t[k].id < t[l].id
    BY DEF Rising
  <2>1. k + 1 < l + 1 /\ k + 1 \in DOMAIN s /\ l + 1 \in DOMAIN s
    BY <1>1
  <2>2. QED
    BY <1>1, <2>1 DEF Rising
<1>3. EventIds(t) \subseteq EventIds(s)
  BY <1>1 DEF EventIds
<1>4. ASSUME IsOrder(Head(s))
      PROVE  /\ Head(s).id \in EventIds(s)
             /\ EventIds(s) \subseteq EventIds(t) \cup {Head(s).id}
             /\ \A i \in EventIds(t) : Head(s).id < i
  <2>1. Head(s).id \in EventIds(s)
    BY <1>1, <1>4 DEF EventIds
  <2>2. EventIds(s) \subseteq EventIds(t) \cup {Head(s).id}
    BY <1>1 DEF EventIds
  <2>3. ASSUME NEW k \in DOMAIN t, IsOrder(t[k]) PROVE Head(s).id < t[k].id
    <3>1. k + 1 \in DOMAIN s /\ 1 < k + 1 /\ t[k] = s[k + 1]
      BY <1>1
    <3>2. QED
      BY <1>1, <1>4, <2>3, <3>1 DEF Rising
  <2>4. QED
    BY <2>1, <2>2, <2>3 DEF EventIds
<1>5. ~IsOrder(Head(s)) => EventIds(s) \subseteq EventIds(t)
  BY <1>1 DEF EventIds
<1>6. \A i \in EventIds(t) : IsOrder(Head(s)) => i # Head(s).id
  <2>1. ASSUME NEW k \in DOMAIN t, IsOrder(t[k]), IsOrder(Head(s)) PROVE t[k].id # Head(s).id
    <3>1. Head(s).id < t[k].id
      BY <1>4, <2>1 DEF EventIds
    <3>2. Head(s).id \in Nat
      BY <1>4, <2>1
    <3>3. QED
      BY <1>3, <3>1, <3>2
  <2>2. QED
    BY <2>1 DEF EventIds
<1>7. QED
  BY <1>2, <1>3, <1>4, <1>5, <1>6 DEF t

\* A sequence keeps rising when something later is appended,
LEMMA RisingAppend ==
  ASSUME NEW S, NEW s \in Seq(S), NEW e \in S, Rising(s),
         IsOrder(e) => \A i \in EventIds(s) : i < e.id
  PROVE  Rising(Append(s, e))
<1> DEFINE t == Append(s, e)
<1>1. /\ Len(s) \in Nat /\ DOMAIN s = 1 .. Len(s)
      /\ DOMAIN t = 1 .. Len(s) + 1 /\ t[Len(s) + 1] = e
      /\ \A k \in 1 .. Len(s) : t[k] = s[k]
  OBVIOUS
<1> HIDE DEF t
<1>2. ASSUME NEW k \in DOMAIN t, NEW l \in DOMAIN t, k < l, IsOrder(t[k]), IsOrder(t[l])
      PROVE  t[k].id < t[l].id
  <2>1. k \in DOMAIN s /\ t[k] = s[k]
    BY <1>1, <1>2
  <2>2. CASE l \in DOMAIN s
    BY <1>1, <1>2, <2>1, <2>2 DEF Rising
  <2>3. CASE l = Len(s) + 1
    <3>1. t[k].id \in EventIds(s)
      BY <1>2, <2>1 DEF EventIds
    <3>2. QED
      BY <1>1, <1>2, <2>3, <3>1
  <2>4. QED
    BY <1>1, <2>2, <2>3
<1>3. QED
  BY <1>2 DEF Rising, t

\* and when something that rises after it is.
LEMMA RisingConcat ==
  ASSUME NEW S, NEW s \in Seq(S), NEW t \in Seq(S), Rising(s), Rising(t), Before(s, t)
  PROVE  Rising(s \o t)
<1> DEFINE u == s \o t
           n == Len(s)
<1>1. /\ n \in Nat /\ DOMAIN s = 1 .. n
      /\ Len(t) \in Nat /\ DOMAIN t = 1 .. Len(t)
      /\ DOMAIN u = 1 .. n + Len(t)
      /\ \A k \in 1 .. n : u[k] = s[k]
      /\ \A k \in 1 .. Len(t) : u[k + n] = t[k]
  BY ConcatProperties
<1>2. \A k \in DOMAIN u : k \notin 1 .. n => k - n \in 1 .. Len(t) /\ k = (k - n) + n
  BY <1>1
<1> HIDE DEF u, n
<1>3. \A k \in DOMAIN u : k \notin 1 .. n => u[k] = t[k - n] /\ k - n \in DOMAIN t
  BY <1>1, <1>2
<1>4. ASSUME NEW k \in DOMAIN u, NEW l \in DOMAIN u, k < l, IsOrder(u[k]), IsOrder(u[l])
      PROVE  u[k].id < u[l].id
  <2>1. CASE l \in 1 .. n
    <3>1. k \in 1 .. n
      BY <1>1, <1>4, <2>1
    <3>2. QED
      BY <1>1, <1>4, <2>1, <3>1 DEF Rising
  <2>2. CASE k \notin 1 .. n
    <3>1. l \notin 1 .. n /\ k - n < l - n
      BY <1>1, <1>4, <2>2
    <3>2. QED
      BY <1>3, <1>4, <2>2, <3>1 DEF Rising
  <2>3. CASE k \in 1 .. n /\ l \notin 1 .. n
    <3>1. u[k].id \in EventIds(s)
      BY <1>1, <1>4, <2>3 DEF EventIds
    <3>2. u[l].id \in EventIds(t)
      BY <1>3, <1>4, <2>3 DEF EventIds
    <3>3. QED
      BY <3>1, <3>2 DEF Before
  <2>4. QED
    BY <2>1, <2>2, <2>3
<1>5. QED
  BY <1>4 DEF Rising, u
-----------------------------------------------------------------------------
(***************************************************************************)
(* Types                                                                   *)
(***************************************************************************)
Positions == [quantity : Int, average : Fractions, realized : Fractions, trips : Nat]

\* A Portfolio object.
AccountOK(p) ==
  /\ p = [cash |-> p.cash, allowShort |-> p.allowShort, positions |-> p.positions,
          marks |-> p.marks, applied |-> p.applied, commission |-> p.commission,
          snapshots |-> p.snapshots]
  /\ p.cash \in Fractions /\ p.commission \in Fractions
  /\ p.positions \in [Symbols -> Positions] /\ p.marks \in [Symbols -> Int]

Rejections == [order : Orders, timestamp : Nat, reason : Reasons, late : BOOLEAN]

ListsOK ==
  /\ queue \in Seq(Events)
  /\ signals \in Seq(Signals) /\ orders \in Seq(Orders) /\ fills \in Seq(Fills)
  /\ pending \in Seq(Orders) /\ still \in Seq(Orders) /\ refused \in Seq(Orders)
  /\ accepted \in Seq(Fills) /\ rejected \in Seq(Rejections)
  /\ \E S : outcomes \in Seq(S)

\* Where in run a bar is at hand, and what the queue holds there.
InBar == step \in {"execute", "apply", "strategy", "decide"}

StepOK ==
  /\ step \in Steps /\ cursor \in Nat \ {0} /\ nextOrder \in Nat \ {0}
  /\ InBar => cursor \in DOMAIN job.bars
  /\ InBar \/ step = "bar" => Valid(job.bars)
  /\ step = "apply" => queue \in Seq(Fills)
  /\ step = "decide" => queue \in Seq(Signals \cup Orders)

TypeInvariant == job \in Jobs /\ ListsOK /\ StepOK /\ AccountOK(portfolio)

\* What BacktestAssumption says of one job.
LEMMA JobFacts ==
  ASSUME NEW j \in Jobs
  PROVE  /\ j.capital \in Nat \ {0} /\ j.quantity \in Nat \ {0} /\ j.allowShort \in BOOLEAN
         /\ j.bars \in Seq(Bars) /\ Len(j.bars) \in Nat \ {0} /\ DOMAIN j.bars = 1 .. Len(j.bars)
         /\ Chronological(j.bars) /\ j.warmup \in Seq(Bars)
         /\ \A m \in {j.commission, j.slippage} :
              m.kind \in {"fixed", "percentage"} /\ m.amount \in Fractions /\ Zero \preceq m.amount
BY BacktestAssumption

\* While a bar is processed, Market is that bar, and its open is positive.
LEMMA MarketIsABar ==
  ASSUME TypeInvariant, InBar
  PROVE  /\ Market \in Bars /\ Market.timestamp \in Nat /\ Market.symbol \in Symbols
         /\ Market.open \in Int /\ Market.open > 0 /\ Market.close \in Int
<1>1. cursor \in DOMAIN job.bars /\ job.bars \in Seq(Bars) /\ Valid(job.bars)
  BY JobFacts DEF TypeInvariant, StepOK
<1>2. Market \in Bars
  BY <1>1 DEF Market
<1>3. Market.open > 0
  BY <1>1 DEF Market, Valid
<1>4. QED
  BY <1>2, <1>3 DEF Bars

\* The generator makes at most one order of a signal, with the next number.
LEMMA GeneratedFacts ==
  ASSUME TypeInvariant, NEW s \in Signals
  PROVE  \/ Generated(s) = <<>>
         \/ \E o \in Orders :
              Generated(s) = <<o>> /\ o.id = nextOrder /\ o.timestamp = s.timestamp
<1>1. /\ s.timestamp \in Nat /\ s.symbol \in Symbols /\ s.side \in {"BUY", "SELL", "EXIT"}
      /\ nextOrder \in Nat \ {0} /\ job.quantity \in Nat \ {0}
  BY JobFacts DEF TypeInvariant, StepOK, Signals
<1> DEFINE position == portfolio.positions[s.symbol].quantity
           order(side, quantity) ==
             [id |-> nextOrder, timestamp |-> s.timestamp, symbol |-> s.symbol,
              side |-> side, quantity |-> quantity]
<1>2. position \in Int
  BY <1>1 DEF TypeInvariant, AccountOK, Positions
<1>3. \A side \in Sides, quantity \in Nat \ {0} :
        /\ order(side, quantity) \in Orders /\ order(side, quantity).id = nextOrder
        /\ order(side, quantity).timestamp = s.timestamp
  BY <1>1 DEF Orders
<1>4. CASE s.side # "EXIT"
  <2>1. Generated(s) = <<order(s.side, job.quantity)>>
    BY <1>4, Zenon DEF Generated
  <2>2. s.side \in Sides
    BY <1>1, <1>4 DEF Sides
  <2> HIDE DEF order
  <2>3. QED
    BY <1>1, <1>3, <2>1, <2>2
<1>5. CASE s.side = "EXIT" /\ position > 0
  <2>1. ~ (position < 0) /\ position \in Nat \ {0}
    BY <1>2, <1>5
  <2>2. Generated(s) = <<order("SELL", position)>>
    BY <1>5, <2>1, Zenon DEF Generated
  <2>3. "SELL" \in Sides
    BY DEF Sides
  <2> HIDE DEF order, position
  <2>4. QED
    BY <1>3, <2>1, <2>2, <2>3
<1>6. CASE s.side = "EXIT" /\ position < 0
  <2>1. ~ (position > 0) /\ -position \in Nat \ {0}
    BY <1>2, <1>6
  <2>2. Generated(s) = <<order("BUY", -position)>>
    BY <1>6, <2>1, Zenon DEF Generated
  <2>3. "BUY" \in Sides
    BY DEF Sides
  <2> HIDE DEF order, position
  <2>4. QED
    BY <1>3, <2>1, <2>2, <2>3
<1>7. CASE s.side = "EXIT" /\ ~ (position > 0) /\ ~ (position < 0)
  BY <1>7, Zenon DEF Generated
<1>8. QED
  BY <1>4, <1>5, <1>6, <1>7

\* What a strategy answers is a sequence of signals.
LEMMA AnswersAreSignals ==
  ASSUME NEW j \in Jobs, NEW state, NEW bar \in Bars
  PROVE  Strat!Observe(j.strategy, state, bar, TRUE).signals \in Seq(Signals)
<1> DEFINE answer == Strat!Observe(j.strategy, state, bar, TRUE)
<1>1. CASE j.strategy.kind = "script"
  <2>1. answer.signals = Strat!Scripted(j.strategy, bar)
    BY <1>1 DEF Strat!Observe
  <2>2. Strat!Scripted(j.strategy, bar) \in Seq(Signals)
    BY <1>1, BacktestAssumption DEF Strat!Scripted
  <2>3. QED
    BY <2>1, <2>2
<1>2. CASE j.strategy.kind # "script"
  <2> DEFINE closes == Strat!Recent(state.history[bar.symbol], bar.close, Strat!WindowSize(j.strategy))
             cues == Strat!Cues(j.strategy, closes, state.previous[bar.symbol])
             reaction == Strat!Reaction(state.belief[bar.symbol], cues)
             side == IF Strat!Decides(j.strategy, closes, TRUE) THEN reaction ELSE None
             signal == [timestamp |-> bar.timestamp, symbol |-> bar.symbol, side |-> side]
  <2>1. answer.signals = IF side = None THEN <<>> ELSE <<signal>>
    BY <1>2, Zenon DEF Strat!Observe
  <2>2. reaction \in {"BUY", "SELL", "EXIT", None}
    BY Zenon DEF Strat!Reaction
  <2>3. side # None => signal \in Signals
    <3>1. side # None => side \in {"BUY", "SELL", "EXIT"}
      BY <2>2
    <3> HIDE DEF side
    <3>2. QED
      BY <3>1 DEF Signals, Bars
  <2> HIDE DEF signal, side, answer
  <2>4. <<signal>> \in Seq(Signals) \/ side = None
    BY <2>3
  <2>5. answer.signals \in Seq(Signals)
    BY <2>1, <2>4
  <2>6. QED
    BY <2>5 DEF answer
<1>3. QED
  BY <1>1, <1>2
-----------------------------------------------------------------------------
\* A fill copies its order, and its price is a fraction.
LEMMA FillFacts ==
  ASSUME TypeInvariant, InBar, NEW o \in Orders
  PROVE  LET fill == FillOf(o, Market, job.commission, job.slippage) IN
         /\ fill.price \in Fractions
         /\ fill.price = Slipped(job.slippage, Market.open, o.side)
         /\ fill \in Fills /\ fill.id = o.id /\ fill.timestamp = Market.timestamp
         /\ fill.symbol = o.symbol /\ fill.side = o.side /\ fill.quantity = o.quantity
<1> DEFINE price == Slipped(job.slippage, Market.open, o.side)
           commission == CommissionOn(job.commission, o.quantity, price)
           fill == FillOf(o, Market, job.commission, job.slippage)
<1>1. job \in Jobs /\ Market.timestamp \in Nat /\ Whole(Market.open) \in Quotients
  BY MarketIsABar, WholeType DEF TypeInvariant
<1>2. /\ job.commission.amount \in Fractions /\ job.slippage.amount \in Fractions
      /\ job.commission.amount \in Quotients /\ job.slippage.amount \in Quotients
  BY <1>1, JobFacts, FractionsAreQuotients
<1>3. price \in Fractions
  <2> DEFINE move == IF job.slippage.kind = "fixed" THEN job.slippage.amount
                     ELSE Whole(Market.open) ** job.slippage.amount
  <2>1. move \in Quotients
    BY <1>1, <1>2, OperationTypes, FractionsAreQuotients
  <2>2. price = IF o.side = "BUY" THEN Whole(Market.open) ++ move ELSE Whole(Market.open) -- move
    BY DEF Slipped
  <2> HIDE DEF move, price
  <2>3. QED
    BY <1>1, <2>1, <2>2, OperationTypes
<1> HIDE DEF price
<1>4. commission \in Fractions
  <2>1. o.quantity \in Int /\ Whole(o.quantity) \in Quotients
    BY WholeType DEF Orders
  <2>2. Whole(o.quantity) ** price \in Quotients
    BY <1>3, <2>1, OperationTypes, FractionsAreQuotients
  <2>3. (Whole(o.quantity) ** price) ** job.commission.amount \in Fractions
    BY <1>2, <2>2, OperationTypes
  <2>4. QED
    BY <1>2, <2>3 DEF CommissionOn
<1> HIDE DEF commission
<1>5. fill = [id |-> o.id, timestamp |-> Market.timestamp, symbol |-> o.symbol,
              side |-> o.side, quantity |-> o.quantity, price |-> price,
              commission |-> commission]
  BY DEF FillOf, price, commission
<1> HIDE DEF fill
<1>6. fill \in Fills
  BY <1>1, <1>3, <1>4, <1>5 DEF Orders, Fills
<1>7. QED
  BY <1>3, <1>5, <1>6 DEF fill, price

\* The risk manager approves or gives one of its reasons.
LEMMA DecisionIsAReason ==
  ASSUME NEW o, NEW p, NEW price, NEW limits
  PROVE  Decision(o, p, price, limits) \in Reasons \cup {Approved}
<1>1. ASSUME NEW before, NEW after PROVE LimitDecision(before, after, limits) \in Reasons \cup {Approved}
  <2> DEFINE undefined(k) == before[k] = None \/ after[k] = None
             refuses(i) == LET k == Checks[i][1] IN
               limits[k] # None /\ (undefined(k) \/ Exceeds(before[k], after[k], limits[k]))
             first(i) == refuses(i) /\ \A j \in 1 .. i - 1 : ~refuses(j)
             chosen == CHOOSE i \in DOMAIN Checks : first(i)
  <2>1. LimitDecision(before, after, limits)
          = IF \E i \in DOMAIN Checks : refuses(i)
            THEN IF undefined(Checks[chosen][1]) THEN "NON_POSITIVE_EQUITY" ELSE Checks[chosen][2]
            ELSE Approved
    BY Zenon DEF LimitDecision
  <2> HIDE DEF refuses
  <2>2. DOMAIN Checks = 1 .. 5
    BY DEF Checks
  <2>3. ASSUME \E i \in DOMAIN Checks : refuses(i)
        PROVE  \E i \in DOMAIN Checks : first(i)
    <3>1. CASE refuses(1)
      BY <2>2, <3>1
    <3>2. CASE ~refuses(1) /\ refuses(2)
      BY <2>2, <3>2
    <3>3. CASE ~refuses(1) /\ ~refuses(2) /\ refuses(3)
      BY <2>2, <3>3
    <3>4. CASE ~refuses(1) /\ ~refuses(2) /\ ~refuses(3) /\ refuses(4)
      BY <2>2, <3>4
    <3>5. CASE ~refuses(1) /\ ~refuses(2) /\ ~refuses(3) /\ ~refuses(4) /\ refuses(5)
      BY <2>2, <3>5
    <3>6. QED
      BY <2>2, <2>3, <3>1, <3>2, <3>3, <3>4, <3>5
  <2>4. ASSUME \E i \in DOMAIN Checks : refuses(i) PROVE chosen \in DOMAIN Checks
    BY <2>3, <2>4, Zenon
  <2> HIDE DEF chosen
  <2>5. \A i \in 1 .. 5 : Checks[i][2] \in LimitReasons
    BY DEF Checks, LimitReasons
  <2>6. QED
    BY <2>1, <2>2, <2>4, <2>5 DEF Reasons
<1>2. QED
  BY <1>1 DEF Decision, Reasons

\* process_fill leaves an account with exact money, and remembers the fill.
LEMMA FillKeepsAccount ==
  ASSUME NEW p, AccountOK(p), NEW f \in Fills
  PROVE  /\ AccountOK(ProcessFill(p, f))
         /\ ProcessFill(p, f).applied = p.applied \cup {f.id}
         /\ ProcessFill(p, f).cash = CashAfter(p, f)
         /\ ProcessFill(p, f).allowShort = p.allowShort
<1> DEFINE s == f.symbol
           pos == p.positions[s]
           change == Signed(f.side, f.quantity)
           new == ApplyFill(pos, f.side, f.quantity, f.price)
           cash == CashAfter(p, f)
           fees == p.commission ++ f.commission
<1>1. /\ s \in Symbols /\ f.quantity \in Nat \ {0} /\ f.price \in Fractions
      /\ f.commission \in Fractions /\ f.commission \in Quotients /\ f.price \in Quotients
  BY FractionsAreQuotients DEF Fills
<1>2. pos \in Positions /\ p.cash \in Quotients /\ p.commission \in Quotients
  BY <1>1, FractionsAreQuotients DEF AccountOK
<1>3. pos.quantity \in Int /\ pos.average \in Quotients /\ pos.realized \in Quotients
      /\ pos.average \in Fractions /\ pos.realized \in Fractions /\ pos.trips \in Nat
  BY <1>2, FractionsAreQuotients DEF Positions
<1>4. change \in Int /\ change # 0 /\ Whole(change) \in Quotients
  BY <1>1, WholeType DEF Signed
<1>5. cash \in Fractions
  <2>1. Whole(change) ** f.price \in Quotients
    BY <1>1, <1>4, OperationTypes, FractionsAreQuotients
  <2> DEFINE paid == Whole(change) ** f.price
  <2> HIDE DEF paid, change
  <2>2. p.cash -- paid \in Quotients
    BY <1>2, <2>1, OperationTypes, FractionsAreQuotients DEF paid
  <2>3. (p.cash -- paid) -- f.commission \in Fractions
    BY <1>1, <2>2, OperationTypes
  <2>4. QED
    BY <2>3 DEF CashAfter, paid, change
<1>6. fees \in Fractions
  BY <1>1, <1>2, OperationTypes
<1>7. new \in Positions
  <2> DEFINE total == pos.quantity + change
  <2> HIDE DEF change
  <2>1. total \in Int /\ Whole(total) \in Quotients
    BY <1>3, <1>4, WholeType
  <2>2. CASE pos.quantity = 0
    <3>1. new = [pos EXCEPT !.quantity = change, !.average = f.price]
      BY <2>2 DEF ApplyFill, Opened, change
    <3>2. QED
      BY <1>1, <1>2, <1>3, <1>4, <3>1 DEF Positions
  <2>3. CASE pos.quantity # 0 /\ pos.quantity * change > 0
    <3> DEFINE worth == (Whole(pos.quantity) ** pos.average ++ Whole(change) ** f.price)
    <3>1. worth \in Quotients
      <4>1. Whole(pos.quantity) \in Quotients
        BY <1>3, WholeType
      <4>2. Whole(pos.quantity) ** pos.average \in Quotients /\ Whole(change) ** f.price \in Quotients
        BY <1>1, <1>3, <1>4, <4>1, OperationTypes, FractionsAreQuotients
      <4>3. QED
        BY <4>2, OperationTypes, FractionsAreQuotients
    <3>2. total # 0
      BY <1>3, <1>4, <2>3
    <3> HIDE DEF worth, total
    <3>3. worth // Whole(total) \in Fractions
      <4>1. Whole(total).n = total
        BY <2>1, WholeType
      <4>2. QED
        BY <2>1, <3>1, <3>2, <4>1, OperationTypes
    <3>4. new = [pos EXCEPT !.quantity = total, !.average = worth // Whole(total)]
      BY <2>3, Zenon DEF ApplyFill, Increased, change, total, worth
    <3>5. QED
      BY <1>2, <1>3, <2>1, <3>3, <3>4 DEF Positions
  <2>4. CASE pos.quantity # 0 /\ ~ (pos.quantity * change > 0)
    <3> DEFINE crossed == Crosses(pos.quantity, total)
               closed == IF crossed THEN pos.quantity ELSE -change
               gain == pos.realized ++ (f.price -- pos.average) ** Whole(closed)
               average == Remaining(pos, total, f.price)
               trips == pos.trips + (IF crossed THEN 1 ELSE 0)
    <3>1. closed \in Int /\ trips \in Nat
      BY <1>3, <1>4
    <3> HIDE DEF closed
    <3>2. gain \in Fractions
      <4>1. f.price -- pos.average \in Quotients /\ Whole(closed) \in Quotients
        BY <1>1, <1>3, <3>1, OperationTypes, FractionsAreQuotients, WholeType
      <4>2. (f.price -- pos.average) ** Whole(closed) \in Quotients
        BY <4>1, OperationTypes, FractionsAreQuotients
      <4>3. QED
        BY <1>3, <4>2, OperationTypes
    <3>3. average \in Fractions
      <4>1. average \in {Zero, f.price, pos.average}
        BY Zenon DEF Remaining
      <4>2. QED
        BY <1>1, <1>3, <4>1, ZeroType
    <3>4. new = [quantity |-> total, average |-> average, realized |-> gain, trips |-> trips]
      BY <2>4, Zenon DEF ApplyFill, Reduced, change, closed
    <3> HIDE DEF gain, average, trips, total
    <3>5. QED
      BY <2>1, <3>1, <3>2, <3>3, <3>4 DEF Positions
  <2>5. QED
    BY <2>2, <2>3, <2>4
<1> HIDE DEF new, cash, fees
<1>8. ProcessFill(p, f) = [p EXCEPT !.cash = cash, !.positions = [p.positions EXCEPT ![s] = new],
                                    !.commission = fees, !.applied = p.applied \cup {f.id}]
  BY DEF ProcessFill, new, cash, fees, AccountOK
<1>9. [p.positions EXCEPT ![s] = new] \in [Symbols -> Positions]
  BY <1>1, <1>7 DEF AccountOK
<1>10. QED
  BY <1>5, <1>6, <1>8, <1>9 DEF AccountOK, cash
-----------------------------------------------------------------------------
(***************************************************************************)
(* Every step keeps the types                                              *)
(***************************************************************************)
\* A sequence of anything grows by anything.
LEMMA SequencesGrow ==
  ASSUME NEW S, NEW s \in Seq(S), NEW e
  PROVE  /\ \E T : Append(s, e) \in Seq(T)
         /\ Append(s, e) # <<>>
         /\ Append(s, e)[Len(Append(s, e))] = e
<1> DEFINE T == S \cup {e}
<1>1. s \in Seq(T)
  OBVIOUS
<1>2. Append(s, e) \in Seq(T)
  BY <1>1
<1>3. QED
  BY <1>2

\* A new portfolio is an account.
LEMMA NewAccountOK ==
  ASSUME NEW capital \in Int, NEW allowShort
  PROVE  AccountOK(NewPortfolio(capital, allowShort))
<1>1. FlatPosition \in Positions
  BY ZeroType DEF FlatPosition, Positions
<1>2. [s \in Symbols |-> FlatPosition] \in [Symbols -> Positions]
  BY <1>1
<1>3. [s \in Symbols |-> NoMark] \in [Symbols -> Int]
  BY DEF NoMark
<1>4. QED
  BY <1>2, <1>3, WholeIsFraction, ZeroType DEF NewPortfolio, AccountOK

\* The types hold initially, and each action keeps them.
LEMMA TypeInitially == Init => TypeInvariant
<1> SUFFICES ASSUME Init PROVE TypeInvariant
  OBVIOUS
<1>1. job \in Jobs /\ job.capital \in Int
  BY JobFacts DEF Init
<1>2. ListsOK
  BY DEF Init, SimulatorInit, ListsOK
<1>3. StepOK
  BY DEF Init, StepOK, Steps, InBar
<1>4. AccountOK(portfolio)
  BY <1>1, NewAccountOK DEF Init
<1>5. QED
  BY <1>1, <1>2, <1>3, <1>4 DEF TypeInvariant

\* A run starts with new components.
LEMMA TypeInStartRun ==
  ASSUME TypeInvariant, StartRun
  PROVE  TypeInvariant'
<1>1. job' \in Jobs /\ job.capital \in Int
  BY JobFacts DEF TypeInvariant, StartRun
<1>2. ListsOK'
  BY DEF TypeInvariant, StartRun, ResetSimulator, ListsOK
<1>3. StepOK'
  BY DEF StartRun, ResetParts, StepOK, Steps, InBar
<1>4. AccountOK(portfolio')
  BY <1>1, NewAccountOK DEF StartRun
<1>5. QED
  BY <1>1, <1>2, <1>3, <1>4 DEF TypeInvariant, AccountOK

\* What Raise does to the types.
LEMMA RaiseKeepsTypes ==
  ASSUME TypeInvariant, NEW error, Raise(error)
  PROVE  /\ (\E S : outcomes' \in Seq(S)) /\ step' = "idle"
         /\ outcomes' # <<>> /\ "error" \in DOMAIN outcomes'[Len(outcomes')]
<1>1. PICK S : outcomes \in Seq(S)
  BY DEF TypeInvariant, ListsOK
<1>2. outcomes' = Append(outcomes, [error |-> error]) /\ step' = "idle"
  BY DEF Raise
<1> DEFINE e == [error |-> error]
<1>3. "error" \in DOMAIN e
  OBVIOUS
<1> HIDE DEF e
<1>4. outcomes' = Append(outcomes, e)
  BY <1>2 DEF e
<1>5. QED
  BY <1>1, <1>2, <1>3, <1>4, SequencesGrow

\* The strategy sees the warm-up bars.
LEMMA TypeInWarmUp ==
  ASSUME TypeInvariant, WarmUp \/ BeginEvaluation
  PROVE  TypeInvariant'
<1>1. /\ UNCHANGED <<job, queue, portfolio, nextOrder, signals, orders, fills, rejected, simulatorVars>>
      /\ step = "warmup" /\ cursor' \in Nat \ {0}
      /\ \/ step' = step /\ outcomes' = outcomes
         \/ step' = "bar" /\ outcomes' = outcomes /\ Valid(job.bars)
         \/ Raise("ValueError")
  <2>1. cursor \in Nat \ {0}
    BY DEF TypeInvariant, StepOK
  <2>2. CASE WarmUp
    <3>1. cursor + 1 \in Nat \ {0}
      BY <2>1
    <3>2. QED
      BY <2>1, <2>2, <3>1, Zenon DEF WarmUp
  <2>3. CASE BeginEvaluation
    BY <2>1, <2>3 DEF BeginEvaluation
  <2>4. QED
    BY <2>2, <2>3
<1>2. ListsOK' /\ (step' = "idle" \/ step' = "warmup" \/ (step' = "bar" /\ Valid(job.bars)))
  <2>1. /\ \E S : outcomes' \in Seq(S)
        /\ step' = "idle" \/ step' = "warmup" \/ (step' = "bar" /\ Valid(job.bars))
    BY <1>1, RaiseKeepsTypes DEF TypeInvariant, ListsOK
  <2>2. QED
    BY <1>1, <2>1 DEF TypeInvariant, ListsOK, simulatorVars
<1>3. StepOK'
  BY <1>1, <1>2 DEF TypeInvariant, StepOK, Steps, InBar, Valid
<1>4. QED
  BY <1>1, <1>2, <1>3 DEF TypeInvariant, AccountOK

\* A bar begins or ends.
LEMMA TypeInBar ==
  ASSUME TypeInvariant, NextBar \/ EndBar
  PROVE  TypeInvariant'
<1>1. /\ UNCHANGED <<job, queue, portfolio, nextOrder, signals, orders, fills, rejected, outcomes,
                     simulatorVars>>
      /\ \/ step = "bar" /\ step' = "execute" /\ cursor' = cursor /\ cursor <= Len(job.bars)
         \/ step = "decide" /\ step' = "bar" /\ cursor' = cursor + 1
  BY DEF NextBar, EndBar
<1>2. ListsOK'
  BY <1>1 DEF TypeInvariant, ListsOK, simulatorVars
<1>3. StepOK'
  BY <1>1, JobFacts DEF TypeInvariant, StepOK, Steps, InBar, Valid
<1>4. QED
  BY <1>1, <1>2, <1>3 DEF TypeInvariant, AccountOK

\* A pending order is matched with the bar.
LEMMA TypeInExecuteOrder ==
  ASSUME TypeInvariant, ExecuteOrder
  PROVE  TypeInvariant'
<1> DEFINE fill == FillOf(Head(pending), Market, job.commission, job.slippage)
<1>1. /\ UNCHANGED <<job, cursor, queue, portfolio, strategy, nextOrder, signals, orders, fills, rejected>>
      /\ step = "execute" /\ pending # <<>>
      /\ \/ Hold(Market) /\ step' = step /\ outcomes' = outcomes
         \/ Match(fill, Accepts(fill)) /\ step' = step /\ outcomes' = outcomes
         \/ PriceFails(fill) /\ Raise("ValueError")
  BY DEF ExecuteOrder
<1>2. /\ pending \in Seq(Orders) /\ still \in Seq(Orders) /\ refused \in Seq(Orders) /\ accepted \in Seq(Fills)
      /\ Head(pending) \in Orders /\ Tail(pending) \in Seq(Orders)
  BY <1>1 DEF TypeInvariant, ListsOK
<1>3. fill \in Fills
  BY <1>1, <1>2, FillFacts DEF InBar
<1> HIDE DEF fill
<1>4. /\ pending' \in Seq(Orders) /\ still' \in Seq(Orders) /\ refused' \in Seq(Orders)
      /\ accepted' \in Seq(Fills)
  <2>1. CASE Hold(Market)
    BY <1>2, <2>1 DEF Hold
  <2>2. CASE Match(fill, Accepts(fill))
    <3>1. /\ pending' = Tail(pending) /\ still' = still
          /\ \/ accepted' = Append(accepted, fill) /\ refused' = refused
             \/ accepted' = accepted /\ refused' = Append(refused, Head(pending))
      BY <2>2, Zenon DEF Match
    <3>2. Append(refused, Head(pending)) \in Seq(Orders) /\ Append(accepted, fill) \in Seq(Fills)
      BY <1>2, <1>3
    <3>3. QED
      BY <1>2, <3>1, <3>2, Zenon
  <2>3. CASE PriceFails(fill)
    BY <1>2, <2>3 DEF PriceFails
  <2>4. QED
    BY <1>1, <2>1, <2>2, <2>3
<1>5. (\E S : outcomes' \in Seq(S)) /\ (step' = "execute" \/ step' = "idle")
  BY <1>1, RaiseKeepsTypes DEF TypeInvariant, ListsOK
<1>6. ListsOK'
  BY <1>1, <1>4, <1>5 DEF TypeInvariant, ListsOK
<1>7. StepOK'
  BY <1>1, <1>5 DEF TypeInvariant, StepOK, Steps, InBar, Valid
<1>8. QED
  BY <1>1, <1>6, <1>7 DEF TypeInvariant, AccountOK

\* The orders reported as refused are orders.
LEMMA NewlyRefusedType ==
  ASSUME refused \in Seq(Orders), rejected \in Seq(Rejections)
  PROVE  NewlyRefused \in Seq(Orders)
<1>1. IsFiniteSet({k \in DOMAIN rejected : rejected[k].late})
  <2>1. Len(rejected) \in Nat /\ DOMAIN rejected = 1 .. Len(rejected)
    OBVIOUS
  <2>2. IsFiniteSet(1 .. Len(rejected))
    BY <2>1, FS_Interval
  <2>3. QED
    BY <2>1, <2>2, FS_Subset
<1>2. Reported \in Nat
  BY <1>1, FS_CardinalityType DEF Reported
<1>3. CASE Reported + 1 \in 1 .. Len(refused)
  <2> DEFINE m == Reported + 1
  <2>1. m \in Int /\ Len(refused) \in Int /\ m >= 1
    BY <1>2
  <2> HIDE DEF m
  <2>2. \A i \in m .. Len(refused) : refused[i] \in Orders
    BY <2>1
  <2>3. SubSeq(refused, m, Len(refused)) \in Seq(Orders)
    BY <2>1, <2>2, SubSeqProperties
  <2>4. QED
    BY <2>3 DEF NewlyRefused, m
<1>4. CASE Reported + 1 \notin 1 .. Len(refused)
  <2>1. Len(refused) \in Nat /\ Reported + 1 > Len(refused)
    BY <1>2, <1>4
  <2>2. SubSeq(refused, Reported + 1, Len(refused)) = <<>>
    BY <1>2, <2>1, SubSeqEmpty
  <2>3. <<>> \in Seq(Orders)
    OBVIOUS
  <2>4. QED
    BY <2>2, <2>3, Zenon DEF NewlyRefused
<1>5. QED
  BY <1>3, <1>4

\* All pending orders have met the bar.
LEMMA TypeInEndExecution ==
  ASSUME TypeInvariant, EndExecution
  PROVE  TypeInvariant'
<1>1. /\ UNCHANGED <<job, cursor, portfolio, nextOrder, signals, orders, fills, outcomes, refused>>
      /\ step = "execute" /\ step' = "apply"
      /\ queue' = accepted /\ pending' = still /\ still' = <<>> /\ accepted' = <<>>
      /\ rejected' = rejected \o [i \in DOMAIN NewlyRefused |-> Refusal(NewlyRefused[i])]
  BY DEF EndExecution, FinishExecution
<1>2. /\ still \in Seq(Orders) /\ accepted \in Seq(Fills) /\ refused \in Seq(Orders)
      /\ rejected \in Seq(Rejections)
  BY DEF TypeInvariant, ListsOK
<1>3. rejected' \in Seq(Rejections)
  <2>1. NewlyRefused \in Seq(Orders)
    BY <1>2, NewlyRefusedType
  <2>2. \A o \in Orders : Refusal(o) \in Rejections
    BY <1>1, MarketIsABar DEF Refusal, Rejections, Reasons, InBar
  <2> DEFINE late == [i \in DOMAIN NewlyRefused |-> Refusal(NewlyRefused[i])]
  <2>3. late \in Seq(Rejections)
    <3>1. Len(NewlyRefused) \in Nat /\ DOMAIN NewlyRefused = 1 .. Len(NewlyRefused)
      BY <2>1
    <3>2. \A i \in 1 .. Len(NewlyRefused) : Refusal(NewlyRefused[i]) \in Rejections
      BY <2>1, <2>2
    <3>3. late = [i \in 1 .. Len(NewlyRefused) |-> Refusal(NewlyRefused[i])]
      BY <3>1
    <3> HIDE DEF late
    <3>4. QED
      BY <3>1, <3>2, <3>3
  <2> HIDE DEF late
  <2>4. rejected \o late \in Seq(Rejections)
    BY <1>2, <2>3, ConcatProperties
  <2>5. QED
    BY <1>1, <2>4 DEF late
<1>4. ListsOK'
  <2>1. queue' \in Seq(Events)
    BY <1>1, <1>2 DEF Events
  <2>2. QED
    BY <1>1, <1>2, <1>3, <2>1 DEF TypeInvariant, ListsOK
<1>5. StepOK'
  BY <1>1, <1>2 DEF TypeInvariant, StepOK, Steps, InBar, Valid
<1>6. QED
  BY <1>1, <1>4, <1>5 DEF TypeInvariant, AccountOK

\* A fill is applied to the portfolio.
LEMMA TypeInApplyNext ==
  ASSUME TypeInvariant, ApplyNext
  PROVE  TypeInvariant'
<1> DEFINE fill == Head(queue)
<1>1. /\ UNCHANGED <<job, cursor, nextOrder, signals, orders, rejected, simulatorVars>>
      /\ step = "apply" /\ queue # <<>> /\ queue' = Tail(queue)
      /\ \/ /\ portfolio' = ProcessFill(portfolio, fill) /\ fills' = Append(fills, fill)
            /\ step' = step /\ outcomes' = outcomes
         \/ /\ Raise(FillError(portfolio, fill))
            /\ portfolio' = portfolio /\ fills' = fills
  BY Zenon DEF ApplyNext
<1>2. /\ queue \in Seq(Fills) /\ fill \in Fills /\ queue' \in Seq(Fills) /\ queue' \in Seq(Events)
      /\ fills \in Seq(Fills) /\ Append(fills, fill) \in Seq(Fills)
  <2>1. queue \in Seq(Fills) /\ fills \in Seq(Fills)
    BY <1>1 DEF TypeInvariant, StepOK, ListsOK
  <2>2. fill \in Fills /\ queue' \in Seq(Fills)
    BY <1>1, <2>1
  <2>3. queue' \in Seq(Events)
    BY <2>2 DEF Events
  <2>4. QED
    BY <2>1, <2>2, <2>3
<1> HIDE DEF fill
<1>3. (\E S : outcomes' \in Seq(S)) /\ (step' = "apply" \/ step' = "idle")
  BY <1>1, RaiseKeepsTypes DEF TypeInvariant, ListsOK
<1>4. AccountOK(portfolio')
  BY <1>1, <1>2, FillKeepsAccount, Zenon DEF TypeInvariant
<1>5. ListsOK'
  <2>1. fills' \in Seq(Fills)
    BY <1>1, <1>2
  <2>2. QED
    BY <1>1, <1>2, <1>3, <2>1 DEF TypeInvariant, ListsOK, simulatorVars
<1>6. StepOK'
  BY <1>1, <1>2, <1>3 DEF TypeInvariant, StepOK, Steps, InBar, Valid
<1>7. QED
  BY <1>1, <1>4, <1>5, <1>6 DEF TypeInvariant, AccountOK

\* mark_to_market changes neither money nor positions.
LEMMA MarkKeepsAccount ==
  ASSUME NEW p, AccountOK(p), NEW bar \in Bars
  PROVE  /\ AccountOK(MarkToMarket(p, bar))
         /\ MarkToMarket(p, bar).cash = p.cash /\ MarkToMarket(p, bar).applied = p.applied
         /\ MarkToMarket(p, bar).allowShort = p.allowShort
         /\ MarkToMarket(p, bar).positions = p.positions
<1> DEFINE q == MarkToMarket(p, bar)
           shots == Append(p.snapshots, Snapshot(Marked(p, bar.symbol, bar.close), bar.timestamp))
           marks == [p.marks EXCEPT ![bar.symbol] = bar.close]
<1>1. bar.symbol \in Symbols /\ bar.close \in Int
  BY DEF Bars
<1>2. marks \in [Symbols -> Int]
  BY <1>1 DEF AccountOK
<1>3. Marked(p, bar.symbol, bar.close) = [p EXCEPT !.marks = marks]
  BY DEF Marked
<1> HIDE DEF marks
<1>4. q = [p EXCEPT !.marks = marks, !.snapshots = shots]
  <2> DEFINE marked == Marked(p, bar.symbol, bar.close)
  <2>1. q = [marked EXCEPT !.snapshots = Append(marked.snapshots, Snapshot(marked, bar.timestamp))]
    BY DEF MarkToMarket
  <2>2. marked.snapshots = p.snapshots
    BY <1>3 DEF AccountOK
  <2>3. q = [marked EXCEPT !.snapshots = shots]
    BY <2>1, <2>2
  <2> HIDE DEF shots, q
  <2>4. QED
    BY <1>3, <2>3 DEF AccountOK
<1> HIDE DEF shots, q
<1>5. /\ q.marks = marks /\ q.cash = p.cash /\ q.applied = p.applied /\ q.positions = p.positions
      /\ q.allowShort = p.allowShort /\ q.commission = p.commission
      /\ q = [cash |-> q.cash, allowShort |-> q.allowShort, positions |-> q.positions,
              marks |-> q.marks, applied |-> q.applied, commission |-> q.commission,
              snapshots |-> q.snapshots]
  BY <1>4 DEF AccountOK
<1>6. QED
  BY <1>2, <1>5 DEF AccountOK, q

\* The bar's close marks the portfolio.
LEMMA TypeInMarkBar ==
  ASSUME TypeInvariant, MarkBar
  PROVE  TypeInvariant'
<1>1. /\ UNCHANGED <<job, cursor, queue, nextOrder, signals, orders, fills, rejected, outcomes,
                     simulatorVars>>
      /\ step = "apply" /\ step' = "strategy" /\ portfolio' = MarkToMarket(portfolio, Market)
  BY DEF MarkBar
<1>2. AccountOK(portfolio')
  BY <1>1, MarketIsABar, MarkKeepsAccount DEF TypeInvariant, InBar
<1>3. ListsOK'
  BY <1>1 DEF TypeInvariant, ListsOK, simulatorVars
<1>4. StepOK'
  BY <1>1 DEF TypeInvariant, StepOK, Steps, InBar, Valid
<1>5. QED
  BY <1>1, <1>2, <1>3, <1>4 DEF TypeInvariant, AccountOK

\* The answer of the strategy to the bar, and the signals of other times in it.
Answer == Strat!Observe(job.strategy, strategy, Market, TRUE)

CallStrategyFacts ==
  /\ UNCHANGED <<job, cursor, portfolio, nextOrder, signals, orders, fills, rejected, simulatorVars>>
  /\ step = "strategy" /\ Answer.signals \in Seq(Signals)
  /\ \/ /\ \A i \in DOMAIN Answer.signals : Answer.signals[i].timestamp = Market.timestamp
        /\ queue' = Answer.signals /\ step' = "decide" /\ outcomes' = outcomes
     \/ Raise("ValueError") /\ queue' = queue

\* What a call of the strategy changes.
LEMMA CallStrategyMeans ==
  ASSUME TypeInvariant, CallStrategy
  PROVE  CallStrategyFacts
<1>1. /\ UNCHANGED <<job, cursor, portfolio, nextOrder, signals, orders, fills, rejected, simulatorVars>>
      /\ step = "strategy"
      /\ \/ /\ \A i \in DOMAIN Answer.signals : Answer.signals[i].timestamp = Market.timestamp
            /\ queue' = Answer.signals /\ step' = "decide" /\ outcomes' = outcomes
         \/ Raise("ValueError") /\ queue' = queue
  BY Zenon DEF CallStrategy, Answer
<1>2. Answer.signals \in Seq(Signals)
  BY <1>1, MarketIsABar, AnswersAreSignals DEF TypeInvariant, InBar, Answer
<1>3. QED
  BY <1>1, <1>2 DEF CallStrategyFacts

\* It keeps the types.
LEMMA TypeInCallStrategy ==
  ASSUME TypeInvariant, CallStrategy
  PROVE  TypeInvariant'
<1>1. CallStrategyFacts
  BY CallStrategyMeans
<1>2. queue \in Seq(Events)
  BY DEF TypeInvariant, ListsOK
<1>3. Answer.signals \in Seq(Signals) /\ Answer.signals \in Seq(Events) /\ Answer.signals \in Seq(Signals \cup Orders)
  BY <1>1 DEF CallStrategyFacts, Events
<1>4. CASE queue' = Answer.signals /\ step' = "decide" /\ outcomes' = outcomes
  <2>1. ListsOK'
    BY <1>1, <1>3, <1>4 DEF TypeInvariant, ListsOK, CallStrategyFacts, simulatorVars
  <2>2. StepOK'
    BY <1>1, <1>3, <1>4 DEF TypeInvariant, StepOK, Steps, InBar, Valid, CallStrategyFacts
  <2>3. QED
    BY <1>1, <2>1, <2>2 DEF TypeInvariant, AccountOK, CallStrategyFacts
<1>5. CASE Raise("ValueError") /\ queue' = queue
  <2>1. (\E S : outcomes' \in Seq(S)) /\ step' = "idle"
    BY <1>5, RaiseKeepsTypes
  <2>2. ListsOK'
    BY <1>1, <1>5, <2>1 DEF TypeInvariant, ListsOK, CallStrategyFacts, simulatorVars
  <2>3. StepOK'
    BY <1>1, <1>5, <2>1 DEF TypeInvariant, StepOK, Steps, InBar, Valid, CallStrategyFacts
  <2>4. QED
    BY <1>1, <2>2, <2>3 DEF TypeInvariant, AccountOK, CallStrategyFacts
<1>6. QED
  BY <1>1, <1>4, <1>5 DEF CallStrategyFacts

\* A signal becomes an order or nothing.
TakeSignalFacts ==
  /\ UNCHANGED <<job, step, cursor, portfolio, strategy, orders, fills, rejected, outcomes, simulatorVars>>
  /\ step = "decide" /\ queue # <<>>
  /\ Head(queue) \in Signals /\ Tail(queue) \in Seq(Signals \cup Orders)
  /\ signals' = Append(signals, Head(queue))
  /\ \/ queue' = Tail(queue) /\ nextOrder' = nextOrder
     \/ \E o \in Orders :
          /\ queue' = Append(Tail(queue), o) /\ nextOrder' = nextOrder + 1
          /\ o.id = nextOrder /\ o.timestamp = Head(queue).timestamp

\* What a signal changes.
LEMMA TakeSignalMeans ==
  ASSUME TypeInvariant, TakeSignal
  PROVE  TakeSignalFacts
<1> DEFINE s == Head(queue)
<1>1. /\ UNCHANGED <<job, step, cursor, portfolio, strategy, orders, fills, rejected, outcomes, simulatorVars>>
      /\ step = "decide" /\ queue # <<>> /\ ~IsOrder(s)
      /\ signals' = Append(signals, s)
      /\ queue' = Tail(queue) \o Generated(s) /\ nextOrder' = nextOrder + Len(Generated(s))
  BY DEF TakeSignal
<1>2. queue \in Seq(Signals \cup Orders) /\ nextOrder \in Nat \ {0}
  BY <1>1 DEF TypeInvariant, StepOK
<1>3. s \in Signals /\ Tail(queue) \in Seq(Signals \cup Orders)
  <2>1. s \in Signals \cup Orders /\ Tail(queue) \in Seq(Signals \cup Orders)
    BY <1>1, <1>2
  <2>2. QED
    BY <1>1, <2>1, EventKinds
<1> HIDE DEF s
<1>4. CASE Generated(s) = <<>>
  <2>1. Tail(queue) \o <<>> = Tail(queue) /\ Len(<<>>) = 0
    BY <1>3
  <2>2. QED
    BY <1>1, <1>2, <1>3, <1>4, <2>1 DEF TakeSignalFacts, s
<1>5. ASSUME NEW o \in Orders, Generated(s) = <<o>>, o.id = nextOrder, o.timestamp = s.timestamp
      PROVE  TakeSignalFacts
  <2>1. Tail(queue) \o <<o>> = Append(Tail(queue), o) /\ Len(<<o>>) = 1
    BY <1>3
  <2>2. QED
    BY <1>1, <1>2, <1>3, <1>5, <2>1 DEF TakeSignalFacts, s
<1>6. QED
  BY <1>3, <1>4, <1>5, GeneratedFacts

\* It keeps the types.
LEMMA TypeInTakeSignal ==
  ASSUME TypeInvariant, TakeSignal
  PROVE  TypeInvariant'
<1>1. TakeSignalFacts
  BY TakeSignalMeans
<1>2. /\ signals' \in Seq(Signals) /\ queue' \in Seq(Signals \cup Orders)
      /\ nextOrder' \in Nat \ {0}
  <2>1. /\ signals \in Seq(Signals) /\ nextOrder \in Nat \ {0} /\ Head(queue) \in Signals
        /\ Tail(queue) \in Seq(Signals \cup Orders) /\ signals' = Append(signals, Head(queue))
    BY <1>1 DEF TakeSignalFacts, TypeInvariant, ListsOK, StepOK
  <2>2. \A o \in Orders : Append(Tail(queue), o) \in Seq(Signals \cup Orders)
    BY <2>1
  <2>3. queue' \in Seq(Signals \cup Orders)
    BY <1>1, <2>1, <2>2, Zenon DEF TakeSignalFacts
  <2>4. nextOrder' = nextOrder \/ nextOrder' = nextOrder + 1
    BY <1>1, Zenon DEF TakeSignalFacts
  <2>5. QED
    BY <2>1, <2>3, <2>4
<1>3. queue' \in Seq(Events)
  BY <1>2 DEF Events
<1>4. ListsOK'
  BY <1>1, <1>2, <1>3 DEF TypeInvariant, ListsOK, TakeSignalFacts, simulatorVars
<1>5. StepOK'
  BY <1>1, <1>2 DEF TypeInvariant, StepOK, Steps, InBar, Valid, TakeSignalFacts
<1>6. QED
  BY <1>1, <1>4, <1>5 DEF TypeInvariant, AccountOK, TakeSignalFacts

\* An order is rejected, submitted, or its id is not new.
TakeOrderFacts ==
  /\ UNCHANGED <<job, cursor, portfolio, strategy, nextOrder, signals, fills>>
  /\ step = "decide" /\ queue # <<>>
  /\ Head(queue) \in Orders /\ queue' = Tail(queue) /\ queue' \in Seq(Signals \cup Orders)
  /\ orders' = Append(orders, Head(queue))
  /\ \/ /\ \E reason \in Reasons :
             rejected' = Append(rejected, [order |-> Head(queue), timestamp |-> Market.timestamp,
                                           reason |-> reason, late |-> FALSE])
        /\ UNCHANGED <<simulatorVars, step, outcomes>>
     \/ Head(queue).id \in seen /\ Raise("DuplicateOrderError") /\ UNCHANGED <<rejected, simulatorVars>>
     \/ Head(queue).id \notin seen /\ Submit(Head(queue)) /\ UNCHANGED <<rejected, step, outcomes>>

\* What an order changes.
LEMMA TakeOrderMeans ==
  ASSUME TypeInvariant, TakeOrder
  PROVE  TakeOrderFacts
<1> DEFINE o == Head(queue)
           decision == DecisionFor(o)
<1>1. /\ UNCHANGED <<job, cursor, portfolio, strategy, nextOrder, signals, fills>>
      /\ step = "decide" /\ queue # <<>> /\ IsOrder(o) /\ queue' = Tail(queue)
      /\ orders' = Append(orders, o)
      /\ \/ /\ decision # Approved
            /\ rejected' = Append(rejected, [order |-> o, timestamp |-> Market.timestamp,
                                             reason |-> decision, late |-> FALSE])
            /\ UNCHANGED <<simulatorVars, step, outcomes>>
         \/ o.id \in seen /\ Raise("DuplicateOrderError") /\ UNCHANGED <<rejected, simulatorVars>>
         \/ o.id \notin seen /\ Submit(o) /\ UNCHANGED <<rejected, step, outcomes>>
  BY Zenon DEF TakeOrder
<1>2. queue \in Seq(Signals \cup Orders)
  BY <1>1 DEF TypeInvariant, StepOK
<1>3. o \in Orders /\ queue' \in Seq(Signals \cup Orders)
  <2>1. o \in Signals \cup Orders /\ Tail(queue) \in Seq(Signals \cup Orders)
    BY <1>1, <1>2
  <2>2. QED
    BY <1>1, <2>1, EventKinds
<1>4. decision \in Reasons \cup {Approved}
  BY DecisionIsAReason DEF DecisionFor
<1> HIDE DEF decision, o
<1>5. QED
  BY <1>1, <1>3, <1>4, Zenon DEF TakeOrderFacts, o

\* It keeps the types.
LEMMA TypeInTakeOrder ==
  ASSUME TypeInvariant, TakeOrder
  PROVE  TypeInvariant'
<1>1. TakeOrderFacts
  BY TakeOrderMeans
<1> DEFINE o == Head(queue)
           entry(reason) == [order |-> o, timestamp |-> Market.timestamp, reason |-> reason, late |-> FALSE]
<1>2. o \in Orders /\ Market.timestamp \in Nat /\ pending \in Seq(Orders) /\ orders \in Seq(Orders)
      /\ rejected \in Seq(Rejections)
  BY <1>1, MarketIsABar DEF TakeOrderFacts, TypeInvariant, ListsOK, InBar
<1> HIDE DEF o
<1>3. \A reason \in Reasons : entry(reason) \in Rejections
  BY <1>2 DEF Rejections
<1> HIDE DEF entry
<1>4. \A reason \in Reasons : Append(rejected, entry(reason)) \in Seq(Rejections)
  BY <1>2, <1>3
<1>5. Append(pending, o) \in Seq(Orders) /\ Append(orders, o) \in Seq(Orders)
  BY <1>2
<1>6. queue' \in Seq(Events) /\ orders' \in Seq(Orders)
  BY <1>1, <1>5 DEF TakeOrderFacts, Events, o
<1>7. /\ rejected' \in Seq(Rejections) /\ pending' \in Seq(Orders)
      /\ UNCHANGED <<refused, still, accepted>>
      /\ (\E S : outcomes' \in Seq(S)) /\ (step' = "decide" \/ step' = "idle")
  <2>1. CASE /\ \E reason \in Reasons : rejected' = Append(rejected, entry(reason))
             /\ UNCHANGED <<simulatorVars, step, outcomes>>
    <3>1. rejected' \in Seq(Rejections)
      BY <1>4, <2>1
    <3>2. QED
      BY <1>1, <2>1, <3>1 DEF TakeOrderFacts, TypeInvariant, ListsOK, simulatorVars
  <2>2. CASE Raise("DuplicateOrderError") /\ UNCHANGED <<rejected, simulatorVars>>
    <3>1. (\E S : outcomes' \in Seq(S)) /\ step' = "idle"
      BY <2>2, RaiseKeepsTypes
    <3>2. QED
      BY <1>2, <2>2, <3>1 DEF simulatorVars
  <2>3. CASE Submit(o) /\ UNCHANGED <<rejected, step, outcomes>>
    <3>1. pending' \in Seq(Orders) /\ UNCHANGED <<refused, still, accepted>>
      BY <1>5, <2>3 DEF Submit
    <3>2. QED
      BY <1>1, <1>2, <2>3, <3>1 DEF TakeOrderFacts, TypeInvariant, ListsOK
  <2>4. QED
    BY <1>1, <2>1, <2>2, <2>3, Zenon DEF TakeOrderFacts, o, entry
<1>8. ListsOK'
  BY <1>1, <1>6, <1>7 DEF TypeInvariant, ListsOK, TakeOrderFacts
<1>9. StepOK'
  BY <1>1, <1>7 DEF TypeInvariant, StepOK, Steps, InBar, Valid, TakeOrderFacts
<1>10. QED
  BY <1>1, <1>8, <1>9 DEF TypeInvariant, AccountOK, TakeOrderFacts

\* The run ends.
LEMMA TypeInFinishRun ==
  ASSUME TypeInvariant, FinishRun
  PROVE  TypeInvariant'
<1>1. /\ UNCHANGED <<job, cursor, queue, portfolio, nextOrder, signals, orders, fills, rejected,
                     simulatorVars>>
      /\ \/ Raise("ValueError")
         \/ step' = "idle" /\ outcomes' = Append(outcomes, Result)
  BY Zenon DEF FinishRun
<1>2. (\E S : outcomes' \in Seq(S)) /\ step' = "idle"
  <2>1. CASE outcomes' = Append(outcomes, Result) /\ step' = "idle"
    BY <2>1, SequencesGrow DEF TypeInvariant, ListsOK
  <2>2. QED
    BY <1>1, <2>1, RaiseKeepsTypes
<1>3. ListsOK'
  BY <1>1, <1>2 DEF TypeInvariant, ListsOK, simulatorVars
<1>4. StepOK'
  BY <1>1, <1>2 DEF TypeInvariant, StepOK, Steps, InBar, Valid
<1>5. QED
  BY <1>1, <1>3, <1>4 DEF TypeInvariant, AccountOK

\* So every step keeps the types.
LEMMA TypesAreKept ==
  ASSUME TypeInvariant, [Next]_vars
  PROVE  TypeInvariant'
<1>1. CASE UNCHANGED vars
  BY <1>1 DEF TypeInvariant, ListsOK, StepOK, InBar, Valid, AccountOK, vars, runVars, simulatorVars
<1>2. CASE Next
  BY <1>2, TypeInStartRun, TypeInWarmUp, TypeInBar, TypeInExecuteOrder, TypeInEndExecution,
     TypeInApplyNext, TypeInMarkBar, TypeInCallStrategy, TypeInTakeSignal, TypeInTakeOrder,
     TypeInFinishRun DEF Next, RunStep, Execute, Decide
<1>3. QED
  BY <1>1, <1>2
-----------------------------------------------------------------------------
(***************************************************************************)
(* The places of the orders                                                *)
(***************************************************************************)
\* A run is in progress, or the last one has returned.
Healthy == step # "idle" \/ (outcomes # <<>> /\ "error" \notin DOMAIN outcomes[Len(outcomes)])

PlaceNames == {"filled", "refused", "pending", "still", "accepted", "queued", "denied"}

\* Every order of 1 .. n - 1 is in one place, and no other is anywhere.
OnePlace(places, n) ==
  /\ \A p \in PlaceNames : places[p] \subseteq 1 .. n - 1
  /\ \A i \in 1 .. n - 1 : \E p \in PlaceNames : i \in places[p]
  /\ \A p, q \in PlaceNames : p # q => places[p] \cap places[q] = {}

\* What is empty outside its step.
EmptyQueues ==
  /\ step \notin {"apply", "decide"} => queue = <<>>
  /\ step # "execute" => still = <<>> /\ accepted = <<>>

\* Orders keep their turn.
InTurn ==
  /\ Rising(pending) /\ Rising(still) /\ Rising(accepted) /\ Rising(queue)
  /\ step = "execute" => Before(still, pending) /\ Before(accepted, pending)
  /\ step = "decide" => Before(pending, queue)

\* The simulator remembers the ids of the orders it has, the portfolio those of its fills.
IdsRemembered ==
  /\ EventIds(pending) \cup EventIds(still) \cup EventIds(accepted) \subseteq seen
  /\ step = "apply" => EventIds(queue) \subseteq seen
  /\ step = "decide" => seen \cap EventIds(queue) = {}
  /\ portfolio.applied = EventIds(fills)

Life == OnePlace(Places, nextOrder) /\ EmptyQueues /\ InTurn /\ IdsRemembered

LifeInvariant ==
  /\ Healthy => Life
  /\ seen \subseteq 1 .. nextOrder - 1 /\ portfolio.applied \subseteq seen

\* i goes from place a to place b.
Moves(i, a, b) ==
  /\ i \in Places[a]
  /\ \A p \in PlaceNames :
       Places'[p] = IF p = a THEN Places[p] \ {i} ELSE IF p = b THEN Places[p] \cup {i} ELSE Places[p]

\* The places of this state, by name,
LEMMA PlacesAre ==
  /\ Places["filled"] = EventIds(fills) /\ Places["refused"] = EventIds(refused)
  /\ Places["pending"] = EventIds(pending) /\ Places["still"] = EventIds(still)
  /\ Places["accepted"] = EventIds(accepted) /\ Places["queued"] = EventIds(queue)
  /\ Places["denied"] = Denied
BY DEF Places

\* and of the next.
LEMMA PlacesWillBe ==
  /\ Places'["filled"] = EventIds(fills)' /\ Places'["refused"] = EventIds(refused)'
  /\ Places'["pending"] = EventIds(pending)' /\ Places'["still"] = EventIds(still)'
  /\ Places'["accepted"] = EventIds(accepted)' /\ Places'["queued"] = EventIds(queue)'
  /\ Places'["denied"] = Denied'
BY DEF Places

\* An order that moves from one place to another is in one place still.
LEMMA OneMoves ==
  ASSUME NEW n, NEW P, NEW Q, OnePlace(P, n),
         NEW a \in PlaceNames, NEW b \in PlaceNames, a # b, NEW i \in P[a],
         \A p \in PlaceNames :
           Q[p] = IF p = a THEN P[p] \ {i} ELSE IF p = b THEN P[p] \cup {i} ELSE P[p]
  PROVE  OnePlace(Q, n)
<1> HIDE DEF PlaceNames
<1>1. \A p \in PlaceNames : Q[p] \subseteq 1 .. n - 1
  <2> DEFINE all == 1 .. n - 1
  <2>1. \A p \in PlaceNames : P[p] \subseteq all
    BY DEF OnePlace
  <2> HIDE DEF all
  <2>2. \A p \in PlaceNames : Q[p] \subseteq all
    BY <2>1
  <2>3. QED
    BY <2>2 DEF all
<1>2. ASSUME NEW j \in 1 .. n - 1 PROVE \E p \in PlaceNames : j \in Q[p]
  <2>1. PICK p \in PlaceNames : j \in P[p]
    BY DEF OnePlace
  <2>2. j \in Q[p] \/ j \in Q[b]
    BY <2>1
  <2>3. QED
    BY <2>2
<1>3. ASSUME NEW p \in PlaceNames, NEW q \in PlaceNames, p # q PROVE Q[p] \cap Q[q] = {}
  <2>1. \A c, d \in PlaceNames : c # d => P[c] \cap P[d] = {}
    BY DEF OnePlace
  <2>2. ASSUME NEW j \in Q[p], j \in Q[q] PROVE FALSE
    <3>1. Q[p] = IF p = a THEN P[p] \ {i} ELSE IF p = b THEN P[p] \cup {i} ELSE P[p]
      OBVIOUS
    <3>2. Q[q] = IF q = a THEN P[q] \ {i} ELSE IF q = b THEN P[q] \cup {i} ELSE P[q]
      OBVIOUS
    <3>3. j \notin P[p] \/ j \notin P[q]
      BY <1>3, <2>1
    <3>4. j = i
      BY <2>2, <3>1, <3>2, <3>3
    <3>5. p # a /\ q # a
      BY <2>2, <3>1, <3>2, <3>4
    <3>6. i \notin P[p] /\ i \notin P[q]
      BY <2>1, <3>5
    <3>7. QED
      BY <1>3, <2>2, <3>1, <3>2, <3>4, <3>5, <3>6
  <2>3. QED
    BY <2>2
<1>4. QED
  BY <1>1, <1>2, <1>3 DEF OnePlace

\* The ids in sequences of orders or fills.
LEMMA IdsAreNumbers == ASSUME NEW s \in Seq(Events) PROVE EventIds(s) \subseteq Nat \ {0}
<1>1. \A k \in DOMAIN s : s[k] \in Events
  OBVIOUS
<1>2. QED
  BY <1>1, EventKinds DEF EventIds, Events

\* Every list is one of events.
LEMMA ListsAreEvents ==
  ASSUME ListsOK
  PROVE  /\ queue \in Seq(Events) /\ orders \in Seq(Events) /\ fills \in Seq(Events)
         /\ pending \in Seq(Events) /\ still \in Seq(Events) /\ refused \in Seq(Events)
         /\ accepted \in Seq(Events)
<1>1. Seq(Orders) \subseteq Seq(Events) /\ Seq(Fills) \subseteq Seq(Events)
  BY DEF Events
<1>2. QED
  BY <1>1 DEF ListsOK

\* A rejection by the risk manager denies its order,
LEMMA DeniedByAppend ==
  ASSUME rejected \in Seq(Rejections), NEW e \in Rejections, rejected' = Append(rejected, e)
  PROVE  Denied' = Denied \cup (IF e.late THEN {} ELSE {e.order.id})
<1> DEFINE n == Len(rejected)
<1>1. /\ n \in Nat /\ DOMAIN rejected = 1 .. n /\ DOMAIN rejected' = 1 .. n + 1
      /\ rejected'[n + 1] = e /\ \A k \in 1 .. n : rejected'[k] = rejected[k]
  OBVIOUS
<1> HIDE DEF n
<1>2. Denied' = {rejected'[k].order.id : k \in {r \in 1 .. n + 1 : ~rejected'[r].late}}
  BY <1>1 DEF Denied
<1>3. Denied = {rejected[k].order.id : k \in {r \in 1 .. n : ~rejected[r].late}}
  BY <1>1 DEF Denied
<1>4. QED
  BY <1>1, <1>2, <1>3

\* a refusal reported later does not.
LEMMA DeniedByLate ==
  ASSUME rejected \in Seq(Rejections), NEW l \in Seq(Rejections), \A k \in DOMAIN l : l[k].late,
         rejected' = rejected \o l
  PROVE  Denied' = Denied
<1> DEFINE n == Len(rejected)
           m == Len(l)
<1>1. /\ n \in Nat /\ m \in Nat /\ DOMAIN rejected = 1 .. n /\ DOMAIN l = 1 .. m
      /\ DOMAIN rejected' = 1 .. n + m
      /\ \A k \in 1 .. n : rejected'[k] = rejected[k]
      /\ \A k \in 1 .. m : rejected'[k + n] = l[k]
  BY ConcatProperties
<1>2. \A k \in 1 .. n + m : k \notin 1 .. n => k - n \in 1 .. m /\ (k - n) + n = k
  BY <1>1
<1> HIDE DEF n, m
<1>3. \A k \in 1 .. n + m : k \notin 1 .. n => rejected'[k].late
  <2> SUFFICES ASSUME NEW k \in 1 .. n + m, k \notin 1 .. n PROVE rejected'[k].late
    OBVIOUS
  <2> DEFINE j == k - n
  <2>1. j \in 1 .. m /\ j + n = k
    BY <1>2
  <2> HIDE DEF j
  <2>2. rejected'[j + n] = l[j] /\ l[j].late
    BY <1>1, <2>1
  <2>3. QED
    BY <2>1, <2>2
<1>4. \A k \in 1 .. n : k \in 1 .. n + m
  BY <1>1
<1>5. Denied' = {rejected'[k].order.id : k \in {r \in 1 .. n + m : ~rejected'[r].late}}
  BY <1>1 DEF Denied
<1>6. Denied = {rejected[k].order.id : k \in {r \in 1 .. n : ~rejected[r].late}}
  BY <1>1 DEF Denied
<1>7. QED
  BY <1>1, <1>3, <1>4, <1>5, <1>6

\* Moving the first order of s to the end of t.
LEMMA HeadToEnd ==
  ASSUME NEW s \in Seq(Events), s # <<>>, Rising(s), IsOrder(Head(s)),
         NEW t \in Seq(Events), NEW e \in Events, IsOrder(e), e.id = Head(s).id
  PROVE  /\ e.id \in EventIds(s)
         /\ EventIds(Tail(s)) = EventIds(s) \ {e.id} /\ Rising(Tail(s))
         /\ EventIds(Append(t, e)) = EventIds(t) \cup {e.id}
         /\ Rising(t) /\ Before(t, s) => Rising(Append(t, e)) /\ Before(Append(t, e), Tail(s))
         /\ \A u : Before(u, s) => Before(u, Tail(s))
<1>1. EventIds(s) \subseteq Nat
  BY IdsAreNumbers
<1>2. /\ e.id \in EventIds(s)
      /\ EventIds(Tail(s)) = EventIds(s) \ {e.id} /\ Rising(Tail(s))
      /\ \A i \in EventIds(Tail(s)) : e.id < i
  BY <1>1, IdsOfTail
<1>3. EventIds(Append(t, e)) = EventIds(t) \cup {e.id}
  BY IdsOfAppend
<1>4. \A u : Before(u, s) => Before(u, Tail(s))
  BY <1>2 DEF Before
<1>5. ASSUME Rising(t), Before(t, s)
      PROVE  Rising(Append(t, e)) /\ Before(Append(t, e), Tail(s))
  <2>1. \A i \in EventIds(t) : i < e.id
    BY <1>2, <1>5 DEF Before
  <2>2. Rising(Append(t, e))
    BY <1>5, <2>1, RisingAppend
  <2>3. Before(Append(t, e), Tail(s))
    BY <1>2, <1>3, <1>5 DEF Before
  <2>4. QED
    BY <2>2, <2>3
<1>6. QED
  BY <1>2, <1>3, <1>4, <1>5

\* The order at the head of pending is held, matched or refused; an exception loses it.
LEMMA LifeInExecuteOrder ==
  ASSUME TypeInvariant, Life, ExecuteOrder
  PROVE  LET i == Head(pending).id IN
         /\ i \in EventIds(pending) /\ nextOrder' = nextOrder
         /\ \/ Life' /\ Healthy' /\ \E b \in {"still", "accepted", "refused"} : Moves(i, "pending", b)
            \/ /\ ~Healthy' /\ seen' = seen /\ portfolio' = portfolio
               /\ \A p \in PlaceNames : Places'[p] = IF p = "pending" THEN Places[p] \ {i} ELSE Places[p]
<1> DEFINE o == Head(pending)
           i == o.id
           fill == FillOf(o, Market, job.commission, job.slippage)
<1>1. /\ UNCHANGED <<job, cursor, queue, portfolio, strategy, nextOrder, signals, orders, fills, rejected>>
      /\ step = "execute" /\ pending # <<>> /\ seen' = seen /\ pending' = Tail(pending)
      /\ \/ /\ step' = "execute" /\ still' = Append(still, o)
            /\ accepted' = accepted /\ refused' = refused
         \/ /\ step' = "execute" /\ still' = still
            /\ accepted' = Append(accepted, fill) /\ refused' = refused
         \/ /\ step' = "execute" /\ still' = still
            /\ accepted' = accepted /\ refused' = Append(refused, o)
         \/ still' = still /\ accepted' = accepted /\ refused' = refused /\ Raise("ValueError")
  BY Zenon DEF ExecuteOrder, Hold, Match, PriceFails
<1>2. /\ pending \in Seq(Orders) /\ o \in Orders /\ fill \in Fills /\ fill.id = i
      /\ pending \in Seq(Events) /\ still \in Seq(Events) /\ accepted \in Seq(Events)
      /\ refused \in Seq(Events)
  <2>1. pending \in Seq(Orders)
    BY DEF TypeInvariant, ListsOK
  <2>2. o \in Orders
    BY <1>1, <2>1
  <2>3. fill \in Fills /\ fill.id = i
    BY <1>1, <2>2, FillFacts DEF InBar
  <2>4. QED
    BY <2>1, <2>2, <2>3, ListsAreEvents DEF TypeInvariant
<1> HIDE DEF fill, o
<1>3. /\ Rising(pending) /\ Rising(still) /\ Rising(accepted) /\ Rising(queue)
      /\ Before(still, pending) /\ Before(accepted, pending)
  BY <1>1 DEF Life, InTurn
<1>4. IsOrder(o) /\ IsOrder(fill) /\ o \in Events /\ fill \in Events /\ o = Head(pending)
  BY <1>2, EventKinds DEF Events, o
<1>5. /\ i \in EventIds(pending) /\ EventIds(pending') = EventIds(pending) \ {i} /\ Rising(pending')
      /\ \A u : Before(u, pending) => Before(u, pending')
  BY <1>1, <1>2, <1>3, <1>4, HeadToEnd
<1>6. \A t \in {still, accepted, refused} : \A e \in {o, fill} :
        /\ EventIds(Append(t, e)) = EventIds(t) \cup {i}
        /\ Rising(t) /\ Before(t, pending) => Rising(Append(t, e)) /\ Before(Append(t, e), pending')
  BY <1>1, <1>2, <1>3, <1>4, HeadToEnd
<1>same. Denied' = Denied /\ EventIds(fills') = EventIds(fills) /\ EventIds(queue') = EventIds(queue)
  BY <1>1 DEF Denied
<1> HIDE DEF i
<1>7. ASSUME NEW b \in {"still", "accepted", "refused"}, Moves(i, "pending", b), step' = "execute",
             /\ Rising(still') /\ Before(still', pending')
             /\ Rising(accepted') /\ Before(accepted', pending')
      PROVE  Life' /\ Healthy'
  <2>1. OnePlace(Places, nextOrder)'
    <3>1. OnePlace(Places', nextOrder)
      BY <1>7, OneMoves DEF Moves, PlaceNames, Life
    <3>2. QED
      BY <1>1, <3>1
  <2>2. InTurn'
    BY <1>1, <1>3, <1>5, <1>7 DEF InTurn
  <2>3. EmptyQueues'
    BY <1>1, <1>7 DEF EmptyQueues, Life
  <2>4. IdsRemembered'
    <3>1. EventIds(pending)' \cup EventIds(still)' \cup EventIds(accepted)' \subseteq seen
      BY <1>1, <1>5, <1>7, PlacesAre, PlacesWillBe DEF Moves, PlaceNames, Life, IdsRemembered
    <3>2. QED
      BY <1>1, <1>7, <3>1 DEF Life, IdsRemembered
  <2>5. QED
    BY <1>7, <2>1, <2>2, <2>3, <2>4 DEF Life, Healthy
<1>8. CASE step' = "execute" /\ still' = Append(still, o) /\ accepted' = accepted /\ refused' = refused
  <2>1. Moves(i, "pending", "still")
    <3>1. EventIds(still') = EventIds(still) \cup {i}
      BY <1>6, <1>8
    <3>2. QED
      BY <1>5, <1>same, <1>8, <3>1, PlacesAre, PlacesWillBe DEF Moves, PlaceNames
  <2>2. /\ Rising(still') /\ Before(still', pending')
        /\ Rising(accepted') /\ Before(accepted', pending')
    BY <1>3, <1>5, <1>6, <1>8
  <2>3. QED
    BY <1>1, <1>5, <1>7, <1>8, <2>1, <2>2 DEF i, o
<1>9. CASE step' = "execute" /\ still' = still /\ accepted' = Append(accepted, fill) /\ refused' = refused
  <2>1. Moves(i, "pending", "accepted")
    <3>1. EventIds(accepted') = EventIds(accepted) \cup {i}
      BY <1>6, <1>9
    <3>2. QED
      BY <1>5, <1>same, <1>9, <3>1, PlacesAre, PlacesWillBe DEF Moves, PlaceNames
  <2>2. /\ Rising(still') /\ Before(still', pending')
        /\ Rising(accepted') /\ Before(accepted', pending')
    BY <1>3, <1>5, <1>6, <1>9
  <2>3. QED
    BY <1>1, <1>5, <1>7, <1>9, <2>1, <2>2 DEF i, o
<1>10. CASE step' = "execute" /\ still' = still /\ accepted' = accepted /\ refused' = Append(refused, o)
  <2>1. Moves(i, "pending", "refused")
    <3>1. EventIds(refused') = EventIds(refused) \cup {i}
      BY <1>6, <1>10
    <3>2. QED
      BY <1>5, <1>same, <1>10, <3>1, PlacesAre, PlacesWillBe DEF Moves, PlaceNames
  <2>2. /\ Rising(still') /\ Before(still', pending')
        /\ Rising(accepted') /\ Before(accepted', pending')
    BY <1>3, <1>5, <1>6, <1>10
  <2>3. QED
    BY <1>1, <1>5, <1>7, <1>10, <2>1, <2>2 DEF i, o
<1>11. CASE still' = still /\ accepted' = accepted /\ refused' = refused /\ Raise("ValueError")
  <2>1. ~Healthy'
    BY <1>11, RaiseKeepsTypes DEF Healthy
  <2>2. \A p \in PlaceNames : Places'[p] = IF p = "pending" THEN Places[p] \ {i} ELSE Places[p]
    BY <1>5, <1>same, <1>11, PlacesAre, PlacesWillBe DEF PlaceNames
  <2>3. QED
    BY <1>1, <1>5, <2>1, <2>2 DEF i, o
<1>12. QED
  BY <1>1, <1>8, <1>9, <1>10, <1>11

\* What was held waits again, what was accepted is queued.
LEMMA LifeInEndExecution ==
  ASSUME TypeInvariant, Life, EndExecution
  PROVE  /\ Life' /\ Healthy' /\ nextOrder' = nextOrder /\ step = "execute" /\ step' = "apply"
         /\ \A p \in PlaceNames :
              Places'[p] = IF p = "pending" THEN Places["still"]
                           ELSE IF p = "queued" THEN Places["accepted"]
                           ELSE IF p = "still" \/ p = "accepted" THEN {} ELSE Places[p]
         /\ Places["pending"] = {} /\ Places["queued"] = {}
<1>1. /\ UNCHANGED <<job, cursor, portfolio, nextOrder, signals, orders, fills, outcomes, refused>>
      /\ step = "execute" /\ step' = "apply" /\ pending = <<>> /\ seen' = seen
      /\ queue' = accepted /\ pending' = still /\ still' = <<>> /\ accepted' = <<>>
      /\ rejected' = rejected \o [i \in DOMAIN NewlyRefused |-> Refusal(NewlyRefused[i])]
  BY DEF EndExecution, FinishExecution
<1>2. refused \in Seq(Orders) /\ rejected \in Seq(Rejections)
  BY DEF TypeInvariant, ListsOK
<1>3. Denied' = Denied
  <2> DEFINE late == [i \in DOMAIN NewlyRefused |-> Refusal(NewlyRefused[i])]
  <2>1. NewlyRefused \in Seq(Orders)
    BY <1>2, NewlyRefusedType
  <2>2. \A o \in Orders : Refusal(o) \in Rejections /\ Refusal(o).late
    BY <1>1, MarketIsABar DEF Refusal, Rejections, Reasons, InBar
  <2>3. late \in Seq(Rejections) /\ \A i \in DOMAIN late : late[i].late
    <3>1. Len(NewlyRefused) \in Nat /\ DOMAIN NewlyRefused = 1 .. Len(NewlyRefused)
      BY <2>1
    <3>2. \A i \in 1 .. Len(NewlyRefused) :
            Refusal(NewlyRefused[i]) \in Rejections /\ Refusal(NewlyRefused[i]).late
      BY <2>1, <2>2
    <3>3. late = [i \in 1 .. Len(NewlyRefused) |-> Refusal(NewlyRefused[i])]
      BY <3>1
    <3> HIDE DEF late
    <3>4. QED
      BY <3>1, <3>2, <3>3
  <2> HIDE DEF late
  <2>4. rejected' = rejected \o late
    BY <1>1 DEF late
  <2>5. QED
    BY <1>2, <2>3, <2>4, DeniedByLate
<1>4. queue = <<>>
  BY <1>1 DEF Life, EmptyQueues
<1>5. Places["pending"] = {} /\ Places["queued"] = {}
  BY <1>1, <1>4, PlacesAre, IdsOfNothing
<1>6. \A p \in PlaceNames :
        Places'[p] = IF p = "pending" THEN Places["still"]
                     ELSE IF p = "queued" THEN Places["accepted"]
                     ELSE IF p = "still" \/ p = "accepted" THEN {} ELSE Places[p]
  BY <1>1, <1>3, PlacesAre, PlacesWillBe, IdsOfNothing DEF PlaceNames
<1>7. OnePlace(Places, nextOrder)'
  <2> DEFINE P == Places
             Q == Places'
             n == nextOrder
  <2>1. /\ OnePlace(P, n) /\ P["pending"] = {} /\ P["queued"] = {}
        /\ \A p \in PlaceNames :
             Q[p] = IF p = "pending" THEN P["still"]
                    ELSE IF p = "queued" THEN P["accepted"]
                    ELSE IF p = "still" \/ p = "accepted" THEN {} ELSE P[p]
    BY <1>5, <1>6 DEF Life
  <2> HIDE DEF P, Q, n
  <2>2. \A p \in PlaceNames : \A j \in Q[p] : j \in 1 .. n - 1
    BY <2>1 DEF OnePlace, PlaceNames
  <2>3. ASSUME NEW j \in 1 .. n - 1 PROVE \E p \in PlaceNames : j \in Q[p]
    <3>1. PICK p \in PlaceNames : j \in P[p]
      BY <2>1 DEF OnePlace
    <3>2. QED
      BY <2>1, <3>1 DEF PlaceNames
  <2>4. \A p, q \in PlaceNames : p # q => Q[p] \cap Q[q] = {}
    <3>1. \A c, d \in PlaceNames : c # d => P[c] \cap P[d] = {}
      BY <2>1 DEF OnePlace
    <3>2. QED
      BY <2>1, <3>1 DEF PlaceNames
  <2>5. OnePlace(Q, n)
    BY <2>2, <2>3, <2>4 DEF OnePlace
  <2>6. QED
    BY <1>1, <2>5 DEF Q, n
<1>8. EmptyQueues' /\ InTurn' /\ IdsRemembered'
  <2>1. EmptyQueues'
    BY <1>1 DEF EmptyQueues
  <2>2. Rising(<<>>)
    BY DEF Rising
  <2>3. InTurn'
    BY <1>1, <2>2 DEF Life, InTurn
  <2>4. IdsRemembered'
    BY <1>1, IdsOfNothing DEF Life, IdsRemembered
  <2>5. QED
    BY <2>1, <2>3, <2>4
<1>9. QED
  BY <1>1, <1>5, <1>6, <1>7, <1>8 DEF Life, Healthy

\* The first fill of the queue is applied; an exception loses what is left of it.
LEMMA LifeInApplyNext ==
  ASSUME TypeInvariant, Life, ApplyNext
  PROVE  LET i == Head(queue).id IN
         /\ i \in EventIds(queue) /\ nextOrder' = nextOrder /\ step = "apply"
         /\ i \in seen /\ seen' = seen /\ \A j \in EventIds(queue) : i <= j
         /\ \/ /\ Life' /\ Healthy' /\ step' = "apply" /\ Moves(i, "queued", "filled")
               /\ portfolio'.applied = portfolio.applied \cup {i}
            \/ /\ ~Healthy' /\ step' = "idle" /\ portfolio' = portfolio
               /\ \A p \in PlaceNames : p # "queued" => Places'[p] = Places[p]
<1> DEFINE fill == Head(queue)
           i == fill.id
<1>1. /\ UNCHANGED <<job, cursor, nextOrder, signals, orders, rejected, simulatorVars>>
      /\ step = "apply" /\ queue # <<>> /\ queue' = Tail(queue)
      /\ \/ /\ portfolio' = ProcessFill(portfolio, fill) /\ fills' = Append(fills, fill)
            /\ step' = step /\ outcomes' = outcomes
         \/ /\ Raise(FillError(portfolio, fill))
            /\ portfolio' = portfolio /\ fills' = fills
  BY Zenon DEF ApplyNext
<1>2. queue \in Seq(Fills) /\ fill \in Fills /\ queue \in Seq(Events) /\ fills \in Seq(Events)
  <2>1. queue \in Seq(Fills)
    BY <1>1 DEF TypeInvariant, StepOK
  <2>2. fill \in Fills
    BY <1>1, <2>1
  <2>3. QED
    BY <2>1, <2>2, ListsAreEvents DEF TypeInvariant
<1>3. Rising(queue) /\ IsOrder(fill) /\ fill \in Events /\ fill = Head(queue)
  BY <1>2, EventKinds DEF Life, InTurn, Events
<1> HIDE DEF fill
<1>4. /\ i \in EventIds(queue) /\ EventIds(queue') = EventIds(queue) \ {i} /\ Rising(queue')
      /\ EventIds(Append(fills, fill)) = EventIds(fills) \cup {i}
  BY <1>1, <1>2, <1>3, HeadToEnd
<1>5. \A j \in EventIds(queue) : i <= j
  <2>1. EventIds(queue) \subseteq Nat
    BY <1>2, IdsAreNumbers
  <2>2. \A j \in EventIds(Tail(queue)) : i < j
    BY <1>1, <1>2, <1>3, <2>1, IdsOfTail
  <2>3. QED
    BY <1>1, <1>4, <2>1, <2>2
<1> HIDE DEF i
<1>6. i \in seen /\ EventIds(queue) \subseteq seen
  BY <1>1, <1>4 DEF Life, IdsRemembered
<1>7. /\ Denied' = Denied /\ EventIds(pending') = EventIds(pending) /\ EventIds(still') = EventIds(still)
      /\ EventIds(accepted') = EventIds(accepted) /\ EventIds(refused') = EventIds(refused)
  BY <1>1 DEF Denied, simulatorVars
<1>8. CASE /\ portfolio' = ProcessFill(portfolio, fill) /\ fills' = Append(fills, fill)
           /\ step' = step /\ outcomes' = outcomes
  <2>1. Moves(i, "queued", "filled")
    BY <1>4, <1>7, <1>8, PlacesAre, PlacesWillBe DEF Moves, PlaceNames
  <2>2. OnePlace(Places, nextOrder)'
    <3>1. OnePlace(Places', nextOrder)
      BY <2>1, OneMoves DEF Moves, PlaceNames, Life
    <3>2. QED
      BY <1>1, <3>1
  <2>3. EmptyQueues'
    BY <1>1, <1>8 DEF Life, EmptyQueues, simulatorVars
  <2>4. InTurn'
    BY <1>1, <1>4, <1>8 DEF Life, InTurn, simulatorVars
  <2>5. portfolio'.applied = portfolio.applied \cup {i}
    BY <1>2, <1>8, FillKeepsAccount DEF TypeInvariant, i
  <2>6. IdsRemembered'
    BY <1>1, <1>4, <1>6, <1>7, <1>8, <2>5 DEF Life, IdsRemembered, simulatorVars
  <2>7. QED
    BY <1>1, <1>4, <1>5, <1>6, <1>8, <2>1, <2>2, <2>3, <2>4, <2>5, <2>6
    DEF Life, Healthy, i, fill, simulatorVars
<1>9. CASE /\ Raise(FillError(portfolio, fill)) /\ portfolio' = portfolio /\ fills' = fills
  <2>1. ~Healthy' /\ step' = "idle"
    BY <1>9, RaiseKeepsTypes DEF Healthy
  <2>2. \A p \in PlaceNames : p # "queued" => Places'[p] = Places[p]
    BY <1>7, <1>9, PlacesAre, PlacesWillBe DEF PlaceNames
  <2>3. QED
    BY <1>1, <1>4, <1>5, <1>6, <1>9, <2>1, <2>2 DEF i, fill, simulatorVars
<1>10. QED
  BY <1>1, <1>8, <1>9

\* A signal becomes at most one order, which is the last of the queue.
LEMMA LifeInTakeSignal ==
  ASSUME TypeInvariant, Life, TakeSignal, seen \subseteq 1 .. nextOrder - 1
  PROVE  /\ Life' /\ Healthy' /\ step = "decide" /\ step' = "decide"
         /\ \/ nextOrder' = nextOrder /\ \A p \in PlaceNames : Places'[p] = Places[p]
            \/ /\ nextOrder' = nextOrder + 1
               /\ \A p \in PlaceNames :
                    Places'[p] = IF p = "queued" THEN Places[p] \cup {nextOrder} ELSE Places[p]
<1> DEFINE s == Head(queue)
           t == Tail(queue)
<1>1. TakeSignalFacts
  BY TakeSignalMeans
<1>2. /\ UNCHANGED <<step, portfolio, fills, rejected, pending, seen, refused, still, accepted>>
      /\ step = "decide" /\ queue # <<>> /\ s \in Signals /\ t \in Seq(Signals \cup Orders)
      /\ queue \in Seq(Events) /\ nextOrder \in Nat \ {0}
  BY <1>1, ListsAreEvents DEF TakeSignalFacts, simulatorVars, TypeInvariant, StepOK
<1>3. /\ Rising(queue) /\ Before(pending, queue) /\ seen \cap EventIds(queue) = {}
      /\ EventIds(queue) \subseteq 1 .. nextOrder - 1 /\ EventIds(pending) \subseteq 1 .. nextOrder - 1
  BY <1>2, PlacesAre DEF Life, InTurn, IdsRemembered, OnePlace, PlaceNames
<1>4. Rising(t) /\ EventIds(t) = EventIds(queue) /\ t \in Seq(Events)
  <2>1. EventIds(queue) \subseteq Nat /\ ~IsOrder(s)
    BY <1>2, IdsAreNumbers, EventKinds
  <2>2. t \in Seq(Events)
    BY <1>2
  <2>3. QED
    BY <1>2, <1>3, <2>1, <2>2, IdsOfTail
<1> HIDE DEF s, t
<1>5. /\ Denied' = Denied /\ EventIds(pending') = EventIds(pending) /\ EventIds(still') = EventIds(still)
      /\ EventIds(accepted') = EventIds(accepted) /\ EventIds(refused') = EventIds(refused)
      /\ EventIds(fills') = EventIds(fills)
  BY <1>2 DEF Denied
<1>6. CASE queue' = t /\ nextOrder' = nextOrder
  <2>1. \A p \in PlaceNames : Places'[p] = Places[p]
    BY <1>4, <1>5, <1>6, PlacesAre, PlacesWillBe DEF PlaceNames
  <2>2. OnePlace(Places, nextOrder)'
    BY <1>6, <2>1 DEF Life, OnePlace
  <2>3. EmptyQueues' /\ InTurn' /\ IdsRemembered'
    BY <1>2, <1>3, <1>4, <1>6 DEF Life, EmptyQueues, InTurn, IdsRemembered, Before
  <2>4. QED
    BY <1>2, <1>6, <2>1, <2>2, <2>3 DEF Life, Healthy
<1>7. ASSUME NEW o \in Orders, queue' = Append(t, o), nextOrder' = nextOrder + 1, o.id = nextOrder
      PROVE  /\ Life'
             /\ \A p \in PlaceNames :
                  Places'[p] = IF p = "queued" THEN Places[p] \cup {nextOrder} ELSE Places[p]
  <2>1. o \in Events /\ IsOrder(o)
    BY EventKinds DEF Events
  <2>2. EventIds(queue') = EventIds(queue) \cup {nextOrder}
    BY <1>4, <1>7, <2>1, IdsOfAppend
  <2>3. \A i \in EventIds(queue) \cup EventIds(pending) : i < nextOrder
    BY <1>2, <1>3
  <2>4. Rising(queue')
    BY <1>4, <1>7, <2>1, <2>3, RisingAppend
  <2>5. \A p \in PlaceNames :
          Places'[p] = IF p = "queued" THEN Places[p] \cup {nextOrder} ELSE Places[p]
    BY <1>5, <2>2, PlacesAre, PlacesWillBe DEF PlaceNames
  <2>6. OnePlace(Places, nextOrder)'
    <3> DEFINE P == Places
               Q == Places'
               n == nextOrder
    <3>1. /\ OnePlace(P, n) /\ n \in Nat \ {0}
          /\ \A p \in PlaceNames : Q[p] = IF p = "queued" THEN P[p] \cup {n} ELSE P[p]
      BY <1>2, <2>5 DEF Life
    <3> HIDE DEF P, Q, n
    <3>2. 1 .. (n + 1) - 1 = (1 .. n - 1) \cup {n} /\ n \notin 1 .. n - 1
      BY <3>1
    <3>3. \A p \in PlaceNames : Q[p] \subseteq 1 .. (n + 1) - 1
      BY <3>1, <3>2 DEF OnePlace
    <3>4. ASSUME NEW i \in 1 .. (n + 1) - 1 PROVE \E p \in PlaceNames : i \in Q[p]
      <4>1. CASE i = n
        BY <3>1, <4>1 DEF PlaceNames
      <4>2. CASE i # n
        <5>1. PICK p \in PlaceNames : i \in P[p]
          BY <3>1, <3>2, <4>2 DEF OnePlace
        <5>2. QED
          BY <3>1, <5>1
      <4>3. QED
        BY <4>1, <4>2
    <3>5. \A p \in PlaceNames : n \notin P[p]
      BY <3>1, <3>2 DEF OnePlace
    <3>6. \A p, q \in PlaceNames : p # q => P[p] \cap P[q] = {}
      BY <3>1 DEF OnePlace
    <3>7. \A p, q \in PlaceNames : p # q => Q[p] \cap Q[q] = {}
      BY <3>1, <3>5, <3>6
    <3>8. OnePlace(Q, n + 1)
      BY <3>3, <3>4, <3>7 DEF OnePlace
    <3>9. QED
      BY <1>7, <3>8 DEF Q, n
  <2>7. EmptyQueues'
    BY <1>2 DEF Life, EmptyQueues
  <2>8. InTurn'
    BY <1>2, <1>3, <1>5, <2>2, <2>3, <2>4 DEF Life, InTurn, Before
  <2>9. seen' \cap EventIds(queue') = {}
    BY <1>2, <1>3, <2>2
  <2>10. IdsRemembered'
    BY <1>2, <1>5, <2>9 DEF Life, IdsRemembered
  <2>11. QED
    BY <2>5, <2>6, <2>7, <2>8, <2>10 DEF Life
<1>8. QED
  BY <1>1, <1>2, <1>6, <1>7, Zenon DEF TakeSignalFacts, Healthy, s, t

\* The order at the head of the queue is denied or submitted, and its id is always new.
LEMMA LifeInTakeOrder ==
  ASSUME TypeInvariant, Life, TakeOrder
  PROVE  LET i == Head(queue).id IN
         /\ Life' /\ Healthy' /\ step = "decide" /\ step' = "decide" /\ nextOrder' = nextOrder
         /\ i \in EventIds(queue) /\ \A j \in EventIds(queue) : i <= j
         /\ \/ Moves(i, "queued", "denied") /\ seen' = seen
            \/ Moves(i, "queued", "pending") /\ seen' = seen \cup {i} /\ Submit(Head(queue))
<1> DEFINE o == Head(queue)
           i == o.id
           entry(reason) == [order |-> o, timestamp |-> Market.timestamp, reason |-> reason, late |-> FALSE]
<1>1. TakeOrderFacts
  BY TakeOrderMeans
<1>2. /\ UNCHANGED <<portfolio, nextOrder, fills>>
      /\ step = "decide" /\ queue # <<>> /\ o \in Orders /\ queue' = Tail(queue)
      /\ queue \in Seq(Events) /\ pending \in Seq(Events) /\ rejected \in Seq(Rejections)
      /\ Market.timestamp \in Nat
  BY <1>1, ListsAreEvents, MarketIsABar DEF TakeOrderFacts, TypeInvariant, ListsOK, InBar
<1>3. /\ Rising(queue) /\ Rising(pending) /\ Before(pending, queue)
      /\ seen \cap EventIds(queue) = {} /\ IsOrder(o) /\ o \in Events
  BY <1>2, EventKinds DEF Life, InTurn, IdsRemembered, Events
<1>4. /\ i \in EventIds(queue) /\ EventIds(queue') = EventIds(queue) \ {i} /\ Rising(queue')
      /\ EventIds(Append(pending, o)) = EventIds(pending) \cup {i}
      /\ Rising(Append(pending, o)) /\ Before(Append(pending, o), queue')
      /\ Before(pending, queue')
  BY <1>2, <1>3, HeadToEnd
<1>5. \A j \in EventIds(queue) : i <= j
  <2>1. EventIds(queue) \subseteq Nat
    BY <1>2, IdsAreNumbers
  <2>2. \A j \in EventIds(Tail(queue)) : i < j
    BY <1>2, <1>3, <2>1, IdsOfTail
  <2>3. QED
    BY <1>2, <1>4, <2>1, <2>2
<1>6. \/ (\E reason \in Reasons : rejected' = Append(rejected, entry(reason)))
         /\ UNCHANGED <<pending, seen, refused, still, accepted, step, outcomes>>
      \/ Submit(o) /\ UNCHANGED <<rejected, step, outcomes>>
  <2>1. i \notin seen
    BY <1>3, <1>4
  <2>2. QED
    BY <1>1, <2>1, Zenon DEF TakeOrderFacts, simulatorVars
<1>7. ASSUME NEW b \in {"denied", "pending"}, Moves(i, "queued", b), UNCHANGED <<step, refused, still, accepted>>,
             Rising(pending'), Before(pending', queue'),
             EventIds(pending') \subseteq seen', seen \subseteq seen', seen' \subseteq seen \cup {i}
      PROVE  Life' /\ Healthy'
  <2>1. OnePlace(Places, nextOrder)'
    <3>1. OnePlace(Places', nextOrder)
      BY <1>7, OneMoves DEF Moves, PlaceNames, Life
    <3>2. QED
      BY <1>2, <3>1
  <2>2. EmptyQueues' /\ InTurn'
    BY <1>2, <1>4, <1>7 DEF Life, EmptyQueues, InTurn
  <2>3. IdsRemembered'
    <3> HIDE DEF i
    <3>1. seen' \cap EventIds(queue') = {}
      BY <1>3, <1>4, <1>7
    <3>2. EventIds(still') \cup EventIds(accepted') \subseteq seen'
      BY <1>7 DEF Life, IdsRemembered
    <3>3. QED
      BY <1>2, <1>7, <3>1, <3>2 DEF Life, IdsRemembered
  <2>4. QED
    BY <1>2, <1>7, <2>1, <2>2, <2>3 DEF Life, Healthy
<1>8. ASSUME NEW reason \in Reasons, rejected' = Append(rejected, entry(reason)),
             UNCHANGED <<pending, seen, refused, still, accepted, step, outcomes>>
      PROVE  Life' /\ Healthy' /\ Moves(i, "queued", "denied") /\ seen' = seen
  <2>1. entry(reason) \in Rejections /\ ~entry(reason).late /\ entry(reason).order.id = i
    BY <1>2 DEF Rejections
  <2> HIDE DEF entry
  <2>2. Denied' = Denied \cup {i}
    BY <1>2, <1>8, <2>1, DeniedByAppend
  <2> HIDE DEF i
  <2>3. Moves(i, "queued", "denied")
    BY <1>2, <1>4, <1>8, <2>2, PlacesAre, PlacesWillBe DEF Moves, PlaceNames
  <2>4. EventIds(pending') \subseteq seen' /\ Rising(pending') /\ Before(pending', queue')
    BY <1>3, <1>4, <1>8 DEF Life, IdsRemembered
  <2>5. QED
    BY <1>7, <1>8, <2>3, <2>4 DEF i
<1>9. ASSUME Submit(o), UNCHANGED <<rejected, step, outcomes>>
      PROVE  Life' /\ Healthy' /\ Moves(i, "queued", "pending") /\ seen' = seen \cup {i}
  <2>1. pending' = Append(pending, o) /\ seen' = seen \cup {i} /\ UNCHANGED <<refused, still, accepted>>
    BY <1>9 DEF Submit
  <2> HIDE DEF i
  <2>2. Denied' = Denied
    BY <1>9 DEF Denied
  <2>3. Moves(i, "queued", "pending")
    BY <1>2, <1>4, <2>1, <2>2, PlacesAre, PlacesWillBe DEF Moves, PlaceNames
  <2>4. EventIds(pending') \subseteq seen' /\ Rising(pending') /\ Before(pending', queue')
    BY <1>4, <2>1 DEF Life, IdsRemembered
  <2>5. QED
    BY <1>7, <1>9, <2>1, <2>3, <2>4 DEF i
<1>10. QED
  BY <1>2, <1>4, <1>5, <1>6, <1>8, <1>9

\* A run starts with nothing.
LEMMA LifeInStartRun ==
  ASSUME StartRun
  PROVE  /\ Life' /\ nextOrder' = 1 /\ seen' = {} /\ portfolio'.applied = {} /\ step' = "warmup"
         /\ \A p \in PlaceNames : Places'[p] = {}
<1>1. /\ step' = "warmup" /\ nextOrder' = 1 /\ portfolio'.applied = {} /\ seen' = {}
      /\ queue' = <<>> /\ fills' = <<>> /\ rejected' = <<>>
      /\ pending' = <<>> /\ still' = <<>> /\ accepted' = <<>> /\ refused' = <<>>
  BY DEF StartRun, ResetParts, ResetSimulator, NewPortfolio
<1>2. Denied' = {}
  BY <1>1 DEF Denied
<1>3. \A p \in PlaceNames : Places'[p] = {}
  BY <1>1, <1>2, IdsOfNothing, PlacesWillBe DEF PlaceNames
<1>4. OnePlace(Places, nextOrder)'
  <2>1. OnePlace(Places', 1)
    BY <1>3 DEF OnePlace
  <2>2. QED
    BY <1>1, <2>1
<1>5. EmptyQueues' /\ IdsRemembered'
  BY <1>1, IdsOfNothing DEF EmptyQueues, IdsRemembered
<1>6. InTurn'
  <2>1. Rising(<<>>)
    BY DEF Rising
  <2>2. QED
    BY <1>1, <2>1 DEF InTurn
<1>7. QED
  BY <1>1, <1>3, <1>4, <1>5, <1>6 DEF Life

\* The steps that move no order.
Quiet == WarmUp \/ BeginEvaluation \/ NextBar \/ MarkBar \/ CallStrategy \/ EndBar \/ FinishRun

\* They leave every order where it is.
LEMMA LifeInQuietSteps ==
  ASSUME TypeInvariant, Life, Quiet
  PROVE  /\ nextOrder' = nextOrder /\ seen' = seen /\ portfolio'.applied = portfolio.applied
         /\ \A p \in PlaceNames : Places'[p] = Places[p]
         /\ Places["queued"] = {}
         /\ Healthy' => Life'
<1>1. /\ UNCHANGED <<nextOrder, fills, rejected, pending, seen, refused, still, accepted>>
      /\ portfolio'.applied = portfolio.applied
      /\ EventIds(queue) = {} /\ EventIds(queue') = {} /\ Rising(queue')
      /\ step' \notin {"decide"} => queue' = <<>>
      /\ step' # "execute" \/ step = "bar"
      /\ step # "execute" /\ step' # "apply"
  <2>1. Rising(<<>>) /\ EventIds(<<>>) = {}
    BY IdsOfNothing DEF Rising
  <2>2. step \notin {"apply", "decide"} => queue = <<>>
    BY DEF Life, EmptyQueues
  <2>3. \A error : Raise(error) => step' = "idle"
    BY DEF Raise
  <2>4. CASE WarmUp
    BY <2>1, <2>2, <2>3, <2>4, Zenon DEF WarmUp, simulatorVars
  <2>5. CASE BeginEvaluation
    BY <2>1, <2>2, <2>3, <2>5, Zenon DEF BeginEvaluation, simulatorVars
  <2>6. CASE NextBar
    BY <2>1, <2>2, <2>6 DEF NextBar, simulatorVars
  <2>7. CASE MarkBar
    <3>1. portfolio'.applied = portfolio.applied
      BY <2>7, MarketIsABar, MarkKeepsAccount DEF MarkBar, TypeInvariant, InBar
    <3>2. QED
      BY <2>1, <2>7, <3>1 DEF MarkBar, simulatorVars
  <2>8. CASE CallStrategy
    <3>1. CallStrategyFacts
      BY <2>8, CallStrategyMeans
    <3>2. \A i \in DOMAIN Answer.signals : ~IsOrder(Answer.signals[i])
      BY <3>1, EventKinds DEF CallStrategyFacts
    <3>3. EventIds(Answer.signals) = {} /\ Rising(Answer.signals)
      BY <3>2 DEF EventIds, Rising
    <3>4. queue = <<>>
      BY <2>2, <3>1 DEF CallStrategyFacts
    <3>5. QED
      BY <2>1, <2>3, <3>1, <3>3, <3>4 DEF CallStrategyFacts, simulatorVars
  <2>9. CASE EndBar
    BY <2>1, <2>9 DEF EndBar, simulatorVars
  <2>10. CASE FinishRun
    <3>1. step' = "idle"
      BY <2>3, <2>10, Zenon DEF FinishRun
    <3>2. QED
      BY <2>1, <2>2, <2>10, <3>1 DEF FinishRun, simulatorVars
  <2>11. QED
    BY <2>4, <2>5, <2>6, <2>7, <2>8, <2>9, <2>10 DEF Quiet
<1>2. Denied' = Denied
  BY <1>1 DEF Denied
<1>3. \A p \in PlaceNames : Places'[p] = Places[p]
  BY <1>1, <1>2, PlacesAre, PlacesWillBe DEF PlaceNames
<1>4. Life'
  <2>1. OnePlace(Places, nextOrder)'
    <3>1. OnePlace(Places', nextOrder)
      BY <1>3 DEF Life, OnePlace
    <3>2. QED
      BY <1>1, <3>1
  <2>2. EmptyQueues'
    <3>1. still = <<>> /\ accepted = <<>>
      BY <1>1 DEF Life, EmptyQueues
    <3>2. QED
      BY <1>1, <3>1 DEF EmptyQueues
  <2>3. InTurn'
    <3>1. still = <<>> /\ accepted = <<>>
      BY <1>1 DEF Life, EmptyQueues
    <3>2. Before(still', pending') /\ Before(accepted', pending') /\ Before(pending', queue')
      BY <1>1, <3>1, IdsOfNothing DEF Before
    <3>3. QED
      BY <1>1, <3>2 DEF Life, InTurn
  <2>4. IdsRemembered'
    BY <1>1 DEF Life, IdsRemembered
  <2>5. QED
    BY <2>1, <2>2, <2>3, <2>4 DEF Life
<1>5. QED
  BY <1>1, <1>3, <1>4, PlacesAre

\* Before the first run there is nothing to say of orders.
LEMMA LifeInitially == Init => LifeInvariant
<1> SUFFICES ASSUME Init PROVE LifeInvariant
  OBVIOUS
<1>1. ~Healthy
  BY DEF Init, Healthy
<1>2. seen = {} /\ portfolio.applied = {}
  BY DEF Init, SimulatorInit, NewPortfolio
<1>3. QED
  BY <1>1, <1>2 DEF LifeInvariant

\* Every step keeps the orders in their places.
LEMMA LifeIsKept ==
  ASSUME TypeInvariant, LifeInvariant, [Next]_vars
  PROVE  LifeInvariant'
<1>1. seen \subseteq 1 .. nextOrder - 1 /\ portfolio.applied \subseteq seen /\ nextOrder \in Nat \ {0}
  BY DEF LifeInvariant, TypeInvariant, StepOK
<1>2. step # "idle" => Life
  BY DEF LifeInvariant, Healthy
<1>3. CASE UNCHANGED vars
  <2>1. Places' = Places
    BY <1>3 DEF Places, Denied, vars, runVars, simulatorVars
  <2>2. (Life <=> Life') /\ (Healthy <=> Healthy')
    BY <1>3, <2>1
       DEF Life, EmptyQueues, InTurn, IdsRemembered, Healthy, vars, runVars, simulatorVars
  <2>3. QED
    BY <1>3, <2>2 DEF LifeInvariant, vars, runVars, simulatorVars
<1>4. CASE StartRun
  BY <1>4, LifeInStartRun DEF LifeInvariant
<1>5. CASE Quiet
  <2>1. Life
    BY <1>2, <1>5
       DEF Quiet, WarmUp, BeginEvaluation, NextBar, MarkBar, CallStrategy, EndBar, FinishRun
  <2>2. QED
    BY <1>1, <1>5, <2>1, LifeInQuietSteps DEF LifeInvariant
<1>6. CASE ExecuteOrder
  <2>1. Life
    BY <1>2, <1>6 DEF ExecuteOrder
  <2>2. nextOrder' = nextOrder /\ (Healthy' => Life')
    BY <1>6, <2>1, LifeInExecuteOrder
  <2>3. seen' = seen /\ portfolio' = portfolio
    BY <1>6, Zenon DEF ExecuteOrder, Hold, Match, PriceFails
  <2>4. QED
    BY <1>1, <2>2, <2>3 DEF LifeInvariant
<1>7. CASE EndExecution
  <2>1. Life
    BY <1>2, <1>7 DEF EndExecution
  <2>2. nextOrder' = nextOrder /\ Life'
    BY <1>7, <2>1, LifeInEndExecution
  <2>3. seen' = seen /\ portfolio' = portfolio
    BY <1>7 DEF EndExecution, FinishExecution
  <2>4. QED
    BY <1>1, <2>2, <2>3 DEF LifeInvariant
<1>8. CASE ApplyNext
  <2>1. Life
    BY <1>2, <1>8 DEF ApplyNext
  <2>2. /\ nextOrder' = nextOrder /\ (Healthy' => Life') /\ seen' = seen /\ Head(queue).id \in seen
        /\ \/ portfolio'.applied = portfolio.applied
           \/ portfolio'.applied = portfolio.applied \cup {Head(queue).id}
    BY <1>8, <2>1, LifeInApplyNext
  <2>3. QED
    BY <1>1, <2>2 DEF LifeInvariant
<1>9. CASE TakeSignal
  <2>1. Life
    BY <1>2, <1>9 DEF TakeSignal
  <2>2. Life' /\ (nextOrder' = nextOrder \/ nextOrder' = nextOrder + 1)
    BY <1>1, <1>9, <2>1, LifeInTakeSignal
  <2>3. seen' = seen /\ portfolio' = portfolio
    BY <1>9 DEF TakeSignal, simulatorVars
  <2>4. seen' \subseteq 1 .. nextOrder' - 1
    BY <1>1, <2>2, <2>3
  <2>5. QED
    BY <1>1, <2>2, <2>3, <2>4 DEF LifeInvariant
<1>10. CASE TakeOrder
  <2>1. Life
    BY <1>2, <1>10 DEF TakeOrder
  <2>2. /\ Life' /\ nextOrder' = nextOrder /\ Head(queue).id \in EventIds(queue)
        /\ \/ seen' = seen
           \/ seen' = seen \cup {Head(queue).id}
    BY <1>10, <2>1, LifeInTakeOrder
  <2>3. EventIds(queue) \subseteq 1 .. nextOrder - 1
    BY <2>1, PlacesAre DEF Life, OnePlace, PlaceNames
  <2>4. portfolio' = portfolio
    BY <1>10 DEF TakeOrder
  <2>5. QED
    BY <1>1, <2>2, <2>3, <2>4 DEF LifeInvariant
<1>11. QED
  BY <1>3, <1>4, <1>5, <1>6, <1>7, <1>8, <1>9, <1>10 DEF Next, RunStep, Execute, Decide, Quiet
-----------------------------------------------------------------------------
\* The engine's state has the shape its classes declare in every run.
THEOREM EngineIsTyped == Spec => []EngineTypeOK
<1>1. Init => TypeInvariant /\ LifeInvariant
  BY TypeInitially, LifeInitially
<1>2. (TypeInvariant /\ LifeInvariant) /\ [Next]_vars => (TypeInvariant /\ LifeInvariant)'
  BY TypesAreKept, LifeIsKept
<1>3. TypeInvariant /\ LifeInvariant => EngineTypeOK
  <2> SUFFICES ASSUME TypeInvariant, LifeInvariant PROVE EngineTypeOK
    OBVIOUS
  <2>1. \A i \in DOMAIN rejected : rejected[i].order \in Orders /\ rejected[i].reason \in Reasons
    <3>1. \A i \in DOMAIN rejected : rejected[i] \in Rejections
      BY DEF TypeInvariant, ListsOK
    <3>2. QED
      BY <3>1 DEF Rejections
  <2>2. seen \subseteq 1 .. nextOrder /\ portfolio.applied \subseteq seen
    BY DEF LifeInvariant, TypeInvariant, StepOK
  <2>3. queue \in Seq(Signals \cup Orders \cup Fills)
    BY DEF TypeInvariant, ListsOK, Events
  <2>4. QED
    BY <2>1, <2>2, <2>3 DEF EngineTypeOK, TypeInvariant, ListsOK, StepOK, AccountOK
<1>4. QED
  BY <1>1, <1>2, <1>3, PTL DEF Spec

\* While a run is in progress, and when it has returned, every order it created is in
\* exactly one of the lists of the result, the queue and the simulator's queues.
THEOREM NoOrderGoesMissing == Spec => []NoOrderIsLost
<1>1. Init => TypeInvariant /\ LifeInvariant
  BY TypeInitially, LifeInitially
<1>2. (TypeInvariant /\ LifeInvariant) /\ [Next]_vars => (TypeInvariant /\ LifeInvariant)'
  BY TypesAreKept, LifeIsKept
<1>3. LifeInvariant => NoOrderIsLost
  <2> SUFFICES ASSUME Life, NEW i \in 1 .. nextOrder - 1
               PROVE  Cardinality({p \in DOMAIN Places : i \in Places[p]}) = 1
    BY DEF LifeInvariant, NoOrderIsLost, Healthy
  <2>1. DOMAIN Places = PlaceNames
    BY DEF Places, PlaceNames
  <2>2. PICK p \in PlaceNames : i \in Places[p]
    BY DEF Life, OnePlace
  <2>3. \A q \in PlaceNames : q # p => i \notin Places[q]
    BY <2>2 DEF Life, OnePlace
  <2>4. {q \in DOMAIN Places : i \in Places[q]} = {p}
    BY <2>1, <2>2, <2>3
  <2>5. QED
    BY <2>4, FS_Singleton
<1>4. QED
  BY <1>1, <1>2, <1>3, PTL DEF Spec
-----------------------------------------------------------------------------
(***************************************************************************)
(* The engine implements OrderOutcomes                                     *)
(***************************************************************************)
\* OutcomeOf, from the places, the step and the next number.
OutcomeIn(places, s, n, i) ==
  IF i \in places["filled"] THEN "filled"
  ELSE IF i \in places["refused"] THEN "refused"
  ELSE IF i \in places["denied"] THEN "rejected"
  ELSE IF i \in places["pending"] \/ i \in places["still"] THEN "waiting"
  ELSE IF i \in places["accepted"] \/ (s = "apply" /\ i \in places["queued"]) THEN "matched"
  ELSE IF s = "decide" /\ i \in places["queued"] THEN "created"
  ELSE IF i < n THEN "lost" ELSE "none"

\* OutcomeOf is OutcomeIn, in this state and in the next.
LEMMA OutcomesAreByPlace ==
  /\ ListsOK => \A i : OutcomeOf(i) = OutcomeIn(Places, step, nextOrder, i)
  /\ ListsOK' => \A i : OutcomeOf(i)' = OutcomeIn(Places', step', nextOrder', i)
<1>1. ASSUME ListsOK, NEW i PROVE OutcomeOf(i) = OutcomeIn(Places, step, nextOrder, i)
  <2>1. EventIds(pending \o still) = EventIds(pending) \cup EventIds(still)
    BY <1>1, ListsAreEvents, IdsOfConcat
  <2>2. QED
    BY <2>1, PlacesAre DEF OutcomeIn, OutcomeOf
<1>2. ASSUME ListsOK', NEW i PROVE OutcomeOf(i)' = OutcomeIn(Places', step', nextOrder', i)
  <2>1. pending' \in Seq(Events) /\ still' \in Seq(Events)
    BY <1>2 DEF ListsOK, Events
  <2>2. EventIds(pending' \o still') = EventIds(pending') \cup EventIds(still')
    BY <2>1, IdsOfConcat
  <2>3. QED
    BY <2>2, PlacesWillBe DEF OutcomeIn, OutcomeOf
<1>3. QED
  BY <1>1, <1>2

\* What an order is while it is in one place.
LEMMA OutcomesByPlace ==
  ASSUME NEW P, NEW s, NEW n \in Nat \ {0}, OnePlace(P, n),
         s \notin {"apply", "decide"} => P["queued"] = {}
  PROVE  /\ \A i : i \in P["filled"] => OutcomeIn(P, s, n, i) = "filled"
         /\ \A i : i \in P["refused"] => OutcomeIn(P, s, n, i) = "refused"
         /\ \A i : i \in P["denied"] => OutcomeIn(P, s, n, i) = "rejected"
         /\ \A i : i \in P["pending"] \cup P["still"] => OutcomeIn(P, s, n, i) = "waiting"
         /\ \A i : i \in P["accepted"] => OutcomeIn(P, s, n, i) = "matched"
         /\ \A i : i \in P["queued"] =>
              OutcomeIn(P, s, n, i) = IF s = "apply" THEN "matched" ELSE "created"
         /\ \A i \in Nat : i >= n => OutcomeIn(P, s, n, i) = "none"
         /\ \A i \in Nat \ {0} : OutcomeIn(P, s, n, i) # "lost" /\ (i < n => OutcomeIn(P, s, n, i) # "none")
<1>1. \A p, q \in PlaceNames : p # q => P[p] \cap P[q] = {}
  BY DEF OnePlace
<1>2. \A p \in PlaceNames : \A i \in P[p] : i \in Nat /\ i < n
  BY DEF OnePlace
<1>3. \A i \in Nat \ {0} : i < n => \E p \in PlaceNames : i \in P[p]
  BY DEF OnePlace
<1>4. ASSUME NEW i, i \in P["filled"] PROVE OutcomeIn(P, s, n, i) = "filled"
  BY <1>4 DEF OutcomeIn
<1>5. ASSUME NEW i, i \in P["refused"] PROVE OutcomeIn(P, s, n, i) = "refused"
  BY <1>1, <1>5 DEF OutcomeIn, PlaceNames
<1>6. ASSUME NEW i, i \in P["denied"] PROVE OutcomeIn(P, s, n, i) = "rejected"
  BY <1>1, <1>6 DEF OutcomeIn, PlaceNames
<1>7. ASSUME NEW i, i \in P["pending"] \cup P["still"] PROVE OutcomeIn(P, s, n, i) = "waiting"
  BY <1>1, <1>7 DEF OutcomeIn, PlaceNames
<1>8. ASSUME NEW i, i \in P["accepted"] PROVE OutcomeIn(P, s, n, i) = "matched"
  BY <1>1, <1>8 DEF OutcomeIn, PlaceNames
<1>9. ASSUME NEW i, i \in P["queued"]
      PROVE  OutcomeIn(P, s, n, i) = IF s = "apply" THEN "matched" ELSE "created"
  <2>1. s \in {"apply", "decide"}
    BY <1>9
  <2>2. /\ i \notin P["filled"] /\ i \notin P["refused"] /\ i \notin P["denied"]
        /\ i \notin P["pending"] /\ i \notin P["still"] /\ i \notin P["accepted"]
    BY <1>1, <1>9 DEF PlaceNames
  <2>3. QED
    BY <1>9, <2>1, <2>2 DEF OutcomeIn
<1>10. ASSUME NEW i \in Nat, i >= n PROVE OutcomeIn(P, s, n, i) = "none"
  <2>1. \A p \in PlaceNames : i \notin P[p]
    BY <1>2, <1>10
  <2>2. ~ (i < n)
    BY <1>10
  <2>3. QED
    BY <2>1, <2>2 DEF OutcomeIn, PlaceNames
<1>11. ASSUME NEW i \in Nat \ {0}
       PROVE  OutcomeIn(P, s, n, i) # "lost" /\ (i < n => OutcomeIn(P, s, n, i) # "none")
  <2>1. CASE i < n
    <3>1. PICK p \in PlaceNames : i \in P[p]
      BY <1>3, <2>1
    <3>2. OutcomeIn(P, s, n, i) \in {"filled", "refused", "rejected", "waiting", "matched", "created"}
      BY <1>4, <1>5, <1>6, <1>7, <1>8, <1>9, <3>1 DEF PlaceNames
    <3>3. QED
      BY <3>2
  <2>2. CASE ~ (i < n)
    BY <1>10, <2>2
  <2>3. QED
    BY <2>1, <2>2
<1>12. QED
  BY <1>4, <1>5, <1>6, <1>7, <1>8, <1>9, <1>10, <1>11

\* The variable that Lifecycle is instantiated with, and a step of it.
Outcome == [i \in 1 .. MaxOrders |-> OutcomeOf(i)]

Implements == Lifecycle!OutcomesNext \/ Outcome' = Outcome

\* While a run is healthy, no order is lost.
LEMMA OutcomesNow ==
  ASSUME TypeInvariant, Life
  PROVE  /\ \A i : OutcomeOf(i) = OutcomeIn(Places, step, nextOrder, i)
         /\ OnePlace(Places, nextOrder) /\ nextOrder \in Nat \ {0}
         /\ step \notin {"apply", "decide"} => Places["queued"] = {}
         /\ Lifecycle!NoneLost
<1>1. \A i : OutcomeOf(i) = OutcomeIn(Places, step, nextOrder, i)
  BY OutcomesAreByPlace DEF TypeInvariant
<1>2. OnePlace(Places, nextOrder) /\ nextOrder \in Nat \ {0}
  BY DEF Life, TypeInvariant, StepOK
<1>3. step \notin {"apply", "decide"} => Places["queued"] = {}
  BY PlacesAre, IdsOfNothing DEF Life, EmptyQueues
<1>4. \A i \in Nat \ {0} : OutcomeOf(i) # "lost"
  BY <1>1, <1>2, <1>3, OutcomesByPlace
<1>5. Lifecycle!NoneLost
  BY <1>4, MaxOrdersAssumption DEF Lifecycle!NoneLost
<1>6. QED
  BY <1>1, <1>2, <1>3, <1>5

\* One order changes from one outcome to another.
LEMMA OneChanges ==
  ASSUME Lifecycle!NoneLost, NEW i \in Nat \ {0}, NEW from, NEW to,
         OutcomeOf(i) = from, OutcomeOf(i)' = to,
         \A j \in Nat \ {0} : j # i => OutcomeOf(j)' = OutcomeOf(j)
  PROVE  \/ i \in 1 .. MaxOrders /\ Lifecycle!Move(i, from, to)
         \/ i \notin 1 .. MaxOrders /\ Outcome' = Outcome
<1>1. \A j \in 1 .. MaxOrders : j \in Nat \ {0}
  BY MaxOrdersAssumption
<1>2. CASE i \notin 1 .. MaxOrders
  BY <1>1, <1>2 DEF Outcome
<1>3. CASE i \in 1 .. MaxOrders
  <2>1. Outcome' = [Outcome EXCEPT ![i] = to] /\ Outcome[i] = from
    BY <1>1, <1>3 DEF Outcome
  <2>2. QED
    BY <1>3, <2>1 DEF Lifecycle!Move, Outcome
<1>4. QED
  BY <1>2, <1>3

\* When one order moves, no other changes.
LEMMA OthersStay ==
  ASSUME TypeInvariant, TypeInvariant', Life, Life', step' = step, nextOrder' = nextOrder,
         NEW i, NEW a \in PlaceNames, NEW b \in PlaceNames, a # b, Moves(i, a, b)
  PROVE  /\ i \in Nat \ {0} /\ i \in Places[a] /\ i \in Places'[b]
         /\ \A j \in Nat \ {0} : j # i => OutcomeOf(j)' = OutcomeOf(j)
<1>1. /\ \A j : OutcomeOf(j) = OutcomeIn(Places, step, nextOrder, j)
      /\ \A j : OutcomeOf(j)' = OutcomeIn(Places', step', nextOrder', j)
  BY OutcomesAreByPlace DEF TypeInvariant
<1>2. i \in Places[a] /\ i \in Places'[b]
  BY DEF Moves
<1>3. Places[a] \subseteq 1 .. nextOrder - 1
  BY DEF Life, OnePlace
<1>4. ASSUME NEW j, j # i PROVE \A p \in PlaceNames : j \in Places'[p] <=> j \in Places[p]
  BY <1>4 DEF Moves
<1>5. ASSUME NEW j, j # i
      PROVE  OutcomeIn(Places', step', nextOrder', j) = OutcomeIn(Places, step, nextOrder, j)
  <2> DEFINE P == Places
             Q == Places'
  <2>1. \A p \in PlaceNames : j \in Q[p] <=> j \in P[p]
    BY <1>4, <1>5
  <2> HIDE DEF P, Q
  <2>2. OutcomeIn(Q, step, nextOrder, j) = OutcomeIn(P, step, nextOrder, j)
    BY <2>1 DEF OutcomeIn, PlaceNames
  <2>3. QED
    BY <2>2 DEF P, Q
<1>6. i \in Nat \ {0}
  BY <1>2, <1>3
<1>7. QED
  BY <1>1, <1>2, <1>5, <1>6

\* A step that keeps every outcome.
LEMMA NoneChanges ==
  ASSUME \A j \in Nat \ {0} : OutcomeOf(j)' = OutcomeOf(j)
  PROVE  Implements
<1>1. \A j \in 1 .. MaxOrders : OutcomeOf(j)' = OutcomeOf(j)
  BY MaxOrdersAssumption
<1>2. QED
  BY <1>1 DEF Outcome, Implements

\* An order that meets its bar is matched or refused; one that is held does not change.
LEMMA ExecuteOrderImplements ==
  ASSUME TypeInvariant, TypeInvariant', Life, ExecuteOrder
  PROVE  Implements
<1>0. PICK i : i = Head(pending).id
  OBVIOUS
<1>1. /\ i \in EventIds(pending) /\ nextOrder' = nextOrder
      /\ \/ Life' /\ Healthy' /\ \E b \in {"still", "accepted", "refused"} : Moves(i, "pending", b)
         \/ /\ ~Healthy' /\ seen' = seen /\ portfolio' = portfolio
            /\ \A p \in PlaceNames : Places'[p] = IF p = "pending" THEN Places[p] \ {i} ELSE Places[p]
  BY <1>0, LifeInExecuteOrder
<1>2. step = "execute" /\ (step' = "execute" \/ step' = "idle")
  <2>1. step = "execute" /\ (step' = step \/ Raise("ValueError"))
    BY Zenon DEF ExecuteOrder
  <2>2. QED
    BY <2>1 DEF Raise
<1>3. /\ \A j : OutcomeOf(j) = OutcomeIn(Places, step, nextOrder, j)
      /\ OnePlace(Places, nextOrder) /\ nextOrder \in Nat \ {0} /\ Places["queued"] = {}
      /\ Lifecycle!NoneLost
  BY <1>2, OutcomesNow
<1>4. i \in Nat \ {0} /\ i \in Places["pending"] /\ i < nextOrder
  <2>1. i \in Places["pending"] /\ Places["pending"] \subseteq 1 .. nextOrder - 1
    BY <1>1, <1>3, PlacesAre DEF OnePlace, PlaceNames
  <2>2. QED
    BY <1>3, <2>1
<1>5. OutcomeOf(i) = "waiting"
  BY <1>3, <1>4, OutcomesByPlace
<1>6. ASSUME Life', Healthy', NEW b \in {"still", "accepted", "refused"}, Moves(i, "pending", b)
      PROVE  Implements
  <2>1. step' = "execute"
    <3>1. CASE step' = "idle"
      <4>1. \E error : Raise(error)
        BY <1>2, <3>1, Zenon DEF ExecuteOrder
      <4>2. QED
        BY <1>6, <4>1, RaiseKeepsTypes DEF Healthy
    <3>2. QED
      BY <1>2, <3>1
  <2>2. i \in Places'[b] /\ \A j \in Nat \ {0} : j # i => OutcomeOf(j)' = OutcomeOf(j)
    BY <1>1, <1>2, <1>6, <2>1, OthersStay DEF PlaceNames
  <2>3. OutcomeOf(i)' = OutcomeIn(Places', step', nextOrder', i)
    BY OutcomesAreByPlace DEF TypeInvariant
  <2>4. OnePlace(Places', nextOrder') /\ nextOrder' \in Nat \ {0}
    BY <1>6 DEF Life, TypeInvariant, StepOK
  <2>5. Places'["queued"] = {}
    BY <1>3, <1>6 DEF Moves, PlaceNames
  <2>6. CASE b = "still"
    <3>1. i \in Places'["pending"] \cup Places'["still"]
      BY <2>2, <2>6
    <3>2. OutcomeOf(i)' = "waiting"
      BY <2>3, <2>4, <2>5, <3>1, OutcomesByPlace
    <3>3. QED
      BY <1>5, <2>2, <3>2, NoneChanges
  <2>7. CASE b = "accepted"
    <3>1. OutcomeOf(i)' = "matched"
      BY <2>2, <2>3, <2>4, <2>5, <2>7, OutcomesByPlace
    <3>2. \/ i \in 1 .. MaxOrders /\ Lifecycle!Move(i, "waiting", "matched")
          \/ Outcome' = Outcome
      BY <1>3, <1>4, <1>5, <2>2, <3>1, OneChanges
    <3>3. QED
      BY <3>2 DEF Implements, Lifecycle!OutcomesNext, Lifecycle!Meet
  <2>8. CASE b = "refused"
    <3>1. OutcomeOf(i)' = "refused"
      BY <2>2, <2>3, <2>4, <2>5, <2>8, OutcomesByPlace
    <3>2. \/ i \in 1 .. MaxOrders /\ Lifecycle!Move(i, "waiting", "refused")
          \/ Outcome' = Outcome
      BY <1>3, <1>4, <1>5, <2>2, <3>1, OneChanges
    <3>3. QED
      BY <3>2 DEF Implements, Lifecycle!OutcomesNext, Lifecycle!Meet
  <2>9. QED
    BY <1>6, <2>6, <2>7, <2>8
<1>7. ASSUME ~Healthy',
             \A p \in PlaceNames : Places'[p] = IF p = "pending" THEN Places[p] \ {i} ELSE Places[p]
      PROVE  Implements
  <2>1. step' = "idle"
    BY <1>2, <1>7 DEF Healthy
  <2>2. \A j : OutcomeOf(j)' = OutcomeIn(Places', "idle", nextOrder, j)
    BY <1>1, <2>1, OutcomesAreByPlace DEF TypeInvariant
  <2> DEFINE P == Places
             Q == Places'
             n == nextOrder
  <2>3. /\ \A p \in PlaceNames : Q[p] = IF p = "pending" THEN P[p] \ {i} ELSE P[p]
        /\ P["queued"] = {} /\ \A p, q \in PlaceNames : p # q => P[p] \cap P[q] = {}
        /\ i \in P["pending"] /\ i < n
    BY <1>3, <1>4, <1>7 DEF OnePlace
  <2> HIDE DEF P, Q, n
  <2>4. OutcomeIn(Q, "idle", n, i) = "lost"
    <3>1. \A p \in PlaceNames : i \notin Q[p]
      BY <2>3 DEF PlaceNames
    <3>2. QED
      BY <2>3, <3>1 DEF OutcomeIn, PlaceNames
  <2>5. ASSUME NEW j, j # i PROVE OutcomeIn(Q, "idle", n, j) = OutcomeIn(P, "execute", n, j)
    <3>1. \A p \in PlaceNames : j \in Q[p] <=> j \in P[p]
      BY <2>3, <2>5
    <3>2. j \notin P["queued"] /\ j \notin Q["queued"]
      BY <2>3, <3>1 DEF PlaceNames
    <3>3. QED
      BY <3>1, <3>2 DEF OutcomeIn, PlaceNames
  <2>6. OutcomeOf(i)' = "lost" /\ \A j : j # i => OutcomeOf(j)' = OutcomeOf(j)
    BY <1>2, <1>3, <2>2, <2>4, <2>5 DEF P, Q, n
  <2>7. \/ i \in 1 .. MaxOrders /\ Lifecycle!Move(i, "waiting", "lost")
        \/ Outcome' = Outcome
    BY <1>3, <1>4, <1>5, <2>6, OneChanges
  <2>8. QED
    BY <2>7 DEF Implements, Lifecycle!OutcomesNext, Lifecycle!Lose
<1>8. QED
  BY <1>1, <1>6, <1>7

\* Handing over what was accepted and held changes no outcome.
LEMMA EndExecutionImplements ==
  ASSUME TypeInvariant, TypeInvariant', Life, EndExecution
  PROVE  Implements
<1>1. /\ Life' /\ nextOrder' = nextOrder /\ step = "execute" /\ step' = "apply"
      /\ \A p \in PlaceNames :
           Places'[p] = IF p = "pending" THEN Places["still"]
                        ELSE IF p = "queued" THEN Places["accepted"]
                        ELSE IF p = "still" \/ p = "accepted" THEN {} ELSE Places[p]
      /\ Places["pending"] = {} /\ Places["queued"] = {}
  BY LifeInEndExecution
<1> DEFINE P == Places
           Q == Places'
           n == nextOrder
<1>2. \A j : OutcomeOf(j) = OutcomeIn(P, "execute", n, j) /\ OutcomeOf(j)' = OutcomeIn(Q, "apply", n, j)
  BY <1>1, OutcomesAreByPlace DEF TypeInvariant
<1>3. /\ Q["filled"] = P["filled"] /\ Q["refused"] = P["refused"] /\ Q["denied"] = P["denied"]
      /\ Q["pending"] = P["still"] /\ Q["still"] = {} /\ Q["accepted"] = {} /\ Q["queued"] = P["accepted"]
      /\ P["pending"] = {} /\ P["queued"] = {}
  BY <1>1 DEF PlaceNames
<1> HIDE DEF P, Q, n
<1>4. \A j : OutcomeIn(Q, "apply", n, j) = OutcomeIn(P, "execute", n, j)
  BY <1>3 DEF OutcomeIn
<1>5. QED
  BY <1>2, <1>4, NoneChanges

\* The first matched order is filled, or all that are matched are lost.
LEMMA ApplyNextImplements ==
  ASSUME TypeInvariant, TypeInvariant', Life, ApplyNext
  PROVE  Implements
<1>1. PICK i : i = Head(queue).id
  OBVIOUS
<1>2. /\ i \in EventIds(queue) /\ nextOrder' = nextOrder /\ step = "apply"
      /\ \A j \in EventIds(queue) : i <= j
      /\ \/ Life' /\ step' = "apply" /\ Moves(i, "queued", "filled")
         \/ step' = "idle" /\ \A p \in PlaceNames : p # "queued" => Places'[p] = Places[p]
  BY <1>1, LifeInApplyNext
<1>3. /\ \A j : OutcomeOf(j) = OutcomeIn(Places, "apply", nextOrder, j)
      /\ OnePlace(Places, nextOrder) /\ nextOrder \in Nat \ {0} /\ Lifecycle!NoneLost
      /\ \A j : OutcomeOf(j)' = OutcomeIn(Places', step', nextOrder, j)
  BY <1>2, OutcomesNow, OutcomesAreByPlace DEF TypeInvariant
<1>4. Places["accepted"] = {} /\ Places["queued"] = EventIds(queue)
  BY <1>2, PlacesAre, IdsOfNothing DEF Life, EmptyQueues
<1>5. \A j : OutcomeOf(j) = "matched" <=> j \in Places["queued"]
  <2>1. \A j : j \in Places["queued"] => OutcomeOf(j) = "matched"
    BY <1>3, OutcomesByPlace
  <2>2. \A j : j \notin Places["queued"] => OutcomeOf(j) # "matched"
    BY <1>3, <1>4 DEF OutcomeIn
  <2>3. QED
    BY <2>1, <2>2
<1>6. ASSUME Life', step' = "apply", Moves(i, "queued", "filled") PROVE Implements
  <2>1. /\ i \in Nat \ {0} /\ i \in Places'["filled"]
        /\ \A j \in Nat \ {0} : j # i => OutcomeOf(j)' = OutcomeOf(j)
    BY <1>2, <1>6, OthersStay DEF PlaceNames
  <2>2. OutcomeOf(i) = "matched" /\ OutcomeOf(i)' = "filled"
    <3>1. OutcomeOf(i)' = "filled"
      BY <1>3, <2>1 DEF OutcomeIn
    <3>2. QED
      BY <1>2, <1>4, <1>5, <3>1
  <2>3. \/ i \in 1 .. MaxOrders /\ Lifecycle!Move(i, "matched", "filled")
        \/ Outcome' = Outcome
    BY <1>3, <2>1, <2>2, OneChanges
  <2>4. \A j \in 1 .. MaxOrders : j < i => Outcome[j] # "matched"
    <3>1. \A j \in Nat : j < i => OutcomeOf(j) # "matched"
      BY <1>2, <1>4, <1>5, <2>1
    <3>2. QED
      BY <3>1, MaxOrdersAssumption DEF Outcome
  <2>5. QED
    BY <2>3, <2>4 DEF Implements, Lifecycle!OutcomesNext, Lifecycle!Settle, Outcome
<1>7. ASSUME step' = "idle", \A p \in PlaceNames : p # "queued" => Places'[p] = Places[p]
      PROVE  Implements
  <2> DEFINE P == Places
             Q == Places'
             n == nextOrder
  <2>1. /\ Q["filled"] = P["filled"] /\ Q["refused"] = P["refused"] /\ Q["denied"] = P["denied"]
        /\ Q["pending"] = P["pending"] /\ Q["still"] = P["still"] /\ Q["accepted"] = P["accepted"]
        /\ P["accepted"] = {}
    BY <1>4, <1>7 DEF PlaceNames
  <2>2. OnePlace(P, n) /\ \A j : j \in P["queued"] => OutcomeIn(P, "apply", n, j) = "matched" /\ j < n
    <3>1. \A j \in P["queued"] : j \in Nat /\ j < n
      BY <1>3 DEF OnePlace, PlaceNames
    <3>2. QED
      BY <1>3, <3>1, OutcomesByPlace
  <2> HIDE DEF P, Q, n
  <2>3. ASSUME NEW j
        PROVE  OutcomeIn(Q, "idle", n, j)
                 = IF j \in P["queued"] THEN "lost" ELSE OutcomeIn(P, "apply", n, j)
    <3>1. CASE j \in P["queued"]
      <4>1. /\ j \notin P["filled"] /\ j \notin P["refused"] /\ j \notin P["denied"]
            /\ j \notin P["pending"] /\ j \notin P["still"] /\ j < n
        BY <2>2, <3>1 DEF OnePlace, PlaceNames
      <4>2. QED
        BY <2>1, <3>1, <4>1 DEF OutcomeIn
    <3>2. CASE j \notin P["queued"]
      BY <2>1, <3>2 DEF OutcomeIn
    <3>3. QED
      BY <3>1, <3>2
  <2>4. \A j : OutcomeOf(j)' = IF OutcomeOf(j) = "matched" THEN "lost" ELSE OutcomeOf(j)
    BY <1>3, <1>5, <1>7, <2>3 DEF P, Q, n
  <2>5. Lifecycle!LoseMatched
    BY <1>3, <2>4 DEF Lifecycle!LoseMatched
  <2>6. QED
    BY <2>5 DEF Implements, Lifecycle!OutcomesNext
<1>8. QED
  BY <1>2, <1>6, <1>7

\* The next number is created, after all before it.
LEMMA TakeSignalImplements ==
  ASSUME TypeInvariant, TypeInvariant', Life, seen \subseteq 1 .. nextOrder - 1, TakeSignal
  PROVE  Implements
<1>1. /\ Life' /\ step = "decide" /\ step' = "decide"
      /\ \/ nextOrder' = nextOrder /\ \A p \in PlaceNames : Places'[p] = Places[p]
         \/ /\ nextOrder' = nextOrder + 1
            /\ \A p \in PlaceNames :
                 Places'[p] = IF p = "queued" THEN Places[p] \cup {nextOrder} ELSE Places[p]
  BY LifeInTakeSignal
<1>2. /\ \A j : OutcomeOf(j) = OutcomeIn(Places, "decide", nextOrder, j)
      /\ OnePlace(Places, nextOrder) /\ nextOrder \in Nat \ {0} /\ Lifecycle!NoneLost
      /\ \A j : OutcomeOf(j)' = OutcomeIn(Places', "decide", nextOrder', j)
  BY <1>1, OutcomesNow, OutcomesAreByPlace DEF TypeInvariant
<1>3. CASE nextOrder' = nextOrder /\ \A p \in PlaceNames : Places'[p] = Places[p]
  <2> DEFINE P == Places
             Q == Places'
  <2>1. \A p \in PlaceNames : Q[p] = P[p]
    BY <1>3
  <2> HIDE DEF P, Q
  <2>2. \A j, n : OutcomeIn(Q, "decide", n, j) = OutcomeIn(P, "decide", n, j)
    BY <2>1 DEF OutcomeIn, PlaceNames
  <2>3. QED
    BY <1>2, <1>3, <2>2, NoneChanges DEF P, Q
<1>4. CASE /\ nextOrder' = nextOrder + 1
           /\ \A p \in PlaceNames :
                Places'[p] = IF p = "queued" THEN Places[p] \cup {nextOrder} ELSE Places[p]
  <2>1. PICK i \in Nat \ {0} : i = nextOrder
    BY <1>2
  <2> DEFINE P == Places
             Q == Places'
  <2>2. /\ OnePlace(P, i)
        /\ \A p \in PlaceNames : Q[p] = IF p = "queued" THEN P[p] \cup {i} ELSE P[p]
    BY <1>2, <1>4, <2>1
  <2> HIDE DEF P, Q
  <2>3. \A p \in PlaceNames : i \notin P[p]
    BY <2>1, <2>2 DEF OnePlace
  <2>4. OutcomeIn(P, "decide", i, i) = "none" /\ OutcomeIn(Q, "decide", i + 1, i) = "created"
    <3>1. ~ (i < i)
      BY <2>1
    <3>2. QED
      BY <2>2, <2>3, <3>1 DEF OutcomeIn, PlaceNames
  <2>5. \A j \in Nat : j # i => OutcomeIn(Q, "decide", i + 1, j) = OutcomeIn(P, "decide", i, j)
    <3>1. \A j \in Nat : j # i => (j < i + 1 <=> j < i)
      BY <2>1
    <3>2. \A j : j # i => \A p \in PlaceNames : j \in Q[p] <=> j \in P[p]
      BY <2>2
    <3>3. QED
      BY <3>1, <3>2 DEF OutcomeIn, PlaceNames
  <2>6. /\ OutcomeOf(i) = "none" /\ OutcomeOf(i)' = "created"
        /\ \A j \in Nat \ {0} : j # i => OutcomeOf(j)' = OutcomeOf(j)
    BY <1>2, <1>4, <2>1, <2>4, <2>5 DEF P, Q
  <2>7. \/ i \in 1 .. MaxOrders /\ Lifecycle!Move(i, "none", "created")
        \/ Outcome' = Outcome
    BY <1>2, <2>1, <2>6, OneChanges
  <2>8. \A j \in 1 .. MaxOrders : Outcome[j] = "none" <=> j >= i
    <3>1. \A j \in Nat \ {0} : OutcomeOf(j) = "none" <=> j >= i
      <4>1. \A j \in Nat \ {0} : j >= i => OutcomeOf(j) = "none"
        BY <1>2, <2>1, OutcomesByPlace
      <4>2. \A j \in Nat \ {0} : j < i => OutcomeOf(j) # "none"
        BY <1>2, <2>1, OutcomesByPlace
      <4>3. QED
        BY <2>1, <4>1, <4>2
    <3>2. QED
      BY <3>1, MaxOrdersAssumption DEF Outcome
  <2>9. QED
    BY <2>7, <2>8 DEF Implements, Lifecycle!OutcomesNext, Lifecycle!Create, Outcome
<1>5. QED
  BY <1>1, <1>3, <1>4

\* The first created order is decided.
LEMMA TakeOrderImplements ==
  ASSUME TypeInvariant, TypeInvariant', Life, TakeOrder
  PROVE  Implements
<1>1. PICK i : i = Head(queue).id
  OBVIOUS
<1>2. /\ Life' /\ nextOrder' = nextOrder /\ step = "decide" /\ step' = "decide"
      /\ i \in EventIds(queue) /\ \A j \in EventIds(queue) : i <= j
      /\ \E b \in {"denied", "pending"} : Moves(i, "queued", b)
  BY <1>1, LifeInTakeOrder
<1>3. /\ \A j : OutcomeOf(j) = OutcomeIn(Places, "decide", nextOrder, j)
      /\ OnePlace(Places, nextOrder) /\ nextOrder \in Nat \ {0} /\ Lifecycle!NoneLost
      /\ OnePlace(Places', nextOrder)
      /\ \A j : OutcomeOf(j)' = OutcomeIn(Places', "decide", nextOrder, j)
  BY <1>2, OutcomesNow, OutcomesAreByPlace DEF TypeInvariant, Life
<1>4. PICK b \in {"denied", "pending"} : Moves(i, "queued", b)
  BY <1>2
<1>5. /\ i \in Nat \ {0} /\ i \in Places["queued"] /\ i \in Places'[b]
      /\ \A j \in Nat \ {0} : j # i => OutcomeOf(j)' = OutcomeOf(j)
  BY <1>2, <1>4, OthersStay DEF PlaceNames
<1>6. OutcomeOf(i) = "created"
  BY <1>3, <1>5, OutcomesByPlace
<1>7. \A j \in 1 .. MaxOrders : j < i => Outcome[j] # "created"
  <2>1. \A j \in Nat \ {0} : j < i => j \notin Places["queued"]
    BY <1>2, <1>5, PlacesAre
  <2>2. \A j : j \notin Places["queued"] => OutcomeOf(j) # "created"
    BY <1>3 DEF OutcomeIn
  <2>3. QED
    BY <2>1, <2>2, MaxOrdersAssumption DEF Outcome
<1>8. CASE b = "denied"
  <2>1. OutcomeOf(i)' = "rejected"
    BY <1>3, <1>5, <1>8, OutcomesByPlace
  <2>2. \/ i \in 1 .. MaxOrders /\ Lifecycle!Move(i, "created", "rejected")
        \/ Outcome' = Outcome
    BY <1>3, <1>5, <1>6, <2>1, OneChanges
  <2>3. QED
    BY <1>7, <2>2 DEF Implements, Lifecycle!OutcomesNext, Lifecycle!Decide, Outcome
<1>9. CASE b = "pending"
  <2>1. i \in Places'["pending"] \cup Places'["still"]
    BY <1>5, <1>9
  <2>2. OutcomeOf(i)' = "waiting"
    BY <1>3, <2>1, OutcomesByPlace
  <2>3. \/ i \in 1 .. MaxOrders /\ Lifecycle!Move(i, "created", "waiting")
        \/ Outcome' = Outcome
    BY <1>3, <1>5, <1>6, <2>2, OneChanges
  <2>4. QED
    BY <1>7, <2>3 DEF Implements, Lifecycle!OutcomesNext, Lifecycle!Decide, Outcome
<1>10. QED
  BY <1>4, <1>8, <1>9

\* The other steps change no outcome.
LEMMA QuietImplements ==
  ASSUME TypeInvariant, TypeInvariant', Life, Quiet
  PROVE  Implements
<1>1. /\ nextOrder' = nextOrder /\ Places["queued"] = {}
      /\ \A p \in PlaceNames : Places'[p] = Places[p]
  BY LifeInQuietSteps
<1>2. step # "execute" /\ Places["accepted"] = {}
  <2>1. step # "execute"
    BY DEF Quiet, WarmUp, BeginEvaluation, NextBar, MarkBar, CallStrategy, EndBar, FinishRun
  <2>2. QED
    BY <2>1, PlacesAre, IdsOfNothing DEF Life, EmptyQueues
<1>3. /\ \A j : OutcomeOf(j) = OutcomeIn(Places, step, nextOrder, j)
      /\ \A j : OutcomeOf(j)' = OutcomeIn(Places', step', nextOrder, j)
  BY <1>1, OutcomesAreByPlace DEF TypeInvariant
<1> DEFINE P == Places
           Q == Places'
<1>4. P["queued"] = {} /\ \A p \in PlaceNames : Q[p] = P[p]
  BY <1>1
<1> HIDE DEF P, Q
<1>5. \A s, t, n, j : OutcomeIn(Q, t, n, j) = OutcomeIn(P, s, n, j)
  BY <1>4 DEF OutcomeIn, PlaceNames
<1>6. QED
  BY <1>3, <1>5, NoneChanges DEF P, Q

\* A new run forgets the orders of the last one.
LEMMA StartRunImplements ==
  ASSUME TypeInvariant, TypeInvariant', StartRun
  PROVE  Implements
<1>1. /\ nextOrder' = 1 /\ step' = "warmup" /\ \A p \in PlaceNames : Places'[p] = {}
  BY LifeInStartRun
<1>2. \A j : OutcomeOf(j)' = OutcomeIn(Places', "warmup", 1, j)
  BY <1>1, OutcomesAreByPlace DEF TypeInvariant
<1> DEFINE Q == Places'
<1>3. \A p \in PlaceNames : Q[p] = {}
  BY <1>1
<1> HIDE DEF Q
<1>4. \A j \in 1 .. MaxOrders : OutcomeIn(Q, "warmup", 1, j) = "none"
  <2>1. \A j \in 1 .. MaxOrders : ~ (j < 1)
    BY MaxOrdersAssumption
  <2>2. QED
    BY <1>3, <2>1 DEF OutcomeIn, PlaceNames
<1>5. Lifecycle!Restart
  BY <1>2, <1>4 DEF Lifecycle!Restart, Lifecycle!Nothing, Q
<1>6. QED
  BY <1>5 DEF Implements, Lifecycle!OutcomesNext

\* Nothing has been created initially.
LEMMA OutcomesInitially == Init => Lifecycle!OutcomesInit
<1> SUFFICES ASSUME Init PROVE Lifecycle!OutcomesInit
  OBVIOUS
<1>1. /\ fills = <<>> /\ rejected = <<>> /\ queue = <<>> /\ step = "idle" /\ nextOrder = 1
      /\ pending = <<>> /\ still = <<>> /\ accepted = <<>> /\ refused = <<>>
  BY DEF Init, SimulatorInit
<1>2. Denied = {}
  BY <1>1 DEF Denied
<1>3. \A p \in PlaceNames : Places[p] = {}
  BY <1>1, <1>2, IdsOfNothing, PlacesAre DEF PlaceNames
<1>4. \A j : OutcomeOf(j) = OutcomeIn(Places, "idle", 1, j)
  BY <1>1, TypeInitially, OutcomesAreByPlace DEF TypeInvariant
<1>5. \A j \in 1 .. MaxOrders : OutcomeOf(j) = "none"
  <2>1. \A j \in 1 .. MaxOrders : ~ (j < 1)
    BY MaxOrdersAssumption
  <2>2. QED
    BY <1>3, <1>4, <2>1 DEF OutcomeIn, PlaceNames
<1>6. QED
  BY <1>5 DEF Lifecycle!OutcomesInit, Lifecycle!Nothing

\* So every step is one of OrderOutcomes.
LEMMA StepsImplement ==
  ASSUME TypeInvariant, TypeInvariant', LifeInvariant, [Next]_vars
  PROVE  Implements
<1>1. seen \subseteq 1 .. nextOrder - 1 /\ (step # "idle" => Life)
  BY DEF LifeInvariant, Healthy
<1>2. CASE UNCHANGED vars
  <2>1. Places' = Places /\ step' = step /\ nextOrder' = nextOrder
    BY <1>2 DEF Places, Denied, vars, runVars, simulatorVars
  <2>2. QED
    BY <2>1, OutcomesAreByPlace, NoneChanges DEF TypeInvariant
<1>3. CASE StartRun
  BY <1>3, StartRunImplements
<1>4. CASE Quiet
  <2>1. Life
    BY <1>1, <1>4
       DEF Quiet, WarmUp, BeginEvaluation, NextBar, MarkBar, CallStrategy, EndBar, FinishRun
  <2>2. QED
    BY <1>4, <2>1, QuietImplements
<1>5. CASE ExecuteOrder
  BY <1>1, <1>5, ExecuteOrderImplements DEF ExecuteOrder
<1>6. CASE EndExecution
  BY <1>1, <1>6, EndExecutionImplements DEF EndExecution
<1>7. CASE ApplyNext
  BY <1>1, <1>7, ApplyNextImplements DEF ApplyNext
<1>8. CASE TakeSignal
  BY <1>1, <1>8, TakeSignalImplements DEF TakeSignal
<1>9. CASE TakeOrder
  BY <1>1, <1>9, TakeOrderImplements DEF TakeOrder
<1>10. QED
  BY <1>2, <1>3, <1>4, <1>5, <1>6, <1>7, <1>8, <1>9 DEF Next, RunStep, Execute, Decide, Quiet

\* Seen from its orders, a run does what OrderOutcomes promises: every order is numbered
\* in turn, decided once and in turn, waits, meets its bar, and is settled; only an
\* exception loses orders, and then nothing happens to any order until a new run.
THEOREM EngineImplementsOutcomes == Spec => OrdersHaveOneLife
<1>1. Init => (TypeInvariant /\ LifeInvariant) /\ Lifecycle!OutcomesInit
  BY TypeInitially, LifeInitially, OutcomesInitially
<1>2. (TypeInvariant /\ LifeInvariant) /\ [Next]_vars => (TypeInvariant /\ LifeInvariant)'
  BY TypesAreKept, LifeIsKept
<1>3. (TypeInvariant /\ LifeInvariant) /\ (TypeInvariant /\ LifeInvariant)' /\ [Next]_vars
        => [Lifecycle!OutcomesNext]_Outcome
  BY StepsImplement DEF Implements
<1>4. QED
  BY <1>1, <1>2, <1>3, PTL DEF Spec, OrdersHaveOneLife, Lifecycle!OutcomesSpec, Outcome
-----------------------------------------------------------------------------
(***************************************************************************)
(* Orders and bars                                                         *)
(***************************************************************************)
Items(s) == {s[i] : i \in DOMAIN s}

\* The bars among bars of the order's symbol that are later than it.
Later(bars, order) ==
  {k \in DOMAIN bars : bars[k].symbol = order.symbol /\ bars[k].timestamp > order.timestamp}

\* One of the orders os, none of whose bars is among the first m.
Waits(bars, os, order, m) == order \in Items(os) /\ \A k \in Later(bars, order) : k > m

\* What bar makes of order, at no better price than its open.
FillsWith(fill, order, bar) ==
  /\ fill.id = order.id /\ fill.symbol = order.symbol /\ fill.side = order.side
  /\ fill.quantity = order.quantity /\ fill.timestamp = bar.timestamp
  /\ IF fill.side = "BUY" THEN Whole(bar.open) \preceq fill.price ELSE fill.price \preceq Whole(bar.open)

\* A fill of one of the orders os, by the first of its bars, which is bars[k].
FillsAt(bars, os, fill, k) ==
  \E o \in Items(os) :
    k \in Later(bars, o) /\ (\A l \in Later(bars, o) : k <= l) /\ FillsWith(fill, o, bars[k])

\* Orders are recorded as they are decided.
OrdersTimed ==
  /\ Rising(orders) /\ EventIds(orders) \subseteq 1 .. nextOrder - 1
  /\ step = "warmup" => orders = <<>>
  /\ step = "decide" =>
       Before(orders, queue) /\ \A e \in Items(queue) : e.timestamp = Market.timestamp

\* An order waits until its bar.
WaitingTimed ==
  /\ \A o \in Items(pending) : Waits(job.bars, orders, o, Processed)
  /\ \A o \in Items(still) : Waits(job.bars, orders, o, cursor)

\* Fills are of the bars they say, those on their way of the bar being processed.
FillsTimed ==
  /\ \A f \in Items(fills) : \E k \in DOMAIN job.bars : FillsAt(job.bars, orders, f, k)
  /\ step = "execute" => \A f \in Items(accepted) : FillsAt(job.bars, orders, f, cursor)
  /\ step = "apply" => \A f \in Items(queue) : FillsAt(job.bars, orders, f, cursor)

Timing == OrdersTimed /\ WaitingTimed /\ FillsTimed

\* A fill of this bar has been applied.
AppliedHere ==
  /\ fills # <<>>
  /\ fills[Len(fills)].timestamp = Market.timestamp /\ fills[Len(fills)].symbol = Market.symbol

\* What was accepted can be applied, until a fill of the bar is.
Affordable ==
  /\ step = "execute" => \A f \in Items(accepted) : CanProcessFill(portfolio, f)
  /\ step = "apply" => AppliedHere \/ \A f \in Items(queue) : CanProcessFill(portfolio, f)

Solvency == portfolio.allowShort = job.allowShort /\ Solvent

TimeInvariant == Timing /\ Affordable /\ Solvency
-----------------------------------------------------------------------------
\* The elements of a sequence, as it changes.
LEMMA ItemsOfNothing == Items(<<>>) = {}
BY DEF Items

\* Appending adds an item,
LEMMA ItemsOfAppend ==
  ASSUME NEW S, NEW s \in Seq(S), NEW e
  PROVE  Items(Append(s, e)) = Items(s) \cup {e}
<1> DEFINE T == S \cup {e}
           t == Append(s, e)
<1>1. s \in Seq(T) /\ e \in T
  OBVIOUS
<1>2. /\ Len(s) \in Nat /\ DOMAIN s = 1 .. Len(s) /\ DOMAIN t = 1 .. Len(s) + 1
      /\ t[Len(s) + 1] = e /\ \A i \in 1 .. Len(s) : t[i] = s[i]
  BY <1>1
<1> HIDE DEF t
<1>3. QED
  BY <1>2 DEF Items, t

\* the tail has no others,
LEMMA ItemsOfTail ==
  ASSUME NEW S, NEW s \in Seq(S), s # <<>>
  PROVE  Head(s) \in Items(s) /\ Items(Tail(s)) \subseteq Items(s)
<1>1. /\ Head(s) = s[1] /\ 1 \in DOMAIN s
      /\ \A k \in DOMAIN Tail(s) : k + 1 \in DOMAIN s /\ Tail(s)[k] = s[k + 1]
  BY TailFacts
<1>2. QED
  BY <1>1 DEF Items

\* and the items of a list are of its type.
LEMMA ItemsAreOrders ==
  ASSUME NEW S, NEW s \in Seq(S)
  PROVE  Items(s) \subseteq S
BY DEF Items

\* Recording one more order disturbs nothing.
LEMMA MoreOrders ==
  ASSUME NEW bars, NEW os, NEW qs, Items(os) \subseteq Items(qs)
  PROVE  /\ \A o, m : Waits(bars, os, o, m) => Waits(bars, qs, o, m)
         /\ \A f, k : FillsAt(bars, os, f, k) => FillsAt(bars, qs, f, k)
BY DEF Waits, FillsAt

\* Nor does it matter how many of the bars are still to come.
LEMMA FewerBars ==
  ASSUME NEW bars, DOMAIN bars \subseteq Nat, NEW os, NEW o, NEW m \in Int, NEW n \in Int, n <= m,
         Waits(bars, os, o, m)
  PROVE  Waits(bars, os, o, n)
<1>1. \A k \in Later(bars, o) : k \in Int /\ k > m
  BY DEF Waits, Later
<1>2. \A k \in Later(bars, o) : k > n
  BY <1>1
<1>3. QED
  BY <1>2 DEF Waits

\* How many bars have been processed, by the step, in this state and in the next.
LEMMA ProcessedIs ==
  /\ step = "warmup" => Processed = 0
  /\ step \in {"apply", "strategy", "decide"} => Processed = cursor
  /\ step \in {"idle", "bar", "execute"} => Processed = cursor - 1
  /\ step' = "warmup" => Processed' = 0
  /\ step' \in {"apply", "strategy", "decide"} => Processed' = cursor'
  /\ step' \in {"idle", "bar", "execute"} => Processed' = cursor' - 1
<1>1. step = "warmup" => Processed = 0
  BY Zenon DEF Processed
<1>2. step \in {"apply", "strategy", "decide"} => Processed = cursor
  BY Zenon DEF Processed
<1>3. ASSUME step \in {"idle", "bar", "execute"} PROVE Processed = cursor - 1
  <2>1. step # "warmup" /\ step \notin {"apply", "strategy", "decide"}
    BY <1>3
  <2>2. QED
    BY <2>1, Zenon DEF Processed
<1>4. step' = "warmup" => Processed' = 0
  BY Zenon DEF Processed
<1>5. ASSUME step' \in {"apply", "strategy", "decide"} PROVE Processed' = cursor'
  BY <1>5, Zenon DEF Processed
<1>6. ASSUME step' \in {"idle", "bar", "execute"} PROVE Processed' = cursor' - 1
  <2>1. step' # "warmup" /\ step' \notin {"apply", "strategy", "decide"}
    BY <1>6
  <2>2. QED
    BY <2>1, Zenon DEF Processed
<1>7. QED
  BY <1>1, <1>2, <1>3, <1>4, <1>5, <1>6

\* Where the bars stand to each other.
LEMMA BarsInOrder ==
  ASSUME TypeInvariant, InBar
  PROVE  /\ cursor \in DOMAIN job.bars /\ DOMAIN job.bars \subseteq Nat
         /\ \A k \in DOMAIN job.bars : job.bars[k].timestamp > Market.timestamp => k > cursor
<1>1. /\ cursor \in DOMAIN job.bars /\ job.bars \in Seq(Bars) /\ DOMAIN job.bars = 1 .. Len(job.bars)
      /\ Len(job.bars) \in Nat /\ Chronological(job.bars)
  BY JobFacts DEF TypeInvariant, StepOK
<1>2. \A k \in DOMAIN job.bars : job.bars[k].timestamp \in Nat
  <2>1. \A k \in DOMAIN job.bars : job.bars[k] \in Bars
    BY <1>1
  <2>2. QED
    BY <2>1 DEF Bars
<1>3. ASSUME NEW k \in DOMAIN job.bars, job.bars[k].timestamp > Market.timestamp PROVE k > cursor
  <2>1. k < cursor => job.bars[k].timestamp <= Market.timestamp
    BY <1>1 DEF Chronological, Market
  <2>2. k # cursor
    BY <1>1, <1>2, <1>3 DEF Market
  <2>3. QED
    BY <1>1, <1>2, <1>3, <2>1, <2>2 DEF Market
<1>4. QED
  BY <1>1, <1>3

\* A model's costs only ever raise the price of a buyer and lower a seller's.
LEMMA FillsAreNoBetter ==
  ASSUME TypeInvariant, InBar, NEW o \in Orders
  PROVE  FillsWith(FillOf(o, Market, job.commission, job.slippage), o, Market)
<1> DEFINE fill == FillOf(o, Market, job.commission, job.slippage)
           move == IF job.slippage.kind = "fixed" THEN job.slippage.amount
                   ELSE Whole(Market.open) ** job.slippage.amount
<1>1. /\ fill.price = Slipped(job.slippage, Market.open, o.side)
      /\ fill.id = o.id /\ fill.timestamp = Market.timestamp
      /\ fill.symbol = o.symbol /\ fill.side = o.side /\ fill.quantity = o.quantity
  BY FillFacts
<1>2. /\ Market.open \in Int /\ Market.open > 0 /\ Whole(Market.open) \in Quotients
      /\ Whole(Market.open).n = Market.open /\ Whole(Market.open).d = 1
  BY MarketIsABar, WholeType
<1>3. job.slippage.amount \in Quotients /\ Zero \preceq job.slippage.amount
  BY JobFacts, FractionsAreQuotients DEF TypeInvariant
<1>4. fill.price = IF o.side = "BUY" THEN Whole(Market.open) ++ move ELSE Whole(Market.open) -- move
  BY <1>1 DEF Slipped
<1>5. move \in Quotients /\ Zero \preceq move
  <2>1. CASE job.slippage.kind = "fixed"
    BY <1>3, <2>1
  <2>2. ASSUME NEW a \in Quotients, NEW b \in Quotients, b.n > 0, Zero \preceq a
        PROVE  b ** a \in Quotients /\ Zero \preceq b ** a
    <3>1. /\ a.n \in Int /\ a.d \in Nat \ {0} /\ b.n \in Int /\ b.d \in Nat \ {0}
          /\ Zero \in Quotients /\ Zero.n = 0 /\ Zero.d = 1
      BY <2>2, Typing, ZeroType
    <3>2. a.n >= 0
      <4>1. 0 * a.d <= a.n * 1
        BY <2>2, <3>1, OperationsAreRatios
      <4>2. QED
        BY <3>1, <4>1
    <3>3. b.n * a.n >= 0 /\ b.n * a.n \in Int /\ b.d * a.d \in Nat \ {0}
      BY <2>2, <3>1, <3>2
    <3>4. Zero \preceq Ratio(b.n * a.n, b.d * a.d)
      <4> DEFINE n == b.n * a.n
                 d == b.d * a.d
      <4>1. n >= 0 /\ n \in Int /\ d \in Nat \ {0}
        BY <3>3
      <4> HIDE DEF n, d
      <4>2. 0 * d <= n * 1
        BY <4>1
      <4>3. Zero \preceq Ratio(n, d)
        BY <3>1, <4>1, <4>2, RatioIsOrdered
      <4>4. QED
        BY <4>3 DEF n, d
    <3>5. b ** a = Ratio(b.n * a.n, b.d * a.d) /\ b ** a \in Quotients
      BY <2>2, OperationsAreRatios, OperationTypes, FractionsAreQuotients
    <3>6. QED
      BY <3>4, <3>5
  <2>3. CASE job.slippage.kind # "fixed"
    BY <1>2, <1>3, <2>2, <2>3
  <2>4. QED
    BY <2>1, <2>3
<1> HIDE DEF move
<1>6. Whole(Market.open) \preceq Whole(Market.open) ++ move /\ Whole(Market.open) -- move \preceq Whole(Market.open)
  BY <1>2, <1>5, SumsAreOrdered
<1> HIDE DEF fill
<1>7. QED
  BY <1>1, <1>4, <1>6 DEF FillsWith, fill
-----------------------------------------------------------------------------
\* A run starts with cash.
LEMMA CapitalIsPositive == \A j \in Jobs : Zero \preceq Whole(j.capital)
<1> SUFFICES ASSUME NEW j \in Jobs PROVE Zero \preceq Whole(j.capital)
  OBVIOUS
<1>1. j.capital \in Int /\ j.capital >= 0
  BY JobFacts
<1>2. Whole(j.capital) \in Quotients /\ Whole(j.capital).n = j.capital /\ Whole(j.capital).d = 1
  BY <1>1, WholeType
<1>3. 0 * 1 <= j.capital * 1
  BY <1>1
<1>4. QED
  BY <1>2, <1>3, ZeroType, OperationsAreRatios

\* The steps that leave orders, queues and fills alone, or empty them.
LEMMA TimeInStartRun ==
  ASSUME TypeInvariant, StartRun
  PROVE  TimeInvariant'
<1>1. /\ step' = "warmup" /\ queue' = <<>> /\ orders' = <<>> /\ fills' = <<>>
      /\ pending' = <<>> /\ still' = <<>> /\ accepted' = <<>>
      /\ portfolio' = NewPortfolio(job.capital, job.allowShort) /\ job' = job
  BY DEF StartRun, ResetParts, ResetSimulator
<1>2. Timing'
  <2>1. Rising(<<>>) /\ EventIds(<<>>) = {} /\ Items(<<>>) = {}
    BY IdsOfNothing, ItemsOfNothing DEF Rising
  <2>2. QED
    BY <1>1, <2>1 DEF Timing, OrdersTimed, WaitingTimed, FillsTimed
<1>3. Affordable'
  BY <1>1 DEF Affordable
<1>4. Solvency'
  <2>1. /\ portfolio'.allowShort = job.allowShort /\ portfolio'.cash = Whole(job.capital)
        /\ \A s \in Symbols : portfolio'.positions[s].quantity = 0
    BY <1>1 DEF NewPortfolio, FlatPosition
  <2>2. Zero \preceq Whole(job.capital)
    BY CapitalIsPositive DEF TypeInvariant
  <2>3. QED
    BY <1>1, <2>1, <2>2 DEF Solvency, Solvent
<1>5. QED
  BY <1>2, <1>3, <1>4 DEF TimeInvariant

\* During warm-up there are no orders.
LEMMA TimeInWarmUp ==
  ASSUME TypeInvariant, Life, TimeInvariant, WarmUp \/ BeginEvaluation
  PROVE  TimeInvariant'
<1>1. /\ UNCHANGED <<job, queue, portfolio, orders, fills, nextOrder, simulatorVars>>
      /\ step = "warmup" /\ step' \in {"warmup", "bar", "idle"}
  <2>1. \A error : Raise(error) => step' = "idle"
    BY DEF Raise
  <2>2. CASE WarmUp
    BY <2>1, <2>2, Zenon DEF WarmUp
  <2>3. CASE BeginEvaluation
    BY <2>1, <2>3, Zenon DEF BeginEvaluation
  <2>4. QED
    BY <2>2, <2>3
<1>2. orders = <<>> /\ Items(pending) = {} /\ Items(still) = {}
  <2>1. orders = <<>> /\ Items(orders) = {}
    BY <1>1, ItemsOfNothing DEF TimeInvariant, Timing, OrdersTimed
  <2>2. QED
    BY <2>1 DEF TimeInvariant, Timing, WaitingTimed, Waits
<1>3. Timing'
  BY <1>1, <1>2 DEF TimeInvariant, Timing, OrdersTimed, WaitingTimed, FillsTimed, simulatorVars
<1>4. Affordable' /\ Solvency'
  BY <1>1 DEF TimeInvariant, Affordable, Solvency, Solvent
<1>5. QED
  BY <1>3, <1>4 DEF TimeInvariant

\* Between bars nothing is late, and what waits still waits.
LEMMA TimeInBar ==
  ASSUME TypeInvariant, Life, TimeInvariant, NextBar \/ EndBar \/ FinishRun
  PROVE  TimeInvariant'
<1>1. /\ UNCHANGED <<job, queue, portfolio, orders, fills, nextOrder, simulatorVars>>
      /\ \/ step = "bar" /\ step' \in {"execute", "idle"} /\ cursor' = cursor
         \/ step = "decide" /\ step' = "bar" /\ cursor' = cursor + 1
  <2>1. \A error : Raise(error) => step' = "idle"
    BY DEF Raise
  <2>2. CASE NextBar
    BY <2>2 DEF NextBar
  <2>3. CASE EndBar
    BY <2>3 DEF EndBar
  <2>4. CASE FinishRun
    BY <2>1, <2>4, Zenon DEF FinishRun
  <2>5. QED
    BY <2>2, <2>3, <2>4
<1>2. cursor \in Nat /\ Processed' = Processed
  BY <1>1, ProcessedIs DEF TypeInvariant, StepOK
<1>3. Items(accepted) = {} /\ Items(still) = {}
  BY <1>1, ItemsOfNothing DEF Life, EmptyQueues
<1>4. Timing'
  BY <1>1, <1>2, <1>3
     DEF TimeInvariant, Timing, OrdersTimed, WaitingTimed, FillsTimed, simulatorVars
<1>5. Affordable' /\ Solvency'
  BY <1>1, <1>3 DEF TimeInvariant, Affordable, Solvency, Solvent, simulatorVars
<1>6. QED
  BY <1>4, <1>5 DEF TimeInvariant

\* Marking and calling the strategy change no order.
LEMMA TimeInMarkBar ==
  ASSUME TypeInvariant, Life, TimeInvariant, MarkBar
  PROVE  TimeInvariant'
<1>1. /\ UNCHANGED <<job, cursor, queue, orders, fills, nextOrder, simulatorVars>>
      /\ step = "apply" /\ step' = "strategy" /\ portfolio' = MarkToMarket(portfolio, Market)
  BY DEF MarkBar
<1>2. Processed' = Processed
  BY <1>1, ProcessedIs
<1>3. Timing'
  BY <1>1, <1>2 DEF TimeInvariant, Timing, OrdersTimed, WaitingTimed, FillsTimed, simulatorVars
<1>4. /\ portfolio'.cash = portfolio.cash /\ portfolio'.positions = portfolio.positions
      /\ portfolio'.allowShort = portfolio.allowShort
  BY <1>1, MarketIsABar, MarkKeepsAccount DEF TypeInvariant, InBar
<1>5. Affordable' /\ Solvency'
  BY <1>1, <1>4 DEF TimeInvariant, Affordable, Solvency, Solvent
<1>6. QED
  BY <1>3, <1>5 DEF TimeInvariant

\* A call of the strategy changes no order's time.
LEMMA TimeInCallStrategy ==
  ASSUME TypeInvariant, Life, TimeInvariant, CallStrategy
  PROVE  TimeInvariant'
<1>1. CallStrategyFacts
  BY CallStrategyMeans
<1>2. /\ UNCHANGED <<job, cursor, portfolio, nextOrder, orders, fills, simulatorVars>>
      /\ step = "strategy" /\ Answer.signals \in Seq(Signals) /\ cursor \in Nat
      /\ \/ /\ \A i \in DOMAIN Answer.signals : Answer.signals[i].timestamp = Market.timestamp
            /\ queue' = Answer.signals /\ step' = "decide"
         \/ step' = "idle"
  BY <1>1 DEF CallStrategyFacts, Raise, TypeInvariant, StepOK
<1>3. Processed = cursor /\ Processed' = IF step' = "decide" THEN cursor ELSE cursor - 1
  BY <1>2, ProcessedIs
<1>4. Market' = Market
  BY <1>2 DEF Market
<1>5. OrdersTimed'
  <2>1. ASSUME step' = "decide"
        PROVE  Before(orders, queue') /\ \A e \in Items(queue') : e.timestamp = Market.timestamp
    <3>1. /\ queue' = Answer.signals
          /\ \A i \in DOMAIN Answer.signals : Answer.signals[i].timestamp = Market.timestamp
      BY <1>2, <2>1
    <3>2. \A i \in DOMAIN Answer.signals : ~IsOrder(Answer.signals[i])
      BY <1>2, EventKinds
    <3>3. EventIds(Answer.signals) = {}
      BY <3>2 DEF EventIds
    <3>4. \A e \in Items(Answer.signals) : e.timestamp = Market.timestamp
      BY <3>1 DEF Items
    <3>5. QED
      BY <3>1, <3>3, <3>4 DEF Before
  <2>2. QED
    BY <1>2, <1>4, <2>1 DEF TimeInvariant, Timing, OrdersTimed
<1>6. WaitingTimed'
  <2>1. ASSUME NEW o, Waits(job.bars, orders, o, cursor)
        PROVE  Waits(job.bars, orders, o, cursor - 1)
    <3>1. DOMAIN job.bars \subseteq Nat
      BY <1>2, BarsInOrder DEF InBar
    <3>2. QED
      BY <1>2, <2>1, <3>1, FewerBars
  <2>2. QED
    BY <1>2, <1>3, <2>1 DEF TimeInvariant, Timing, WaitingTimed, simulatorVars
<1>7. FillsTimed'
  BY <1>2 DEF TimeInvariant, Timing, FillsTimed
<1>8. Affordable' /\ Solvency'
  BY <1>2 DEF TimeInvariant, Affordable, Solvency, Solvent
<1>9. QED
  BY <1>5, <1>6, <1>7, <1>8 DEF TimeInvariant, Timing

\* An order that meets a bar is filled by it, and by none before.
LEMMA TimeInExecuteOrder ==
  ASSUME TypeInvariant, Life, TimeInvariant, ExecuteOrder
  PROVE  TimeInvariant'
<1> DEFINE o == Head(pending)
           fill == FillOf(o, Market, job.commission, job.slippage)
<1>1. /\ UNCHANGED <<job, cursor, queue, portfolio, nextOrder, orders, fills>>
      /\ step = "execute" /\ pending # <<>> /\ pending' = Tail(pending)
      /\ \/ /\ ~Eligible(o, Market) /\ step' = "execute"
            /\ still' = Append(still, o) /\ accepted' = accepted
         \/ /\ Eligible(o, Market) /\ step' = "execute" /\ still' = still
            /\ accepted' = accepted \/ (Accepts(fill) /\ accepted' = Append(accepted, fill))
         \/ step' = "idle" /\ still' = still
  <2>1. \A error : Raise(error) => step' = "idle"
    BY DEF Raise
  <2>2. ASSUME NEW f, Match(f, Accepts(f))
        PROVE  /\ still' = still /\ pending' = Tail(pending)
               /\ accepted' = accepted \/ (Accepts(f) /\ accepted' = Append(accepted, f))
    BY <2>2 DEF Match
  <2>3. Hold(Market) => /\ ~Eligible(o, Market) /\ pending' = Tail(pending)
                        /\ still' = Append(still, o) /\ accepted' = accepted
    BY DEF Hold
  <2>4. \A f : PriceFails(f) => pending' = Tail(pending) /\ still' = still
    BY DEF PriceFails
  <2>5. QED
    BY <2>1, <2>2, <2>3, <2>4, Zenon DEF ExecuteOrder
<1>2. /\ o \in Orders /\ o \in Items(pending) /\ Items(Tail(pending)) \subseteq Items(pending)
      /\ still \in Seq(Orders) /\ accepted \in Seq(Fills) /\ InBar /\ cursor \in Nat
  <2>1. pending \in Seq(Orders) /\ still \in Seq(Orders) /\ accepted \in Seq(Fills) /\ cursor \in Nat
    BY DEF TypeInvariant, ListsOK, StepOK
  <2>2. o \in Orders
    BY <1>1, <2>1
  <2>3. QED
    BY <1>1, <2>1, <2>2, ItemsOfTail DEF InBar
<1>3. /\ cursor \in DOMAIN job.bars /\ DOMAIN job.bars \subseteq Nat
      /\ Eligible(o, Market) <=> cursor \in Later(job.bars, o)
  <2>1. /\ cursor \in DOMAIN job.bars /\ DOMAIN job.bars \subseteq Nat
        /\ o.timestamp \in Nat /\ Market.timestamp \in Nat /\ Market = job.bars[cursor]
    BY <1>2, BarsInOrder, MarketIsABar DEF Orders, Market
  <2>2. QED
    BY <2>1 DEF Eligible, Later
<1>4. Processed = cursor - 1 /\ (step' \in {"execute", "idle"} => Processed' = cursor - 1)
  BY <1>1, ProcessedIs
<1>5. /\ \A p \in Items(pending) : Waits(job.bars, orders, p, cursor - 1)
      /\ \A p \in Items(still) : Waits(job.bars, orders, p, cursor)
      /\ \A f \in Items(accepted) : FillsAt(job.bars, orders, f, cursor)
      /\ \A f \in Items(accepted) : CanProcessFill(portfolio, f)
  BY <1>1, <1>4 DEF TimeInvariant, Timing, WaitingTimed, FillsTimed, Affordable
<1>6. ~Eligible(o, Market) => Waits(job.bars, orders, o, cursor)
  <2>1. Waits(job.bars, orders, o, cursor - 1)
    BY <1>2, <1>5
  <2>2. ASSUME ~Eligible(o, Market), NEW k \in Later(job.bars, o) PROVE k > cursor
    <3>1. k \in Nat /\ k > cursor - 1 /\ k # cursor
      BY <1>3, <2>1, <2>2 DEF Waits, Later
    <3>2. QED
      BY <1>2, <3>1
  <2>3. QED
    BY <2>1, <2>2 DEF Waits
<1>7. Eligible(o, Market) => FillsAt(job.bars, orders, fill, cursor)
  <2>1. o \in Items(orders) /\ \A k \in Later(job.bars, o) : k > cursor - 1
    BY <1>2, <1>5 DEF Waits
  <2>2. \A k \in Later(job.bars, o) : k \in Nat
    BY <1>3 DEF Later
  <2>3. \A k \in Later(job.bars, o) : cursor <= k
    BY <1>2, <2>1, <2>2
  <2>4. FillsWith(fill, o, job.bars[cursor])
    BY <1>2, FillsAreNoBetter DEF Market
  <2>5. QED
    BY <1>3, <2>1, <2>3, <2>4 DEF FillsAt
<1> HIDE DEF fill
<1>8. /\ \A p \in Items(still') : Waits(job.bars, orders, p, cursor)
      /\ step' = "execute" =>
           \A f \in Items(accepted') :
             FillsAt(job.bars, orders, f, cursor) /\ CanProcessFill(portfolio, f)
  <2>1. Items(Append(still, o)) = Items(still) \cup {o} /\ Items(Append(accepted, fill)) = Items(accepted) \cup {fill}
    BY <1>2, ItemsOfAppend
  <2>2. Accepts(fill) => CanProcessFill(portfolio, fill)
    BY DEF Accepts
  <2> HIDE DEF o
  <2>3. still' = still \/ (~Eligible(o, Market) /\ still' = Append(still, o))
    BY <1>1
  <2>4. step' = "execute" =>
          accepted' = accepted \/ (Eligible(o, Market) /\ Accepts(fill) /\ accepted' = Append(accepted, fill))
    BY <1>1
  <2>5. \A p \in Items(still') : Waits(job.bars, orders, p, cursor)
    BY <1>5, <1>6, <2>1, <2>3
  <2>6. ASSUME step' = "execute", NEW f \in Items(accepted')
        PROVE  FillsAt(job.bars, orders, f, cursor) /\ CanProcessFill(portfolio, f)
    <3>1. CASE accepted' = accepted
      BY <1>5, <2>6, <3>1
    <3>2. CASE Eligible(o, Market) /\ Accepts(fill) /\ accepted' = Append(accepted, fill)
      <4>1. Items(accepted') = Items(accepted) \cup {fill}
        BY <2>1, <3>2
      <4>2. FillsAt(job.bars, orders, fill, cursor) /\ CanProcessFill(portfolio, fill)
        BY <1>7, <2>2, <3>2
      <4>3. QED
        BY <1>5, <2>6, <4>1, <4>2
    <3>3. QED
      BY <2>4, <2>6, <3>1, <3>2
  <2>7. QED
    BY <2>5, <2>6
<1>9. Timing'
  BY <1>1, <1>2, <1>4, <1>5, <1>8 DEF TimeInvariant, Timing, OrdersTimed, WaitingTimed, FillsTimed
<1>10. Affordable' /\ Solvency'
  BY <1>1, <1>8 DEF TimeInvariant, Affordable, Solvency, Solvent
<1>11. QED
  BY <1>9, <1>10 DEF TimeInvariant

\* What was held waits for later bars, what was accepted is of this bar.
LEMMA TimeInEndExecution ==
  ASSUME TypeInvariant, TimeInvariant, EndExecution
  PROVE  TimeInvariant'
<1>1. /\ UNCHANGED <<job, cursor, portfolio, orders, fills, nextOrder>>
      /\ step = "execute" /\ step' = "apply"
      /\ queue' = accepted /\ pending' = still /\ still' = <<>> /\ accepted' = <<>>
  BY DEF EndExecution, FinishExecution
<1>2. Processed' = cursor /\ Items(still') = {}
  BY <1>1, ProcessedIs, ItemsOfNothing
<1>3. Timing'
  BY <1>1, <1>2 DEF TimeInvariant, Timing, OrdersTimed, WaitingTimed, FillsTimed
<1>4. Affordable' /\ Solvency'
  BY <1>1 DEF TimeInvariant, Affordable, Solvency, Solvent
<1>5. QED
  BY <1>3, <1>4 DEF TimeInvariant

\* A fill changes the position of its symbol by what it buys or sells.
LEMMA QuantityAfter ==
  ASSUME NEW p, AccountOK(p), NEW f \in Fills, NEW s \in Symbols
  PROVE  ProcessFill(p, f).positions[s].quantity
           = p.positions[s].quantity + (IF s = f.symbol THEN Signed(f.side, f.quantity) ELSE 0)
<1> DEFINE pos == p.positions[f.symbol]
           change == Signed(f.side, f.quantity)
           new == ApplyFill(pos, f.side, f.quantity, f.price)
<1>1. f.symbol \in Symbols /\ f.quantity \in Nat \ {0}
  BY DEF Fills
<1>2. p.positions \in [Symbols -> Positions] /\ pos \in Positions
  BY <1>1 DEF AccountOK
<1>3. pos.quantity \in Int /\ change \in Int
  BY <1>1, <1>2 DEF Positions, Signed
<1>4. new.quantity = pos.quantity + change
  <2> DEFINE total == pos.quantity + change
  <2>1. pos = [quantity |-> pos.quantity, average |-> pos.average, realized |-> pos.realized, trips |-> pos.trips]
    BY <1>2 DEF Positions
  <2>2. Opened(pos, change, f.price).quantity = change
    BY <2>1 DEF Opened
  <2>3. Increased(pos, change, f.price).quantity = total
    BY <2>1 DEF Increased
  <2>4. Reduced(pos, change, f.price).quantity = total
    BY DEF Reduced
  <2>5. QED
    BY <1>3, <2>2, <2>3, <2>4 DEF ApplyFill
<1> HIDE DEF new
<1>5. ProcessFill(p, f).positions = [p.positions EXCEPT ![f.symbol] = new]
  <2>1. p = [cash |-> p.cash, allowShort |-> p.allowShort, positions |-> p.positions,
             marks |-> p.marks, applied |-> p.applied, commission |-> p.commission,
             snapshots |-> p.snapshots]
    BY DEF AccountOK
  <2>2. ProcessFill(p, f) = [p EXCEPT !.cash = CashAfter(p, f),
                                      !.positions = [p.positions EXCEPT ![f.symbol] = new],
                                      !.commission = p.commission ++ f.commission,
                                      !.applied = p.applied \cup {f.id}]
    BY <2>1 DEF ProcessFill, new
  <2>3. QED
    BY <2>1, <2>2
<1>6. QED
  <2>1. p.positions[s] \in Positions
    BY <1>2
  <2>2. p.positions[s].quantity \in Int
    BY <2>1 DEF Positions
  <2>3. QED
    BY <1>1, <1>2, <1>4, <1>5, <2>2

\* Applying a fill of this bar, or raising after one.
LEMMA TimeInApplyNext ==
  ASSUME TypeInvariant, TimeInvariant, ApplyNext
  PROVE  TimeInvariant' /\ (step' = "idle" => AppliedHere)
<1> DEFINE fill == Head(queue)
<1>1. /\ UNCHANGED <<job, cursor, nextOrder, orders, simulatorVars>>
      /\ step = "apply" /\ queue # <<>> /\ queue' = Tail(queue)
      /\ \/ /\ CanProcessFill(portfolio, fill)
            /\ portfolio' = ProcessFill(portfolio, fill) /\ fills' = Append(fills, fill) /\ step' = "apply"
         \/ /\ ~CanProcessFill(portfolio, fill)
            /\ step' = "idle" /\ portfolio' = portfolio /\ fills' = fills
  <2>1. \A error : Raise(error) => step' = "idle"
    BY DEF Raise
  <2>2. QED
    BY <2>1, Zenon DEF ApplyNext
<1>2. /\ fill \in Fills /\ fill \in Items(queue) /\ Items(Tail(queue)) \subseteq Items(queue)
      /\ fills \in Seq(Fills) /\ AccountOK(portfolio) /\ cursor \in Nat /\ InBar
  BY <1>1, ItemsOfTail DEF TypeInvariant, ListsOK, StepOK, InBar
<1>3. /\ \A f \in Items(queue) : FillsAt(job.bars, orders, f, cursor)
      /\ AppliedHere \/ \A f \in Items(queue) : CanProcessFill(portfolio, f)
  BY <1>1 DEF TimeInvariant, Timing, FillsTimed, Affordable
<1>4. fill.timestamp = Market.timestamp /\ fill.symbol = Market.symbol
  <2>1. FillsAt(job.bars, orders, fill, cursor)
    BY <1>2, <1>3
  <2>2. QED
    BY <2>1 DEF FillsAt, FillsWith, Later, Market
<1>5. Processed = cursor /\ Processed' \in {cursor, cursor - 1}
  BY <1>1, ProcessedIs
<1>6. WaitingTimed'
  <2>1. ASSUME NEW o, Waits(job.bars, orders, o, cursor)
        PROVE  Waits(job.bars, orders, o, cursor - 1)
    <3>1. DOMAIN job.bars \subseteq Nat
      BY <1>2, BarsInOrder
    <3>2. QED
      BY <1>2, <2>1, <3>1, FewerBars
  <2>2. \A o \in Items(pending) : Waits(job.bars, orders, o, cursor) /\ Waits(job.bars, orders, o, cursor - 1)
    BY <1>5, <2>1 DEF TimeInvariant, Timing, WaitingTimed
  <2>3. QED
    BY <1>1, <1>5, <2>2 DEF TimeInvariant, Timing, WaitingTimed, simulatorVars
<1>7. OrdersTimed'
  BY <1>1 DEF TimeInvariant, Timing, OrdersTimed
<1> HIDE DEF fill
<1>8. FillsTimed'
  <2>1. Items(fills') \subseteq Items(fills) \cup {fill}
    BY <1>1, <1>2, ItemsOfAppend
  <2>2. cursor \in DOMAIN job.bars /\ FillsAt(job.bars, orders, fill, cursor)
    BY <1>2, <1>3, BarsInOrder
  <2>3. \A f \in Items(fills') : \E k \in DOMAIN job.bars : FillsAt(job.bars, orders, f, k)
    BY <2>1, <2>2 DEF TimeInvariant, Timing, FillsTimed
  <2>4. QED
    BY <1>1, <1>2, <1>3, <2>3 DEF FillsTimed
<1>9. CASE /\ CanProcessFill(portfolio, fill)
           /\ portfolio' = ProcessFill(portfolio, fill) /\ fills' = Append(fills, fill) /\ step' = "apply"
  <2>1. AppliedHere'
    <3>1. fills' # <<>> /\ fills'[Len(fills')] = fill /\ Market' = Market
      BY <1>1, <1>2, <1>9 DEF Market
    <3>2. QED
      BY <1>4, <3>1 DEF AppliedHere
  <2>2. /\ portfolio'.cash = CashAfter(portfolio, fill) /\ portfolio'.allowShort = portfolio.allowShort
    BY <1>2, <1>9, FillKeepsAccount
  <2>3. ASSUME ~job.allowShort, NEW s \in Symbols PROVE portfolio'.positions[s].quantity >= 0
    <3> DEFINE current == portfolio.positions[s].quantity
    <3>1. /\ portfolio'.positions[s].quantity
               = current + (IF s = fill.symbol THEN Signed(fill.side, fill.quantity) ELSE 0)
      BY <1>2, <1>9, QuantityAfter
    <3>2. current >= 0 /\ current \in Int /\ ~portfolio.allowShort
      <4>1. portfolio.positions[s] \in Positions
        BY <1>2 DEF AccountOK
      <4>2. QED
        BY <2>3, <4>1 DEF TimeInvariant, Solvency, Solvent, Positions
    <3>3. ~OpensForbiddenShort(portfolio, fill.symbol, fill.side, fill.quantity)
      BY <1>9 DEF CanProcessFill
    <3>4. Signed(fill.side, fill.quantity) \in Int
      BY <1>2 DEF Fills, Signed
    <3>5. CASE s = fill.symbol
      <4>1. ~ (current + Signed(fill.side, fill.quantity) < 0)
        BY <3>2, <3>3, <3>4, <3>5 DEF OpensForbiddenShort
      <4>2. QED
        BY <3>1, <3>2, <3>4, <3>5, <4>1
    <3>6. CASE s # fill.symbol
      BY <3>1, <3>2, <3>6
    <3>7. QED
      BY <3>5, <3>6
  <2>4. Solvency'
    BY <1>1, <1>9, <2>2, <2>3 DEF TimeInvariant, Solvency, Solvent, CanProcessFill
  <2>5. QED
    BY <1>6, <1>7, <1>8, <1>9, <2>1, <2>4 DEF TimeInvariant, Timing, Affordable
<1>10. CASE ~CanProcessFill(portfolio, fill) /\ step' = "idle" /\ portfolio' = portfolio /\ fills' = fills
  <2>1. AppliedHere
    BY <1>2, <1>3, <1>10
  <2>2. QED
    BY <1>1, <1>6, <1>7, <1>8, <1>10, <2>1 DEF TimeInvariant, Timing, Affordable, Solvency, Solvent
<1>11. QED
  BY <1>1, <1>9, <1>10

\* A new order is of the time of its signal, which is that of the bar.
LEMMA TimeInTakeSignal ==
  ASSUME TypeInvariant, Life, TimeInvariant, TakeSignal
  PROVE  TimeInvariant'
<1> DEFINE s == Head(queue)
           t == Tail(queue)
<1>1. TakeSignalFacts
  BY TakeSignalMeans
<1>2. /\ UNCHANGED <<job, step, cursor, portfolio, orders, fills, simulatorVars>>
      /\ step = "decide" /\ queue # <<>> /\ s \in Signals /\ t \in Seq(Signals \cup Orders)
      /\ queue \in Seq(Signals \cup Orders) /\ queue \in Seq(Events) /\ nextOrder \in Nat \ {0}
  BY <1>1, ListsAreEvents DEF TakeSignalFacts, TypeInvariant, StepOK
<1>3. /\ Rising(orders) /\ EventIds(orders) \subseteq 1 .. nextOrder - 1 /\ Before(orders, queue)
      /\ \A e \in Items(queue) : e.timestamp = Market.timestamp
  BY <1>2 DEF TimeInvariant, Timing, OrdersTimed
<1>4. /\ EventIds(t) = EventIds(queue) /\ t \in Seq(Events)
      /\ s \in Items(queue) /\ Items(t) \subseteq Items(queue)
  <2>1. EventIds(queue) \subseteq Nat /\ ~IsOrder(s) /\ Rising(queue)
    BY <1>2, IdsAreNumbers, EventKinds DEF Life, InTurn
  <2>2. QED
    BY <1>2, <2>1, IdsOfTail, ItemsOfTail
<1> HIDE DEF s, t
<1>5. Market' = Market /\ Processed' = Processed
  BY <1>2, ProcessedIs DEF Market
<1>6. OrdersTimed'
  <2>1. CASE queue' = t /\ nextOrder' = nextOrder
    BY <1>2, <1>3, <1>4, <1>5, <2>1 DEF OrdersTimed, Before
  <2>2. ASSUME NEW o \in Orders, queue' = Append(t, o), nextOrder' = nextOrder + 1,
               o.id = nextOrder, o.timestamp = s.timestamp
        PROVE  OrdersTimed'
    <3>1. o \in Events /\ IsOrder(o)
      BY EventKinds DEF Events
    <3>2. EventIds(queue') = EventIds(queue) \cup {nextOrder} /\ Items(queue') = Items(t) \cup {o}
      BY <1>2, <1>4, <2>2, <3>1, IdsOfAppend, ItemsOfAppend
    <3>3. \A i \in EventIds(orders) : i < nextOrder /\ i \in 1 .. nextOrder
      BY <1>2, <1>3
    <3>4. Before(orders, queue')
      BY <1>3, <3>2, <3>3 DEF Before
    <3>5. EventIds(orders) \subseteq 1 .. nextOrder' - 1
      BY <1>2, <1>3, <2>2
    <3>6. \A e \in Items(queue') : e.timestamp = Market.timestamp
      BY <1>3, <1>4, <2>2, <3>2
    <3>7. QED
      BY <1>2, <1>3, <1>5, <3>4, <3>5, <3>6 DEF OrdersTimed
  <2>3. QED
    BY <1>1, <2>1, <2>2 DEF TakeSignalFacts, s, t
<1>7. Timing' /\ Affordable' /\ Solvency'
  BY <1>2, <1>5, <1>6
     DEF TimeInvariant, Timing, WaitingTimed, FillsTimed, Affordable, Solvency, Solvent, simulatorVars
<1>8. QED
  BY <1>7 DEF TimeInvariant

\* An order is of the time of its bar: all its bars are still to come.
LEMMA TimeInTakeOrder ==
  ASSUME TypeInvariant, Life, TimeInvariant, TakeOrder
  PROVE  TimeInvariant'
<1> DEFINE o == Head(queue)
           t == Tail(queue)
<1>1. TakeOrderFacts
  BY TakeOrderMeans
<1>2. /\ UNCHANGED <<job, cursor, portfolio, nextOrder, fills>>
      /\ step = "decide" /\ queue # <<>> /\ o \in Orders /\ queue' = t /\ orders' = Append(orders, o)
      /\ orders \in Seq(Orders) /\ pending \in Seq(Orders) /\ cursor \in Nat
      /\ queue \in Seq(Events) /\ nextOrder \in Nat \ {0}
  BY <1>1, ListsAreEvents DEF TakeOrderFacts, TypeInvariant, StepOK, ListsOK
<1>3. /\ step' = "decide" /\ Head(queue).id \in EventIds(queue)
      /\ \A j \in EventIds(queue) : Head(queue).id <= j
      /\ still' = still /\ (pending' = pending \/ pending' = Append(pending, o))
  <2>1. /\ step' = "decide" /\ Head(queue).id \in EventIds(queue)
        /\ \A j \in EventIds(queue) : Head(queue).id <= j
    BY LifeInTakeOrder
  <2>2. still' = still /\ (pending' = pending \/ pending' = Append(pending, o))
    BY <1>1, Zenon DEF TakeOrderFacts, Submit, simulatorVars
  <2>3. QED
    BY <2>1, <2>2
<1>4. /\ Rising(orders) /\ EventIds(orders) \subseteq 1 .. nextOrder - 1 /\ Before(orders, queue)
      /\ \A e \in Items(queue) : e.timestamp = Market.timestamp
  BY <1>2 DEF TimeInvariant, Timing, OrdersTimed
<1>5. /\ EventIds(t) = EventIds(queue) \ {o.id} /\ \A i \in EventIds(t) : o.id < i
      /\ o \in Items(queue) /\ Items(t) \subseteq Items(queue)
      /\ o \in Events /\ IsOrder(o) /\ EventIds(queue) \subseteq 1 .. nextOrder - 1
  <2>1. EventIds(queue) \subseteq Nat /\ IsOrder(o) /\ Rising(queue) /\ o \in Events
    BY <1>2, IdsAreNumbers, EventKinds DEF Life, InTurn, Events
  <2>2. EventIds(queue) \subseteq 1 .. nextOrder - 1
    BY PlacesAre DEF Life, OnePlace, PlaceNames
  <2>3. QED
    BY <1>2, <2>1, <2>2, IdsOfTail, ItemsOfTail
<1>6. o.id \in EventIds(queue) /\ \A i \in EventIds(orders) : i < o.id
  BY <1>3, <1>4 DEF Before
<1> HIDE DEF o, t
<1>7. Market' = Market /\ Processed = cursor /\ Processed' = cursor
  BY <1>2, <1>3, ProcessedIs DEF Market
<1>8. /\ EventIds(orders') = EventIds(orders) \cup {o.id} /\ Rising(orders')
      /\ Items(orders') = Items(orders) \cup {o}
  <2>1. orders \in Seq(Orders) /\ o \in Orders
    BY <1>2
  <2>2. QED
    BY <1>2, <1>4, <1>5, <1>6, <2>1, IdsOfAppend, RisingAppend, ItemsOfAppend
<1>9. OrdersTimed'
  <2>1. Before(orders', queue')
    BY <1>2, <1>4, <1>5, <1>8 DEF Before
  <2>2. EventIds(orders') \subseteq 1 .. nextOrder - 1
    BY <1>4, <1>5, <1>6, <1>8
  <2>3. QED
    BY <1>2, <1>3, <1>4, <1>5, <1>7, <1>8, <2>1, <2>2 DEF OrdersTimed
<1>10. WaitingTimed'
  <2>1. \A p, m : Waits(job.bars, orders, p, m) => Waits(job.bars, orders', p, m)
    BY <1>8, MoreOrders
  <2>2. Waits(job.bars, orders', o, cursor)
    <3>1. o.timestamp = Market.timestamp
      BY <1>4, <1>5
    <3>2. \A k \in DOMAIN job.bars : job.bars[k].timestamp > Market.timestamp => k > cursor
      BY <1>2, BarsInOrder DEF InBar
    <3>3. QED
      BY <1>8, <3>1, <3>2 DEF Waits, Later
  <2>3. Items(pending') \subseteq Items(pending) \cup {o}
    BY <1>2, <1>3, ItemsOfAppend
  <2>4. QED
    BY <1>2, <1>3, <1>7, <2>1, <2>2, <2>3 DEF TimeInvariant, Timing, WaitingTimed
<1>11. FillsTimed'
  <2>1. \A f, k : FillsAt(job.bars, orders, f, k) => FillsAt(job.bars, orders', f, k)
    BY <1>8, MoreOrders
  <2>2. QED
    BY <1>2, <1>3, <2>1 DEF TimeInvariant, Timing, FillsTimed
<1>12. Affordable' /\ Solvency'
  BY <1>2, <1>3 DEF TimeInvariant, Affordable, Solvency, Solvent
<1>13. QED
  BY <1>9, <1>10, <1>11, <1>12 DEF TimeInvariant, Timing

\* The invariant holds initially, and every step keeps it.
LEMMA TimeInitially == Init => TimeInvariant
<1> SUFFICES ASSUME Init PROVE TimeInvariant
  OBVIOUS
<1>1. /\ job \in Jobs /\ step = "idle" /\ orders = <<>> /\ fills = <<>> /\ pending = <<>> /\ still = <<>>
      /\ portfolio = NewPortfolio(job.capital, job.allowShort)
  BY DEF Init, SimulatorInit
<1>2. Timing
  <2>1. Rising(<<>>) /\ EventIds(<<>>) = {} /\ Items(<<>>) = {}
    BY IdsOfNothing, ItemsOfNothing DEF Rising
  <2>2. QED
    BY <1>1, <2>1 DEF Timing, OrdersTimed, WaitingTimed, FillsTimed
<1>3. Solvency
  <2>1. /\ portfolio.allowShort = job.allowShort /\ portfolio.cash = Whole(job.capital)
        /\ \A s \in Symbols : portfolio.positions[s].quantity = 0
    BY <1>1 DEF NewPortfolio, FlatPosition
  <2>2. Zero \preceq Whole(job.capital)
    BY <1>1, CapitalIsPositive
  <2>3. QED
    BY <2>1, <2>2 DEF Solvency, Solvent
<1>4. QED
  BY <1>1, <1>2, <1>3 DEF TimeInvariant, Affordable

\* Every step keeps the invariant.
LEMMA TimeIsKept ==
  ASSUME TypeInvariant, LifeInvariant, TimeInvariant, [Next]_vars
  PROVE  TimeInvariant'
<1>1. step # "idle" => Life
  BY DEF LifeInvariant, Healthy
<1>2. CASE UNCHANGED vars
  <2>1. Processed' = Processed /\ Market' = Market
    BY <1>2 DEF Processed, Market, vars, runVars
  <2>2. QED
    BY <1>2, <2>1
       DEF TimeInvariant, Timing, OrdersTimed, WaitingTimed, FillsTimed, Affordable, AppliedHere,
                      Solvency, Solvent, vars, runVars, simulatorVars
<1>3. CASE StartRun
  BY <1>3, TimeInStartRun
<1>4. CASE WarmUp \/ BeginEvaluation
  BY <1>1, <1>4, TimeInWarmUp DEF WarmUp, BeginEvaluation
<1>5. CASE NextBar \/ EndBar \/ FinishRun
  BY <1>1, <1>5, TimeInBar DEF NextBar, EndBar, FinishRun
<1>6. CASE MarkBar
  BY <1>1, <1>6, TimeInMarkBar DEF MarkBar
<1>7. CASE CallStrategy
  BY <1>1, <1>7, TimeInCallStrategy DEF CallStrategy
<1>8. CASE ExecuteOrder
  BY <1>1, <1>8, TimeInExecuteOrder DEF ExecuteOrder
<1>9. CASE EndExecution
  BY <1>9, TimeInEndExecution
<1>10. CASE ApplyNext
  BY <1>10, TimeInApplyNext
<1>11. CASE TakeSignal
  BY <1>1, <1>11, TimeInTakeSignal DEF TakeSignal
<1>12. CASE TakeOrder
  BY <1>1, <1>12, TimeInTakeOrder DEF TakeOrder
<1>13. QED
  BY <1>2, <1>3, <1>4, <1>5, <1>6, <1>7, <1>8, <1>9, <1>10, <1>11, <1>12
     DEF Next, RunStep, Execute, Decide
-----------------------------------------------------------------------------
\* The order with an id is the one that was recorded with it.
LEMMA OrderOfId ==
  ASSUME TypeInvariant, OrdersTimed, NEW o \in Items(orders)
  PROVE  OrderOf(o.id) = o
<1>1. PICK i \in DOMAIN orders : orders[i] = o
  BY DEF Items
<1>2. /\ orders \in Seq(Orders) /\ DOMAIN orders \subseteq Nat
      /\ \A j \in DOMAIN orders : IsOrder(orders[j]) /\ orders[j].id \in Nat
  <2>1. orders \in Seq(Orders) /\ DOMAIN orders = 1 .. Len(orders)
    BY DEF TypeInvariant, ListsOK
  <2>2. \A j \in DOMAIN orders : orders[j] \in Orders
    BY <2>1
  <2>3. QED
    BY <2>1, <2>2, EventKinds
<1>3. \A j \in DOMAIN orders : orders[j].id = o.id => j = i
  <2>1. \A j \in DOMAIN orders : j < i \/ j > i => orders[j].id # o.id
    BY <1>1, <1>2 DEF OrdersTimed, Rising
  <2>2. QED
    BY <1>1, <1>2, <2>1
<1>4. (CHOOSE j \in DOMAIN orders : orders[j].id = o.id) = i
  BY <1>1, <1>3
<1>5. QED
  BY <1>1, <1>4 DEF OrderOf

\* LaterBars is Later for the bars of the job.
LEMMA LaterBarsAre == \A o : LaterBars(o) = Later(job.bars, o)
BY DEF LaterBars, Later

\* The invariant says what FillsAtNextBar says.
LEMMA TimingMeansNextBar ==
  ASSUME TypeInvariant, Timing
  PROVE  FillsAtNextBar
<1>1. \A i \in DOMAIN pending : pending[i] \in Items(pending)
  BY DEF Items
<1>2. \A i \in DOMAIN still : still[i] \in Items(still)
  BY DEF Items
<1>3. /\ \A i \in DOMAIN pending : \A k \in LaterBars(pending[i]) : k > Processed
      /\ \A i \in DOMAIN still : \A k \in LaterBars(still[i]) : k > cursor
  BY <1>1, <1>2, LaterBarsAre DEF Timing, WaitingTimed, Waits
<1>4. ASSUME NEW i \in DOMAIN fills
      PROVE  LET fill == fills[i]
                 order == OrderOf(fill.id)
             IN  \E k \in LaterBars(order) :
                   /\ \A l \in LaterBars(order) : k <= l
                   /\ fill.timestamp = job.bars[k].timestamp
                   /\ fill.symbol = order.symbol /\ fill.side = order.side /\ fill.quantity = order.quantity
                   /\ IF fill.side = "BUY" THEN Whole(job.bars[k].open) \preceq fill.price
                                           ELSE fill.price \preceq Whole(job.bars[k].open)
  <2>1. fills[i] \in Items(fills)
    BY DEF Items
  <2>2. PICK k \in DOMAIN job.bars : FillsAt(job.bars, orders, fills[i], k)
    BY <2>1 DEF Timing, FillsTimed
  <2>3. PICK o \in Items(orders) :
          /\ k \in Later(job.bars, o) /\ \A l \in Later(job.bars, o) : k <= l
          /\ FillsWith(fills[i], o, job.bars[k])
    BY <2>2 DEF FillsAt
  <2>4. fills[i].id = o.id /\ OrderOf(o.id) = o
    BY <2>3, OrderOfId DEF FillsWith, Timing
  <2>5. OrderOf(fills[i].id) = o
    BY <2>4
  <2>6. QED
    BY <2>3, <2>5, LaterBarsAre DEF FillsWith
<1>5. QED
  BY <1>3, <1>4 DEF FillsAtNextBar

\* What always holds of a state of the engine.
EngineInvariant == TypeInvariant /\ LifeInvariant /\ TimeInvariant

\* It holds in every state of every run.
LEMMA EngineInvariantHolds == Spec => []EngineInvariant
<1>1. Init => EngineInvariant
  BY TypeInitially, LifeInitially, TimeInitially DEF EngineInvariant
<1>2. EngineInvariant /\ [Next]_vars => EngineInvariant'
  BY TypesAreKept, LifeIsKept, TimeIsKept DEF EngineInvariant
<1>3. QED
  BY <1>1, <1>2, PTL DEF Spec

\* No look-ahead and no delay: every fill is of the first bar of its order's symbol that
\* is later than the order, at that bar's open or worse, whatever the models charge; an
\* order that is not filled has not met that bar.
THEOREM FillsAreAtTheNextBar == Spec => []FillsAtNextBar
<1>1. EngineInvariant => FillsAtNextBar
  BY TimingMeansNextBar DEF EngineInvariant, TimeInvariant
<1>2. QED
  BY <1>1, EngineInvariantHolds, PTL

\* Whatever is filled in whatever order: cash is never negative, and nothing is sold
\* short unless the engine allows it.
THEOREM AccountsStaySolvent == Spec => []Solvent
<1>1. EngineInvariant => Solvent
  BY DEF EngineInvariant, TimeInvariant, Solvency
<1>2. QED
  BY <1>1, EngineInvariantHolds, PTL

\* A fill that was accepted against the portfolio is refused by it only after another
\* fill of the same bar.
THEOREM RefusalsFollowFills == Spec => OnlyLaterFillsRaise
<1>1. EngineInvariant /\ [Next]_vars =>
        [step = "apply" /\ step' = "idle" =>
           /\ fills # <<>>
           /\ fills[Len(fills)].timestamp = Market.timestamp
           /\ fills[Len(fills)].symbol = Market.symbol]_vars
  <2> SUFFICES ASSUME EngineInvariant, Next, step = "apply", step' = "idle" PROVE AppliedHere
    BY DEF AppliedHere
  <2>1. ApplyNext
    <3>1. ~StartRun /\ ~WarmUp /\ ~BeginEvaluation /\ ~NextBar /\ ~FinishRun
      BY DEF StartRun, WarmUp, BeginEvaluation, NextBar, FinishRun
    <3>2. ~ExecuteOrder /\ ~EndExecution /\ ~CallStrategy /\ ~TakeSignal /\ ~TakeOrder /\ ~EndBar
      BY DEF ExecuteOrder, EndExecution, CallStrategy, TakeSignal, TakeOrder, EndBar
    <3>3. ~MarkBar
      BY DEF MarkBar
    <3>4. QED
      BY <3>1, <3>2, <3>3 DEF Next, RunStep, Execute, Decide
  <2>2. QED
    BY <2>1, TimeInApplyNext DEF EngineInvariant
<1>2. QED
  BY <1>1, EngineInvariantHolds, PTL DEF Spec, OnlyLaterFillsRaise
=============================================================================
