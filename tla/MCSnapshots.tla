----------------------------- MODULE MCSnapshots -----------------------------
(***************************************************************************)
(* Snapshots for TLC: sources in all layouts and with all kinds of wrong   *)
(* cells, a source whose rows come in any order of time, and a long one of *)
(* closes that rise and fall.                                              *)
(***************************************************************************)
EXTENDS Snapshots

MCEpsilon == Ratio(1, 1000)

Usual == [position |-> Ratio(1, 2), leverage |-> One, drawdown |-> Ratio(1, 4), var |-> Ratio(1, 5)]
Payload(capital, quantity, limits) ==
  [capital |-> capital, quantity |-> quantity, commission |-> Ratio(1, 10), limits |-> limits]

Source(columns, mapping, symbol, payload, next) ==
  [columns |-> columns, mapping |-> mapping, symbol |-> symbol, payload |-> payload, next |-> next]

\* A row of the canonical columns: high and low fit open and close.
Bar(t, open, close) ==
  <<t, 1, open, IF open < close THEN close ELSE open, IF open < close THEN open ELSE close, close, 1>>

Valid == Bar(1, 2, 3)
Wrong ==
  {Valid, Bar(2, 3, 1), Bar(2, 0, 0), [Valid EXCEPT ![1] = Malformed], [Valid EXCEPT ![2] = 2],
   [Valid EXCEPT ![2] = Missing], [Valid EXCEPT ![2] = Blank], [Valid EXCEPT ![3] = Malformed],
   [Valid EXCEPT ![4] = 2], [Valid EXCEPT ![4] = Infinite], [Valid EXCEPT ![5] = 3], [Valid EXCEPT ![7] = -1]}

Dirty == {Source(Header, <<>>, symbol, Payload(10, 1, Usual), <<Wrong, Wrong, {Valid, Bar(2, 3, 1), Bar(3, 1, 2)}>>)
           : symbol \in {None, 1, Blank}}

\* Rows with a second close, or without a symbol, in headers that name, map or confuse them.
Wide(t) == <<t, 1, 2, 3, 1, 2, 1, 3>>
Columns ==
  {<<date, "ticker", "open", "high", "low", a, "vol", b>>
    : date \in {"date", "time", "tradingday"}, a \in {"close", "adjclose", "last"}, b \in {"close", "adjclose", "other"}}
Mappings ==
  {<<>>, <<[source |-> "last", target |-> "close"]>>,
   <<[source |-> "tradingday", target |-> "timestamp"], [source |-> "other", target |-> "close"]>>,
   <<[source |-> "date", target |-> "timestamp"], [source |-> "time", target |-> "timestamp"]>>,
   <<[source |-> "date", target |-> "session"]>>}
Layouts == {Source(columns, mapping, 1, Payload(10, 1, Usual), <<{Wide(2)}, {Wide(1)}>>)
             : columns \in Columns, mapping \in Mappings}
Nameless == {Source(<<"date", "other", "open", "high", "low", "close", "volume", "extra">>, <<>>, symbol, Payload(10, 1, Usual),
                    <<{Wide(2)}, {Wide(1)}>>) : symbol \in {None, 1}}

\* Positions that fit, do not fit, and leave less than nothing, and limits of all sizes.
Payloads ==
  {Payload(10, 1, Usual), Payload(10, 3, Usual), Payload(3, 2, [Usual EXCEPT !.leverage = Whole(4)]),
   Payload(100, 1, Usual)}
Refusals == {Payload(0, 1, Usual), Payload(10, 0, Usual), Payload(10, 1, [Usual EXCEPT !.var = Zero])}
Days == {Bar(t, open, close) : t \in 1 .. 3, open \in {2, 4}, close \in {1, 3}}
Shuffled ==
  {Source(Header, <<>>, 1, payload, <<Days, Days, {Bar(1, 4, 3), Bar(2, 2, 1), Bar(3, 4, 1)}>>) : payload \in Payloads}
  \cup {Source(Header, <<>>, 1, payload, <<{Valid}, {Bar(2, 3, 1)}>>) : payload \in Refusals}

Long == {Source(Header, <<>>, 1, Payload(10, 2, Usual), [i \in 1 .. 6 |-> {Bar(i, 2, close) : close \in 1 .. 3}])}

MCSources == Dirty \cup Layouts \cup Nameless \cup Shuffled \cup Long
=============================================================================
