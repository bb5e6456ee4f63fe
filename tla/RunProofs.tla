------------------------------- MODULE RunProofs -------------------------------
(***************************************************************************)
(* What a backtest leaves behind, whatever its bars, strategy and limits   *)
(*                                                                         *)
(* The money of the account is conserved, a rerun with the same arguments  *)
(* gives the same outcome, no limit refuses an order that leaves its       *)
(* position no larger, and a strategy knows its closes and its position.   *)
(***************************************************************************)
EXTENDS BacktestProofs

(***************************************************************************)
(* Totals over the held positions                                          *)
(***************************************************************************)
\* On a grid, the total of fractions is the sum of their numbers.
LEMMA TotalIsSum ==
  ASSUME NEW S, IsFiniteSet(S), NEW d \in Nat \ {0}, NEW f, DOMAIN f = S,
         NEW u, \A x \in S : u[x] \in Int /\ f[x] = Ratio(u[x], d)
  PROVE  Total(f) = Ratio(SumOver(u, S), d)
<1> DEFINE Iter(g) == g = [s \in SUBSET S |->
                             IF s = {} THEN Zero
                             ELSE f[CHOOSE x \in s : TRUE] ++ g[s \ {CHOOSE x \in s : TRUE}]]
<1>0. PICK c : c = [s \in SUBSET S |-> CHOOSE x \in s : TRUE]
  OBVIOUS
<1>1. Picks(c, S)
  BY <1>0 DEF Picks
<1>2. PICK h : Adds(u, c, S, h)
  BY <1>1, AddsExists
<1>3. \A s \in SUBSET S : h[s] \in Int
  BY <1>1, <1>2, AddsType
<1>4. ASSUME NEW s \in SUBSET S, s # {}
      PROVE  /\ c[s] \in s /\ c[s] = (CHOOSE x \in s : TRUE) /\ s \ {c[s]} \in SUBSET S
             /\ f[c[s]] ++ Ratio(h[s \ {c[s]}], d) = Ratio(h[s], d)
  <2>1. c[s] \in s /\ c[s] = (CHOOSE x \in s : TRUE) /\ s \ {c[s]} \in SUBSET S
    BY <1>0, <1>1, <1>4 DEF Picks
  <2> DEFINE x == u[c[s]]
             y == h[s \ {c[s]}]
  <2>2. x \in Int /\ y \in Int /\ f[c[s]] = Ratio(x, d) /\ h[s] = x + y
    BY <1>2, <1>3, <1>4, <2>1 DEF Adds
  <2> HIDE DEF x, y
  <2>3. Ratio(x, d) ++ Ratio(y, d) = Ratio(x + y, d)
    <3>1. /\ Ratio(x, d) \in Grid(d) /\ Units(Ratio(x, d), d) = x
          /\ Ratio(y, d) \in Grid(d) /\ Units(Ratio(y, d), d) = y
      BY <2>2, UnitsAreUnique
    <3>2. QED
      BY <3>1, GridAdds, GridFacts
  <2>4. QED
    BY <2>1, <2>2, <2>3 DEF y
<1>5. Ratio(0, d) = Zero
  BY ZeroOnGrid, GridFacts
<1>6. \E g : Iter(g)
  <2> DEFINE g == [s \in SUBSET S |-> Ratio(h[s], d)]
  <2>1. \A s \in SUBSET S : g[s] = IF s = {} THEN Zero
          ELSE f[CHOOSE x \in s : TRUE] ++ g[s \ {CHOOSE x \in s : TRUE}]
    BY <1>2, <1>4, <1>5 DEF Adds
  <2>2. g = [s \in SUBSET S |-> g[s]]
    OBVIOUS
  <2> HIDE DEF g
  <2>3. Iter(g)
    BY <2>1, <2>2, Zenon
  <2>4. QED
    BY <2>3, Zenon
<1> DEFINE g == CHOOSE g : Iter(g)
<1>7. Iter(g)
  BY <1>6, Zenon
<1>8. Total(f) = g[S]
  BY DEF Total, Funcs!FoldFunction, Funcs!FoldFunctionOnSet, Funcs!MapThenFoldSet
<1> HIDE DEF g
<1>9. g[S] = Ratio(h[S], d)
  <2> DEFINE B == {s \in SUBSET S : g[s] # Ratio(h[s], d)}
  <2>1. SUFFICES ASSUME B # {} PROVE FALSE
    BY S \in SUBSET S
  <2>2. PICK s \in B : \A t \in B : ~ (t \subseteq s /\ t # s)
    <3> HIDE DEF B
    <3>1. B \subseteq SUBSET S
      BY DEF B
    <3>2. QED
      BY <2>1, <3>1, SmallestSubset
  <2>3. CASE s = {}
    BY <1>2, <1>5, <1>7, <2>2, <2>3 DEF Adds
  <2>4. CASE s # {}
    <3>1. c[s] \in s /\ c[s] = (CHOOSE x \in s : TRUE) /\ s \ {c[s]} \in SUBSET S
      BY <1>4, <2>2, <2>4
    <3>2. g[s \ {c[s]}] = Ratio(h[s \ {c[s]}], d)
      BY <2>2, <3>1
    <3>3. g[s] = f[c[s]] ++ g[s \ {c[s]}]
      BY <1>7, <2>2, <2>4, <3>1
    <3>4. QED
      BY <1>4, <2>2, <2>4, <3>2, <3>3
  <2>5. QED
    BY <2>3, <2>4
<1>10. SumOver(u, S) = h[S]
  BY <1>1, <1>2, SumIsAny
<1>11. QED
  BY <1>8, <1>9, <1>10

\* A total of fractions of a grid is one of them.
LEMMA TotalOnGrid ==
  ASSUME NEW S, IsFiniteSet(S), NEW d \in Nat \ {0}, NEW f, DOMAIN f = S, \A x \in S : f[x] \in Grid(d)
  PROVE  /\ \A x \in S : Units(f[x], d) \in Int
         /\ Total(f) \in Grid(d)
         /\ Units(Total(f), d) = SumOver([x \in S |-> Units(f[x], d)], S)
         /\ Units(Total(f), d) \in Int
<1> DEFINE u == [x \in S |-> Units(f[x], d)]
<1>1. \A x \in S : u[x] \in Int /\ f[x] = Ratio(u[x], d) /\ u[x] = Units(f[x], d)
  BY GridFacts
<1> HIDE DEF u
<1>2. Total(f) = Ratio(SumOver(u, S), d) /\ SumOver(u, S) \in Int
  BY <1>1, TotalIsSum, SumTakes
<1>3. QED
  BY <1>1, <1>2, UnitsAreUnique DEF u

\* A total of fractions is a fraction.
LEMMA TotalIsFraction ==
  ASSUME NEW S, IsFiniteSet(S), NEW f, DOMAIN f = S, \A x \in S : f[x] \in Fractions
  PROVE  Total(f) \in Fractions
<1>1. PICK d \in Nat \ {0} : \A x \in S : f[x] \in Grid(d)
  BY CommonGrid
<1>2. QED
  BY <1>1, TotalOnGrid, GridFacts

\* A total changes by as much as one of its values does.
LEMMA TotalChangesOne ==
  ASSUME NEW S, IsFiniteSet(S), NEW f, DOMAIN f = S, NEW h, DOMAIN h = S,
         \A x \in S : f[x] \in Fractions /\ h[x] \in Fractions,
         NEW x \in S, \A y \in S \ {x} : h[y] = f[y]
  PROVE  Total(h) = Total(f) ++ (h[x] -- f[x])
<1>1. PICK d \in Nat \ {0} : (\A y \in S : f[y] \in Grid(d)) /\ h[x] \in Grid(d)
  <2>1. PICK e \in Nat \ {0} : \A y \in S : f[y] \in Grid(e)
    BY CommonGrid
  <2>2. PICK d \in Nat \ {0} : Grid(e) \subseteq Grid(d) /\ h[x] \in Grid(d)
    BY TwoOnGrid
  <2>3. QED
    BY <2>1, <2>2
<1>2. \A y \in S : h[y] \in Grid(d)
  BY <1>1
<1> DEFINE u == [y \in S |-> Units(f[y], d)]
           v == [y \in S |-> Units(h[y], d)]
<1>3. /\ \A y \in S : u[y] \in Int /\ v[y] \in Int
      /\ \A y \in S \ {x} : v[y] = u[y]
      /\ Total(f) \in Grid(d) /\ Units(Total(f), d) = SumOver(u, S) /\ SumOver(u, S) \in Int
      /\ Total(h) \in Grid(d) /\ Units(Total(h), d) = SumOver(v, S)
      /\ u[x] = Units(f[x], d) /\ v[x] = Units(h[x], d)
  BY <1>1, <1>2, TotalOnGrid
<1> HIDE DEF u, v
<1>4. SumOver(v, S) = SumOver(u, S) + (v[x] - u[x])
  BY <1>3, SumChangesOne
<1>5. h[x] -- f[x] \in Grid(d) /\ Units(h[x] -- f[x], d) = v[x] - u[x]
  BY <1>1, <1>3, GridAdds
<1>6. Total(f) ++ (h[x] -- f[x]) \in Grid(d) /\ Units(Total(f) ++ (h[x] -- f[x]), d) = SumOver(u, S) + (v[x] - u[x])
  BY <1>3, <1>5, GridAdds
<1>7. QED
  BY <1>3, <1>4, <1>6, GridIsUnique

\* Nothing in every place is nothing in all.
LEMMA TotalOfNothing ==
  ASSUME NEW S, IsFiniteSet(S)
  PROVE  Total([x \in S |-> Zero]) = Zero
<1> DEFINE u == [x \in S |-> 0]
           f == [x \in S |-> Zero]
<1>1. 1 \in Nat \ {0} /\ Zero = Ratio(0, 1)
  BY ZeroOnGrid, GridFacts
<1>2. \A x \in S : u[x] \in Int /\ f[x] = Ratio(u[x], 1)
  BY <1>1
<1>3. DOMAIN f = S /\ \A x \in S : u[x] \in Int /\ u[x] = 0
  OBVIOUS
<1> HIDE DEF u, f
<1>4. Total(f) = Ratio(SumOver(u, S), 1)
  BY <1>1, <1>2, <1>3, TotalIsSum
<1>5. SumOver(u, S) = SumOver(u, S) + SumOver(u, S) /\ SumOver(u, S) \in Int
  BY <1>3, SumOfSums, SumTakes
<1>6. SumOver(u, S) = 0
  <2>1. \A z \in Int : z = z + z => z = 0
    OBVIOUS
  <2>2. QED
    BY <1>5, <2>1, Zenon
<1>7. QED
  BY <1>1, <1>4, <1>6 DEF f
-----------------------------------------------------------------------------
(***************************************************************************)
(* What a fill changes                                                     *)
(***************************************************************************)
\* What is paid for a position and not yet realized in a profit.
Cost(pos) == pos.average ** Whole(pos.quantity) -- pos.realized

\* The average price of what was increased, times its quantity, is what was paid for it.
LEMMA DividingBack ==
  ASSUME NEW a \in Fractions, NEW k \in Int, k # 0
  PROVE  (a // Whole(k)) ** Whole(k) = a
<1>1. a.n \in Int /\ a.d \in Nat \ {0} /\ a \in Quotients /\ a = Ratio(a.n, a.d)
  BY FractionIsRatio, FractionsAreQuotients
<1> DEFINE m == Magnitude(k)
           e == IF k > 0 THEN 1 ELSE -1
           c == inverse[Whole(k)]
<1>2. m \in Nat \ {0} /\ e \in Int /\ e * k = m
  BY MagnitudeType DEF Magnitude
<1>3. Whole(k) \in Quotients /\ Whole(k).n = k /\ Whole(k).d = 1 /\ Whole(k) = Ratio(k, 1)
  BY WholeType, WholeIsFraction, FractionIsRatio
<1>4. c = [n |-> IF Whole(k).n > 0 THEN Whole(k).d ELSE -Whole(k).d, d |-> Magnitude(Whole(k).n)]
  BY <1>3 DEF inverse
<1>5. c = [n |-> e, d |-> m]
  BY <1>3, <1>4
<1>6. c \in Quotients /\ c.n = e /\ c.d = m
  BY <1>2, <1>5 DEF Quotients
<1>7. a // Whole(k) = a ** c
  BY DEF //, **
<1> HIDE DEF c, m, e
<1>8. a ** c = Ratio(a.n * e, a.d * m)
  BY <1>1, <1>6, OperationsAreRatios
<1> DEFINE n == a.n * e
           d == a.d * m
<1>9. n \in Int /\ d \in Nat \ {0}
  BY <1>1, <1>2
<1>10. (a // Whole(k)) ** Whole(k) = Ratio(n * k, d * 1)
  <2> HIDE DEF n, d
  <2>1. Ratio(n, d) ** Ratio(k, 1) = Ratio(n * k, d * 1)
    BY <1>9, RatiosAddAndMultiply
  <2>2. QED
    BY <1>3, <1>7, <1>8, <2>1 DEF n, d
<1>11. n * k = a.n * m /\ d * 1 = a.d * m
  <2>1. \A x, y, z \in Int : (x * y) * z = x * (y * z)
    OBVIOUS
  <2>2. QED
    BY <1>1, <1>2, <2>1
<1>12. Ratio(a.n * m, a.d * m) = Ratio(a.n, a.d)
  <2>1. a.n * m \in Int /\ a.d * m \in Nat \ {0} /\ (a.n * m) * a.d = a.n * (a.d * m)
    BY <1>1, <1>2
  <2>2. QED
    BY <1>1, <2>1, RatioIsUnique
<1>13. QED
  BY <1>1, <1>10, <1>11, <1>12

\* The parts of a position.
LEMMA PositionParts ==
  ASSUME NEW pos \in Positions
  PROVE  /\ pos.quantity \in Int /\ pos.average \in Fractions /\ pos.realized \in Fractions /\ pos.trips \in Nat
         /\ pos = [quantity |-> pos.quantity, average |-> pos.average, realized |-> pos.realized, trips |-> pos.trips]
BY DEF Positions

\* The cost of a position, in units of a grid.
LEMMA CostOnGrid ==
  ASSUME NEW d \in Nat \ {0}, NEW pos \in Positions, pos.average \in Grid(d), pos.realized \in Grid(d)
  PROVE  /\ Cost(pos) \in Grid(d)
         /\ Units(Cost(pos), d) = Units(pos.average, d) * pos.quantity - Units(pos.realized, d)
<1>1. pos.quantity \in Int
  BY PositionParts
<1> DEFINE worth == pos.average ** Whole(pos.quantity)
<1>2. worth \in Grid(d) /\ Units(worth, d) = Units(pos.average, d) * pos.quantity
  BY <1>1, GridScales
<1> HIDE DEF worth
<1>3. worth -- pos.realized \in Grid(d) /\ Units(worth -- pos.realized, d) = Units(worth, d) - Units(pos.realized, d)
  BY <1>2, GridAdds
<1>4. QED
  BY <1>2, <1>3 DEF Cost, worth

\* A fill changes the cost of its position by what it pays, whether it opens, increases,
\* reduces, closes or reverses it.
LEMMA FillsArePaidFor ==
  ASSUME NEW pos \in Positions, NEW side, NEW quantity \in Nat \ {0}, NEW price \in Fractions,
         ApplyFill(pos, side, quantity, price) \in Positions
  PROVE  Cost(ApplyFill(pos, side, quantity, price))
           = Cost(pos) ++ (Whole(Signed(side, quantity)) ** price)
<1> DEFINE q == pos.quantity
           c == Signed(side, quantity)
           new == ApplyFill(pos, side, quantity, price)
           total == q + c
<1>1. /\ q \in Int /\ pos.average \in Fractions /\ pos.realized \in Fractions
      /\ pos = [quantity |-> q, average |-> pos.average, realized |-> pos.realized, trips |-> pos.trips]
  BY PositionParts
<1>2. c \in Int /\ c # 0
  BY DEF Signed
<1>3. new \in Positions /\ new.average \in Fractions /\ new.realized \in Fractions
  BY PositionParts
<1>4. /\ q = 0 => new = Opened(pos, c, price)
      /\ q # 0 /\ q * c > 0 => new = Increased(pos, c, price)
      /\ q # 0 /\ ~ (q * c > 0) => new = Reduced(pos, c, price)
  BY DEF ApplyFill
<1> HIDE DEF c, new
<1>5. PICK d \in Nat \ {0} :
        /\ pos.average \in Grid(d) /\ pos.realized \in Grid(d) /\ price \in Grid(d)
        /\ new.average \in Grid(d) /\ new.realized \in Grid(d)
  <2> DEFINE f == <<pos.average, pos.realized, price, new.average, new.realized>>
  <2>2. /\ f[1] = pos.average /\ f[2] = pos.realized /\ f[3] = price
        /\ f[4] = new.average /\ f[5] = new.realized
    OBVIOUS
  <2> HIDE DEF f
  <2>1. IsFiniteSet(1 .. 5) /\ \A i \in 1 .. 5 : f[i] \in Fractions
    <3>1. \A i \in 1 .. 5 : i = 1 \/ i = 2 \/ i = 3 \/ i = 4 \/ i = 5
      OBVIOUS
    <3>2. IsFiniteSet(1 .. 5)
      <4>1. \A n \in Int : IsFiniteSet(1 .. n)
        BY FS_Interval
      <4>2. QED
        BY <4>1, 5 \in Int, Zenon
    <3>3. f[1] \in Fractions /\ f[2] \in Fractions /\ f[3] \in Fractions /\ f[4] \in Fractions /\ f[5] \in Fractions
      BY <1>1, <1>3, <2>2
    <3>4. QED
      BY <3>1, <3>2, <3>3
  <2>3. PICK d \in Nat \ {0} : \A i \in 1 .. 5 : f[i] \in Grid(d)
    BY <2>1, CommonGrid
  <2>4. QED
    BY <2>2, <2>3
<1> DEFINE a == Units(pos.average, d)
           r == Units(pos.realized, d)
           p == Units(price, d)
           b == Units(new.average, d)
           t == Units(new.realized, d)
<1>6. a \in Int /\ r \in Int /\ p \in Int /\ b \in Int /\ t \in Int
  BY <1>5, GridFacts
<1>7. Cost(pos) \in Grid(d) /\ Units(Cost(pos), d) = a * q - r
  BY <1>5, CostOnGrid
<1>8. Cost(new) \in Grid(d) /\ Units(Cost(new), d) = b * new.quantity - t
  BY <1>3, <1>5, CostOnGrid
<1>9. Whole(c) ** price \in Grid(d) /\ Units(Whole(c) ** price, d) = p * c
  BY <1>2, <1>5, GridScales
<1>10. b * new.quantity - t = (a * q - r) + p * c
  <2>1. CASE q = 0
    <3>1. new.quantity = c /\ new.average = price /\ new.realized = pos.realized
      BY <1>1, <1>4, <2>1 DEF Opened
    <3>2. b = p /\ t = r
      BY <3>1
    <3> HIDE DEF a, r, p, b, t
    <3>3. a * q = 0
      BY <1>6, <2>1
    <3>4. QED
      BY <1>2, <1>6, <3>1, <3>2, <3>3
  <2>2. CASE q # 0 /\ q * c > 0
    <3> DEFINE paid == Whole(q) ** pos.average ++ Whole(c) ** price
    <3>1. new.quantity = total /\ new.average = paid // Whole(total) /\ new.realized = pos.realized
      BY <1>1, <1>4, <2>2 DEF Increased
    <3>2. total \in Int /\ total # 0
      BY <1>1, <1>2, <2>2
    <3>3. Whole(q) ** pos.average \in Grid(d) /\ Units(Whole(q) ** pos.average, d) = a * q
      BY <1>1, <1>5, GridScales
    <3>4. paid \in Grid(d) /\ Units(paid, d) = a * q + p * c
      BY <1>9, <3>3, GridAdds
    <3>5. paid \in Fractions
      BY <3>4, GridFacts
    <3> HIDE DEF paid, total
    <3>6. new.average ** Whole(total) = paid
      BY <3>1, <3>2, <3>5, DividingBack
    <3>7. Units(new.average ** Whole(total), d) = b * total
      BY <1>5, <3>2, GridScales
    <3>8. b * total = a * q + p * c /\ t = r
      BY <3>1, <3>4, <3>6, <3>7
    <3> HIDE DEF a, r, p, b, t
    <3>9. a * q \in Int /\ p * c \in Int
      BY <1>1, <1>2, <1>6
    <3>10. QED
      BY <1>6, <3>1, <3>8, <3>9
  <2>3. CASE q # 0 /\ ~ (q * c > 0)
    <3> DEFINE crossed == Crosses(q, total)
               closed == IF crossed THEN q ELSE -c
    <3>1. /\ new.quantity = total /\ new.average = Remaining(pos, total, price)
          /\ new.realized = pos.realized ++ (price -- pos.average) ** Whole(closed)
      BY <1>4, <2>3 DEF Reduced
    <3>2. closed \in Int /\ total \in Int
      BY <1>1, <1>2
    <3>3. t = r + (p - a) * closed
      <4> HIDE DEF closed
      <4>1. price -- pos.average \in Grid(d) /\ Units(price -- pos.average, d) = p - a
        BY <1>5, GridAdds
      <4> DEFINE gain == price -- pos.average
      <4> HIDE DEF gain
      <4>2. gain ** Whole(closed) \in Grid(d) /\ Units(gain ** Whole(closed), d) = (p - a) * closed
        BY <3>2, <4>1, GridScales DEF gain
      <4>3. new.realized = pos.realized ++ gain ** Whole(closed)
        BY <3>1 DEF gain
      <4> DEFINE whole == gain ** Whole(closed)
      <4> HIDE DEF whole
      <4>4. Units(pos.realized ++ whole, d) = r + (p - a) * closed
        BY <1>5, <4>2, GridAdds DEF whole
      <4>5. QED
        BY <4>3, <4>4 DEF whole
    <3>4. b = IF total = 0 THEN 0 ELSE IF total * q < 0 THEN p ELSE a
      <4> HIDE DEF total
      <4>1. /\ total = 0 => Remaining(pos, total, price) = Zero
            /\ total # 0 /\ total * q < 0 => Remaining(pos, total, price) = price
            /\ total # 0 /\ ~ (total * q < 0) => Remaining(pos, total, price) = pos.average
        <5>1. total = 0 => ~ (total * q < 0)
          BY <1>1
        <5>2. QED
          BY <5>1 DEF Remaining
      <4>2. QED
        BY <3>1, <4>1, ZeroOnGrid
    <3> HIDE DEF a, r, p, b, t
    <3>5. CASE total = 0
      <4>1. closed = q /\ c = -q
        BY <1>1, <1>2, <3>5 DEF Crosses
      <4>2. b * new.quantity = 0
        BY <1>6, <3>1, <3>5
      <4>3. p * c = -(p * q) /\ (p - a) * q = p * q - a * q /\ p * q \in Int /\ a * q \in Int
        BY <1>1, <1>6, <4>1
      <4> HIDE DEF closed
      <4>4. QED
        BY <1>6, <3>3, <4>1, <4>2, <4>3
    <3>6. CASE total # 0 /\ total * q < 0
      <4>1. closed = q
        BY <1>1, <1>2, <3>6 DEF Crosses
      <4>2. b = p
        BY <3>4, <3>6
      <4>3. (p - a) * q = p * q - a * q /\ p * total = p * q + p * c /\ p * q \in Int /\ a * q \in Int /\ p * c \in Int
        BY <1>1, <1>2, <1>6
      <4> HIDE DEF closed, total
      <4>4. QED
        BY <1>6, <3>1, <3>3, <4>1, <4>2, <4>3
    <3>7. CASE total # 0 /\ ~ (total * q < 0)
      <4>1. q * total > 0
        BY <1>1, <1>2, <2>3, <3>2, <3>7
      <4>2. closed = -c
        BY <1>1, <3>2, <4>1 DEF Crosses
      <4>3. b = a
        BY <3>4, <3>7
      <4>4. (p - a) * (-c) = a * c - p * c /\ a * total = a * q + a * c /\ a * c \in Int /\ a * q \in Int /\ p * c \in Int
        <5>1. \A x, y, z \in Int : (x - y) * (-z) = y * z - x * z
          OBVIOUS
        <5>2. (p - a) * (-c) = a * c - p * c
          BY <1>2, <1>6, <5>1, Zenon
        <5>3. a * total = a * q + a * c
          BY <1>1, <1>2, <1>6
        <5>4. QED
          BY <1>1, <1>2, <1>6, <5>2, <5>3
      <4> HIDE DEF closed, total
      <4>5. QED
        BY <1>6, <3>1, <3>3, <4>2, <4>3, <4>4
    <3>8. QED
      BY <3>5, <3>6, <3>7
  <2>4. QED
    BY <2>1, <2>2, <2>3
<1>11. Cost(pos) ++ (Whole(c) ** price) \in Grid(d)
       /\ Units(Cost(pos) ++ (Whole(c) ** price), d) = (a * q - r) + p * c
  BY <1>7, <1>9, GridAdds
<1>12. Cost(new) = Cost(pos) ++ (Whole(c) ** price)
  BY <1>8, <1>10, <1>11, GridIsUnique
<1>13. QED
  BY <1>12 DEF new, c

\* What process_fill leaves of a portfolio,
LEMMA ProcessFillIs ==
  ASSUME NEW p, AccountOK(p), NEW f \in Fills
  PROVE  LET q == ProcessFill(p, f)
             new == ApplyFill(p.positions[f.symbol], f.side, f.quantity, f.price)
         IN  /\ q.cash = CashAfter(p, f) /\ q.commission = p.commission ++ f.commission
             /\ q.marks = p.marks /\ q.snapshots = p.snapshots
             /\ f.symbol \in Symbols /\ new \in Positions
             /\ q.positions = [p.positions EXCEPT ![f.symbol] = new]
<1> DEFINE q == ProcessFill(p, f)
           new == ApplyFill(p.positions[f.symbol], f.side, f.quantity, f.price)
           cash == CashAfter(p, f)
           fees == p.commission ++ f.commission
<1>1. AccountOK(q) /\ f.symbol \in Symbols
  BY FillKeepsAccount DEF Fills
<1>2. q = [p EXCEPT !.cash = cash, !.positions = [p.positions EXCEPT ![f.symbol] = new],
                    !.commission = fees, !.applied = p.applied \cup {f.id}]
  BY DEF ProcessFill, AccountOK
<1> HIDE DEF q, new, cash, fees
<1>3. /\ q.cash = cash /\ q.commission = fees /\ q.marks = p.marks /\ q.snapshots = p.snapshots
      /\ q.positions = [p.positions EXCEPT ![f.symbol] = new]
  BY <1>2 DEF AccountOK
<1>4. new \in Positions
  <2>1. q.positions \in [Symbols -> Positions] /\ p.positions \in [Symbols -> Positions]
    BY <1>1 DEF AccountOK
  <2>2. q.positions[f.symbol] = new
    BY <1>1, <1>3, <2>1
  <2>3. QED
    BY <1>1, <2>1, <2>2
<1>5. QED
  BY <1>1, <1>3, <1>4 DEF q, new, cash, fees

\* and mark_to_market.
LEMMA MarkToMarketIs ==
  ASSUME NEW p, AccountOK(p), NEW bar \in Bars, NEW S, p.snapshots \in Seq(S)
  PROVE  LET q == MarkToMarket(p, bar)
         IN  /\ q.cash = p.cash /\ q.commission = p.commission /\ q.positions = p.positions
             /\ q.marks = [p.marks EXCEPT ![bar.symbol] = bar.close]
             /\ q.snapshots = Append(p.snapshots, Snapshot(q, bar.timestamp))
<1> DEFINE q == MarkToMarket(p, bar)
           marked == Marked(p, bar.symbol, bar.close)
           shot == Snapshot(marked, bar.timestamp)
           marks == [p.marks EXCEPT ![bar.symbol] = bar.close]
<1>1. marked = [p EXCEPT !.marks = marks]
  BY DEF Marked
<1> HIDE DEF marks, marked
<1>2. /\ marked.cash = p.cash /\ marked.commission = p.commission /\ marked.positions = p.positions
      /\ marked.marks = marks /\ marked.snapshots = p.snapshots
  BY <1>1 DEF AccountOK
<1>3. q = [marked EXCEPT !.snapshots = Append(marked.snapshots, shot)]
  BY DEF MarkToMarket, marked
<1> HIDE DEF shot, q
<1>4. /\ q.cash = p.cash /\ q.commission = p.commission /\ q.positions = p.positions
      /\ q.marks = marks /\ q.snapshots = Append(p.snapshots, shot)
  BY <1>1, <1>2, <1>3 DEF AccountOK
<1>5. shot = Snapshot(q, bar.timestamp)
  <2>1. q.cash = marked.cash /\ q.positions = marked.positions /\ q.marks = marked.marks
    BY <1>2, <1>4
  <2>2. QED
    BY <2>1, Zenon DEF shot, Snapshot, Equity, NetExposure, GrossExposure, MarketValues, Realized, Unrealized
<1>6. QED
  BY <1>4, <1>5 DEF q, marks
-----------------------------------------------------------------------------
(***************************************************************************)
(* Money                                                                   *)
(***************************************************************************)
Costs(p) == [s \in Symbols |-> Cost(p.positions[s])]

\* What went in is what is there: cash, what the broker took, and what the positions cost.
Books(p) == (p.cash ++ p.commission) ++ Total(Costs(p))

\* The costs are fractions.
LEMMA CostsAreFractions ==
  ASSUME NEW p, AccountOK(p)
  PROVE  /\ DOMAIN Costs(p) = Symbols /\ IsFiniteSet(Symbols)
         /\ \A s \in Symbols : Costs(p)[s] = Cost(p.positions[s]) /\ Costs(p)[s] \in Fractions
         /\ Total(Costs(p)) \in Fractions
<1>1. IsFiniteSet(Symbols)
  BY BacktestAssumption
<1>2. DOMAIN Costs(p) = Symbols /\ \A s \in Symbols : Costs(p)[s] = Cost(p.positions[s])
  BY DEF Costs
<1>3. ASSUME NEW s \in Symbols PROVE Cost(p.positions[s]) \in Fractions
  <2> DEFINE pos == p.positions[s]
  <2>1. pos \in Positions
    BY DEF AccountOK
  <2> HIDE DEF pos
  <2>2. /\ pos.average \in Quotients /\ pos.realized \in Quotients /\ Whole(pos.quantity) \in Quotients
    BY <2>1, PositionParts, FractionsAreQuotients, WholeType
  <2>3. pos.average ** Whole(pos.quantity) \in Quotients
    BY <2>2, OperationTypes, FractionsAreQuotients
  <2>4. QED
    BY <2>2, <2>3, OperationTypes DEF Cost, pos
<1>4. QED
  BY <1>1, <1>2, <1>3, TotalIsFraction

\* A fill moves money between cash, commissions and positions, and makes none.
LEMMA FillKeepsBooks ==
  ASSUME NEW p, AccountOK(p), NEW f \in Fills
  PROVE  Books(ProcessFill(p, f)) = Books(p)
<1> DEFINE q == ProcessFill(p, f)
           x == f.symbol
           pos == p.positions[x]
           new == ApplyFill(pos, f.side, f.quantity, f.price)
           paid == Whole(Signed(f.side, f.quantity)) ** f.price
           old == Total(Costs(p))
           c == Cost(pos)
<1>1. /\ q.cash = (p.cash -- paid) -- f.commission /\ q.commission = p.commission ++ f.commission
      /\ x \in Symbols /\ new \in Positions /\ q.positions = [p.positions EXCEPT ![x] = new]
      /\ AccountOK(q)
  BY ProcessFillIs, FillKeepsAccount DEF CashAfter
<1>2. /\ pos \in Positions /\ p.positions \in [Symbols -> Positions]
      /\ p.cash \in Fractions /\ p.commission \in Fractions
      /\ f.commission \in Fractions /\ f.price \in Fractions /\ f.quantity \in Nat \ {0}
  BY <1>1 DEF AccountOK, Fills
<1>3. paid \in Fractions
  <2>1. Whole(Signed(f.side, f.quantity)) \in Quotients /\ f.price \in Quotients
    BY <1>2, WholeType, FractionsAreQuotients DEF Signed
  <2>2. QED
    BY <2>1, OperationTypes
<1>4. Cost(new) = c ++ paid
  BY <1>1, <1>2, FillsArePaidFor
<1> HIDE DEF q, new, paid, x
<1>5. /\ Costs(q)[x] = c ++ paid /\ Costs(p)[x] = c /\ c \in Fractions /\ old \in Fractions
      /\ \A s \in Symbols \ {x} : Costs(q)[s] = Costs(p)[s]
  BY <1>1, <1>2, <1>4, CostsAreFractions DEF pos
<1>6. Total(Costs(q)) = old ++ ((c ++ paid) -- c)
  <2>1. Total(Costs(q)) = Total(Costs(p)) ++ (Costs(q)[x] -- Costs(p)[x])
    BY <1>1, <1>5, CostsAreFractions, TotalChangesOne
  <2>2. QED
    BY <1>5, <2>1
<1> HIDE DEF old, c
<1>7. PICK d \in Nat \ {0} :
        /\ p.cash \in Grid(d) /\ p.commission \in Grid(d) /\ f.commission \in Grid(d)
        /\ paid \in Grid(d) /\ c \in Grid(d) /\ old \in Grid(d)
  <2>1. PICK d1 \in Nat \ {0} : p.cash \in Grid(d1)
    BY <1>2, FractionOnGrid
  <2>2. PICK d2 \in Nat \ {0} : Grid(d1) \subseteq Grid(d2) /\ p.commission \in Grid(d2)
    BY <1>2, TwoOnGrid
  <2>3. PICK d3 \in Nat \ {0} : Grid(d2) \subseteq Grid(d3) /\ f.commission \in Grid(d3)
    BY <1>2, TwoOnGrid
  <2>4. PICK d4 \in Nat \ {0} : Grid(d3) \subseteq Grid(d4) /\ paid \in Grid(d4)
    BY <1>3, TwoOnGrid
  <2>5. PICK d5 \in Nat \ {0} : Grid(d4) \subseteq Grid(d5) /\ c \in Grid(d5)
    BY <1>5, TwoOnGrid
  <2>6. PICK d6 \in Nat \ {0} : Grid(d5) \subseteq Grid(d6) /\ old \in Grid(d6)
    BY <1>5, TwoOnGrid
  <2>7. QED
    BY <2>1, <2>2, <2>3, <2>4, <2>5, <2>6
<1> DEFINE U(a) == Units(a, d)
<1>8. /\ U(p.cash) \in Int /\ U(p.commission) \in Int /\ U(f.commission) \in Int
      /\ U(paid) \in Int /\ U(c) \in Int /\ U(old) \in Int
  BY <1>7, GridFacts
<1>9. q.cash \in Grid(d) /\ U(q.cash) = (U(p.cash) - U(paid)) - U(f.commission)
  <2>1. p.cash -- paid \in Grid(d) /\ U(p.cash -- paid) = U(p.cash) - U(paid)
    BY <1>7, GridAdds
  <2>2. QED
    BY <1>1, <1>7, <2>1, GridAdds
<1>10. q.commission \in Grid(d) /\ U(q.commission) = U(p.commission) + U(f.commission)
  BY <1>1, <1>7, GridAdds
<1>11. Total(Costs(q)) \in Grid(d) /\ U(Total(Costs(q))) = U(old) + ((U(c) + U(paid)) - U(c))
  <2>1. c ++ paid \in Grid(d) /\ U(c ++ paid) = U(c) + U(paid)
    BY <1>7, GridAdds
  <2>2. (c ++ paid) -- c \in Grid(d) /\ U((c ++ paid) -- c) = (U(c) + U(paid)) - U(c)
    BY <1>7, <2>1, GridAdds
  <2>3. QED
    BY <1>6, <1>7, <2>2, GridAdds
<1>12. Books(q) \in Grid(d) /\ U(Books(q)) = (U(q.cash) + U(q.commission)) + U(Total(Costs(q)))
  <2>1. q.cash ++ q.commission \in Grid(d) /\ U(q.cash ++ q.commission) = U(q.cash) + U(q.commission)
    BY <1>9, <1>10, GridAdds
  <2>2. QED
    BY <1>11, <2>1, GridAdds DEF Books
<1>13. Books(p) \in Grid(d) /\ U(Books(p)) = (U(p.cash) + U(p.commission)) + U(old)
  <2>1. p.cash ++ p.commission \in Grid(d) /\ U(p.cash ++ p.commission) = U(p.cash) + U(p.commission)
    BY <1>7, GridAdds
  <2>2. QED
    BY <1>7, <2>1, GridAdds DEF Books, old
<1>14. U(Books(q)) = U(Books(p))
  <2> HIDE DEF U
  <2>1. QED
    BY <1>8, <1>9, <1>10, <1>11, <1>12, <1>13
<1>15. QED
  BY <1>12, <1>13, <1>14, GridIsUnique DEF q

\* A new portfolio holds its capital.
LEMMA NewBooks ==
  ASSUME NEW capital \in Int, NEW allowShort
  PROVE  Books(NewPortfolio(capital, allowShort)) = Whole(capital)
<1> DEFINE p == NewPortfolio(capital, allowShort)
           w == Whole(capital)
<1>1. /\ p.cash = w /\ p.commission = Zero /\ p.positions = [s \in Symbols |-> FlatPosition]
  BY DEF NewPortfolio
<1>2. FlatPosition \in Positions /\ FlatPosition.average = Zero /\ FlatPosition.realized = Zero /\ FlatPosition.quantity = 0
  BY ZeroType DEF FlatPosition, Positions
<1>3. 1 \in Nat \ {0} /\ Zero \in Grid(1) /\ Units(Zero, 1) = 0 /\ w \in Grid(1) /\ Units(w, 1) \in Int
  BY ZeroOnGrid, WholeOnGrid
<1> HIDE DEF p, w
<1>4. Cost(FlatPosition) = Zero
  <2>1. /\ Cost(FlatPosition) \in Grid(1)
        /\ Units(Cost(FlatPosition), 1) = 0 * 0 - 0
    BY <1>2, <1>3, CostOnGrid
  <2>2. QED
    BY <1>3, <2>1, GridIsUnique
<1>5. Costs(p) = [s \in Symbols |-> Zero]
  BY <1>1, <1>4 DEF Costs
<1>6. Total(Costs(p)) = Zero
  BY <1>5, TotalOfNothing, BacktestAssumption
<1>7. w ++ Zero \in Grid(1) /\ Units(w ++ Zero, 1) = Units(w, 1) + 0
  BY <1>3, GridAdds
<1>8. (w ++ Zero) ++ Zero \in Grid(1) /\ Units((w ++ Zero) ++ Zero, 1) = Units(w ++ Zero, 1) + 0
  BY <1>3, <1>7, GridAdds
<1>9. (w ++ Zero) ++ Zero = w
  BY <1>3, <1>7, <1>8, GridIsUnique
<1>10. QED
  BY <1>1, <1>6, <1>9 DEF Books, p, w

\* When the books are right, equity is the capital and the profits less commissions.
LEMMA BooksMeanEquity ==
  ASSUME NEW p, AccountOK(p), NEW capital \in Int, Books(p) = Whole(capital)
  PROVE  /\ Equity(p) = ((Whole(capital) ++ Realized(p)) ++ Unrealized(p)) -- p.commission
         /\ (Realized(p) ++ Unrealized(p)) -- p.commission = Equity(p) -- Whole(capital)
<1> DEFINE pos(s) == p.positions[s]
           mark(s) == Whole(p.marks[s])
           realized == [s \in Symbols |-> pos(s).realized]
           average == [s \in Symbols |-> pos(s).average]
           paper == [s \in Symbols |-> (mark(s) -- pos(s).average) ** Whole(pos(s).quantity)]
           values == [s \in Symbols |-> Whole(pos(s).quantity * p.marks[s])]
           w == Whole(capital)
<1>1. IsFiniteSet(Symbols)
  BY BacktestAssumption
<1>2. ASSUME NEW s \in Symbols
      PROVE  /\ pos(s) \in Positions /\ pos(s).quantity \in Int /\ p.marks[s] \in Int
             /\ pos(s).average \in Fractions /\ pos(s).realized \in Fractions
  BY PositionParts DEF AccountOK
<1>3. PICK d \in Nat \ {0} :
        /\ \A s \in Symbols : pos(s).average \in Grid(d) /\ pos(s).realized \in Grid(d)
        /\ p.cash \in Grid(d) /\ p.commission \in Grid(d)
  <2>1. PICK d1 \in Nat \ {0} : \A s \in Symbols : average[s] \in Grid(d1)
    <3>1. \A s \in Symbols : average[s] \in Fractions
      BY <1>2
    <3> HIDE DEF average
    <3>2. QED
      BY <1>1, <3>1, CommonGrid
  <2>2. PICK d2 \in Nat \ {0} : \A s \in Symbols : realized[s] \in Grid(d2)
    <3>1. \A s \in Symbols : realized[s] \in Fractions
      BY <1>2
    <3> HIDE DEF realized
    <3>2. QED
      BY <1>1, <3>1, CommonGrid
  <2> DEFINE d3 == d1 * d2
  <2>3. d3 \in Nat \ {0} /\ Grid(d1) \subseteq Grid(d3) /\ Grid(d2) \subseteq Grid(d3)
    BY FinerGrid
  <2> HIDE DEF d3
  <2>4. PICK d4 \in Nat \ {0} : Grid(d3) \subseteq Grid(d4) /\ p.cash \in Grid(d4)
    BY <2>3, TwoOnGrid DEF AccountOK
  <2>5. PICK d5 \in Nat \ {0} : Grid(d4) \subseteq Grid(d5) /\ p.commission \in Grid(d5)
    BY TwoOnGrid DEF AccountOK
  <2>6. QED
    BY <2>1, <2>2, <2>3, <2>4, <2>5
<1> DEFINE U(a) == Units(a, d)
           r == [s \in Symbols |-> U(realized[s])]
           u == [s \in Symbols |-> U(paper[s])]
           v == [s \in Symbols |-> U(values[s])]
           c == [s \in Symbols |-> U(Costs(p)[s])]
           b == [s \in Symbols |-> u[s] + c[s]]
<1>4. ASSUME NEW s \in Symbols
      PROVE  /\ realized[s] \in Grid(d) /\ paper[s] \in Grid(d) /\ values[s] \in Grid(d) /\ Costs(p)[s] \in Grid(d)
             /\ U(realized[s]) \in Int /\ U(paper[s]) \in Int /\ U(values[s]) \in Int /\ U(Costs(p)[s]) \in Int
             /\ U(values[s]) = (U(paper[s]) + U(Costs(p)[s])) + U(realized[s])
  <2> DEFINE q == pos(s).quantity
             m == p.marks[s]
             a == Units(pos(s).average, d)
             g == Units(pos(s).realized, d)
             gap == mark(s) -- pos(s).average
  <2>1. q \in Int /\ m \in Int /\ a \in Int /\ g \in Int
    BY <1>2, <1>3, GridFacts
  <2>2. values[s] \in Grid(d) /\ U(values[s]) = (q * m) * d
    <3>1. q * m \in Int /\ values[s] = Whole(q * m)
      BY <2>1
    <3>2. QED
      BY <3>1, WholeOnGrid
  <2>3. gap \in Grid(d) /\ U(gap) = m * d - a
    <3>1. mark(s) \in Grid(d) /\ U(mark(s)) = m * d
      BY <2>1, WholeOnGrid
    <3>2. QED
      BY <1>3, <3>1, GridAdds
  <2>4. paper[s] \in Grid(d) /\ U(paper[s]) = (m * d - a) * q
    <3>1. paper[s] = gap ** Whole(q)
      OBVIOUS
    <3> HIDE DEF gap, q, m, a, paper
    <3>2. gap ** Whole(q) \in Grid(d) /\ Units(gap ** Whole(q), d) = Units(gap, d) * q
      BY <2>1, <2>3, GridScales
    <3>3. QED
      BY <2>3, <3>1, <3>2
  <2>5. Costs(p)[s] \in Grid(d) /\ U(Costs(p)[s]) = a * q - g
    <3>1. Costs(p)[s] = Cost(pos(s))
      BY DEF Costs
    <3>2. QED
      BY <1>2, <1>3, <3>1, CostOnGrid
  <2>6. realized[s] \in Grid(d) /\ U(realized[s]) = g
    BY <1>3
  <2>7. /\ (q * m) * d = ((m * d - a) * q + (a * q - g)) + g
        /\ (q * m) * d \in Int /\ (m * d - a) * q \in Int /\ a * q - g \in Int
    <3> HIDE DEF a, g, q, m
    <3>1. (q * m) * d = (m * d) * q /\ (m * d - a) * q = (m * d) * q - a * q /\ (m * d) * q \in Int /\ a * q \in Int
      BY <2>1
    <3>2. QED
      BY <2>1, <3>1
  <2> HIDE DEF U, realized, paper, values
  <2>8. QED
    BY <2>1, <2>2, <2>4, <2>5, <2>6, <2>7
<1> HIDE DEF realized, paper, values
<1>5. Realized(p) = Total(realized) /\ Unrealized(p) = Total(paper) /\ NetExposure(p) = Total(values)
  BY DEF Realized, Unrealized, NetExposure, MarketValues, realized, paper, values
<1>6. DOMAIN realized = Symbols /\ DOMAIN paper = Symbols /\ DOMAIN values = Symbols /\ DOMAIN Costs(p) = Symbols
  BY DEF realized, paper, values, Costs
<1>7. /\ Total(realized) \in Grid(d) /\ U(Total(realized)) = SumOver(r, Symbols)
      /\ Total(paper) \in Grid(d) /\ U(Total(paper)) = SumOver(u, Symbols)
      /\ Total(values) \in Grid(d) /\ U(Total(values)) = SumOver(v, Symbols)
      /\ Total(Costs(p)) \in Grid(d) /\ U(Total(Costs(p))) = SumOver(c, Symbols)
  <2>1. Total(realized) \in Grid(d) /\ U(Total(realized)) = SumOver(r, Symbols)
    BY <1>1, <1>4, <1>6, TotalOnGrid
  <2>2. Total(paper) \in Grid(d) /\ U(Total(paper)) = SumOver(u, Symbols)
    BY <1>1, <1>4, <1>6, TotalOnGrid
  <2>3. Total(values) \in Grid(d) /\ U(Total(values)) = SumOver(v, Symbols)
    BY <1>1, <1>4, <1>6, TotalOnGrid
  <2>4. Total(Costs(p)) \in Grid(d) /\ U(Total(Costs(p))) = SumOver(c, Symbols)
    BY <1>1, <1>4, <1>6, TotalOnGrid
  <2>5. QED
    BY <2>1, <2>2, <2>3, <2>4
<1>8. \A s \in Symbols : /\ r[s] \in Int /\ u[s] \in Int /\ v[s] \in Int /\ c[s] \in Int /\ b[s] \in Int
                         /\ b[s] = u[s] + c[s] /\ v[s] = b[s] + r[s]
  BY <1>4
<1> HIDE DEF r, u, v, c, b
<1>9. /\ SumOver(v, Symbols) = (SumOver(u, Symbols) + SumOver(c, Symbols)) + SumOver(r, Symbols)
      /\ SumOver(u, Symbols) \in Int /\ SumOver(c, Symbols) \in Int /\ SumOver(r, Symbols) \in Int
  <2>1. SumOver(b, Symbols) = SumOver(u, Symbols) + SumOver(c, Symbols)
    BY <1>1, <1>8, SumOfSums
  <2>2. SumOver(v, Symbols) = SumOver(b, Symbols) + SumOver(r, Symbols)
    BY <1>1, <1>8, SumOfSums
  <2>3. SumOver(u, Symbols) \in Int /\ SumOver(c, Symbols) \in Int /\ SumOver(r, Symbols) \in Int
    BY <1>1, <1>8, SumTakes
  <2>4. QED
    BY <2>1, <2>2, <2>3
<1>10. U(p.cash) \in Int /\ U(p.commission) \in Int /\ w \in Grid(d) /\ U(w) \in Int
  BY <1>3, GridFacts, WholeOnGrid
<1> DEFINE x == Realized(p)
           y == Unrealized(p)
           e == Equity(p)
<1>11. /\ x \in Grid(d) /\ U(x) = SumOver(r, Symbols) /\ y \in Grid(d) /\ U(y) = SumOver(u, Symbols)
  BY <1>5, <1>7
<1>12. e \in Grid(d) /\ U(e) = U(p.cash) + SumOver(v, Symbols)
  BY <1>3, <1>5, <1>7, GridAdds DEF Equity
<1>13. U(w) = (U(p.cash) + U(p.commission)) + SumOver(c, Symbols)
  <2>1. p.cash ++ p.commission \in Grid(d) /\ U(p.cash ++ p.commission) = U(p.cash) + U(p.commission)
    BY <1>3, GridAdds
  <2>2. U(Books(p)) = U(p.cash ++ p.commission) + U(Total(Costs(p)))
    BY <1>7, <2>1, GridAdds DEF Books
  <2>3. QED
    BY <1>7, <2>1, <2>2
<1> HIDE DEF w, x, y, e
<1>14. /\ ((w ++ x) ++ y) -- p.commission \in Grid(d)
       /\ U(((w ++ x) ++ y) -- p.commission) = ((U(w) + U(x)) + U(y)) - U(p.commission)
  <2>1. w ++ x \in Grid(d) /\ U(w ++ x) = U(w) + U(x)
    BY <1>10, <1>11, GridAdds
  <2>2. (w ++ x) ++ y \in Grid(d) /\ U((w ++ x) ++ y) = U(w ++ x) + U(y)
    BY <1>11, <2>1, GridAdds
  <2>3. QED
    BY <1>3, <2>1, <2>2, GridAdds
<1>15. (x ++ y) -- p.commission \in Grid(d) /\ U((x ++ y) -- p.commission) = (U(x) + U(y)) - U(p.commission)
  <2>1. x ++ y \in Grid(d) /\ U(x ++ y) = U(x) + U(y)
    BY <1>11, GridAdds
  <2>2. QED
    BY <1>3, <2>1, GridAdds
<1>16. e -- w \in Grid(d) /\ U(e -- w) = U(e) - U(w)
  BY <1>10, <1>12, GridAdds
<1>17. U(e) = U(((w ++ x) ++ y) -- p.commission) /\ U((x ++ y) -- p.commission) = U(e -- w)
  <2> HIDE DEF U
  <2>1. QED
    BY <1>9, <1>10, <1>11, <1>12, <1>13, <1>14, <1>15, <1>16
<1>18. QED
  BY <1>12, <1>14, <1>15, <1>16, <1>17, GridIsUnique DEF w, x, y, e
-----------------------------------------------------------------------------
(***************************************************************************)
(* Positions                                                               *)
(***************************************************************************)
\* What a fill adds to the position in s,
Delta(s, f) == IF f.symbol = s THEN Signed(f.side, f.quantity) ELSE 0

Deltas(u, s) == [k \in DOMAIN u |-> Delta(s, u[k])]

\* what the first i of the fills u add to it,
Held(u, s, i) == SumOver(Deltas(u, s), 1 .. i)

\* and which of them bring it to zero or through it.
Crossings(u, s) == {i \in DOMAIN u : Held(u, s, i - 1) # 0 /\ Held(u, s, i) * Held(u, s, i - 1) <= 0}

LEMMA DeltaType ==
  ASSUME NEW u \in Seq(Fills), NEW s
  PROVE  /\ DOMAIN u = 1 .. Len(u) /\ Len(u) \in Nat /\ IsFiniteSet(DOMAIN u)
         /\ \A k \in DOMAIN u : u[k] \in Fills /\ Deltas(u, s)[k] = Delta(s, u[k]) /\ Delta(s, u[k]) \in Int
<1>1. DOMAIN u = 1 .. Len(u) /\ Len(u) \in Nat /\ \A k \in DOMAIN u : u[k] \in Fills
  OBVIOUS
<1>2. IsFiniteSet(DOMAIN u)
  BY <1>1, FS_Interval
<1>3. \A f \in Fills : Delta(s, f) \in Int
  BY DEF Delta, Signed, Fills
<1>4. QED
  BY <1>1, <1>2, <1>3 DEF Deltas

\* The fold over fills is their sum.
LEMMA FoldIsSum ==
  ASSUME NEW v \in Seq(Fills), NEW x
  PROVE  Seqs!FoldLeft(LAMBDA q, f : IF f.symbol = x THEN q + Signed(f.side, f.quantity) ELSE q, 0, v)
           = SumOver(Deltas(v, x), DOMAIN v)
<1> DEFINE D == DOMAIN v
           Last(s) == CHOOSE y \in s : \A z \in s : y >= z
           Plus(q, f) == IF f.symbol = x THEN q + Signed(f.side, f.quantity) ELSE q
           Iter(g) == g = [s \in SUBSET D |-> IF s = {} THEN 0 ELSE Plus(g[s \ {Last(s)}], v[Last(s)])]
           e == Deltas(v, x)
<1>1. /\ D = 1 .. Len(v) /\ Len(v) \in Nat /\ IsFiniteSet(D)
      /\ \A k \in D : e[k] \in Int /\ \A q \in Int : Plus(q, v[k]) = e[k] + q
  <2>1. \A k \in D : e[k] = Delta(x, v[k]) /\ e[k] \in Int
    BY DeltaType
  <2>2. ASSUME NEW k \in D, NEW q \in Int PROVE Plus(q, v[k]) = e[k] + q
    BY <2>1 DEF Delta
  <2>3. QED
    BY <2>1, <2>2, DeltaType
<1>2. PICK c : c = [s \in SUBSET D |-> Last(s)]
  OBVIOUS
<1>3. Picks(c, D)
  <2>1. \A s \in SUBSET (1 .. Len(v)) : c[s] = CHOOSE y \in s : \A z \in s : y >= z
    BY <1>1, <1>2, Zenon
  <2>2. Picks(c, 1 .. Len(v))
    BY <1>1, <2>1, LastIsPicked, Zenon
  <2>3. QED
    BY <1>1, <2>2, Zenon
<1> HIDE DEF Plus, Last, e, D
<1>4. PICK h : Adds(e, c, D, h)
  BY <1>1, <1>3, AddsExists
<1>5. \A s \in SUBSET D : h[s] \in Int
  BY <1>1, <1>3, <1>4, AddsType
<1>6. ASSUME NEW s \in SUBSET D, s # {}
      PROVE  /\ Last(s) \in s /\ s \ {Last(s)} \in SUBSET D
             /\ Plus(h[s \ {Last(s)}], v[Last(s)]) = h[s]
  <2>1. Last(s) = c[s] /\ Last(s) \in s /\ s \ {Last(s)} \in SUBSET D
    BY <1>2, <1>3, <1>6 DEF Picks
  <2>2. h[s] = e[Last(s)] + h[s \ {Last(s)}] /\ h[s \ {Last(s)}] \in Int
    BY <1>4, <1>5, <1>6, <2>1 DEF Adds
  <2>3. QED
    BY <1>1, <2>1, <2>2
<1>7. \E g : Iter(g)
  <2> DEFINE g == [s \in SUBSET D |-> h[s]]
  <2>1. \A s \in SUBSET D : g[s] = IF s = {} THEN 0 ELSE Plus(g[s \ {Last(s)}], v[Last(s)])
    BY <1>4, <1>6 DEF Adds
  <2>2. g = [s \in SUBSET D |-> g[s]]
    OBVIOUS
  <2> HIDE DEF g
  <2>3. Iter(g)
    BY <2>1, <2>2, Zenon
  <2>4. QED
    BY <2>3, Zenon
<1> DEFINE g == CHOOSE g : Iter(g)
<1>8. Iter(g)
  BY <1>7, Zenon
<1>9. Seqs!FoldLeft(LAMBDA q, f : IF f.symbol = x THEN q + Signed(f.side, f.quantity) ELSE q, 0, v) = g[D]
  BY DEF Seqs!FoldLeft, Seqs!MapThenFoldSet, Seqs!Max, Last, Plus, D
<1> HIDE DEF g
<1>10. g[D] = h[D]
  <2> DEFINE B == {s \in SUBSET D : g[s] # h[s]}
  <2>1. SUFFICES ASSUME B # {} PROVE FALSE
    BY D \in SUBSET D
  <2>2. PICK s \in B : \A t \in B : ~ (t \subseteq s /\ t # s)
    <3> HIDE DEF B
    <3>1. B \subseteq SUBSET D
      BY DEF B
    <3>2. IsFiniteSet(D)
      BY <1>1
    <3>3. QED
      BY <2>1, <3>1, <3>2, SmallestSubset
  <2>3. CASE s = {}
    BY <1>4, <1>8, <2>2, <2>3 DEF Adds
  <2>4. CASE s # {}
    <3>1. Last(s) \in s /\ s \ {Last(s)} \in SUBSET D /\ Plus(h[s \ {Last(s)}], v[Last(s)]) = h[s]
      BY <1>6, <2>2, <2>4
    <3>2. g[s \ {Last(s)}] = h[s \ {Last(s)}]
      BY <2>2, <3>1
    <3>3. g[s] = Plus(g[s \ {Last(s)}], v[Last(s)])
      BY <1>8, <2>2, <2>4
    <3>4. QED
      BY <2>2, <3>1, <3>2, <3>3
  <2>5. QED
    BY <2>3, <2>4
<1>11. SumOver(e, D) = h[D]
  BY <1>1, <1>3, <1>4, SumIsAny
<1>12. QED
  BY <1>9, <1>10, <1>11 DEF e, D

\* What PositionAfter computes.
LEMMA PositionAfterIsHeld ==
  ASSUME fills \in Seq(Fills), NEW s, NEW i \in 0 .. Len(fills)
  PROVE  PositionAfter(s, i) = Held(fills, s, i)
<1> DEFINE v == SubSeq(fills, 1, i)
<1>1. v \in Seq(Fills) /\ DOMAIN v = 1 .. i /\ \A k \in 1 .. i : v[k] = fills[k] /\ k \in DOMAIN fills
  <2>1. Len(fills) \in Nat /\ i \in Nat /\ i <= Len(fills)
    OBVIOUS
  <2>2. v = [k \in 1 .. i |-> fills[k]]
    BY <2>1
  <2>3. QED
    BY <2>1, <2>2
<1>2. PositionAfter(s, i)
        = Seqs!FoldLeft(LAMBDA q, f : IF f.symbol = s THEN q + Signed(f.side, f.quantity) ELSE q, 0, v)
  BY DEF PositionAfter
<1> HIDE DEF v
<1>3. PositionAfter(s, i) = SumOver(Deltas(v, s), 1 .. i)
  BY <1>1, <1>2, FoldIsSum
<1>4. \A k \in 1 .. i : Deltas(v, s)[k] \in Int /\ Deltas(fills, s)[k] = Deltas(v, s)[k]
  <2>1. \A k \in 1 .. i : Deltas(v, s)[k] = Delta(s, v[k]) /\ Delta(s, v[k]) \in Int
    BY <1>1, DeltaType
  <2>2. \A k \in 1 .. i : Deltas(fills, s)[k] = Delta(s, fills[k])
    BY <1>1, DeltaType
  <2>3. QED
    BY <1>1, <2>1, <2>2
<1>5. IsFiniteSet(1 .. i)
  BY FS_Interval
<1>6. SumOver(Deltas(fills, s), 1 .. i) = SumOver(Deltas(v, s), 1 .. i)
  BY <1>4, <1>5, SumSame
<1>7. QED
  BY <1>3, <1>6 DEF Held

\* One more fill adds what it buys or sells, and leaves the earlier sums alone.
LEMMA HeldOfAppend ==
  ASSUME NEW u \in Seq(Fills), NEW f \in Fills, NEW s
  PROVE  /\ Append(u, f) \in Seq(Fills) /\ Len(u) \in Nat /\ Len(Append(u, f)) = Len(u) + 1
         /\ \A i \in 0 .. Len(u) : Held(u, s, i) \in Int /\ Held(Append(u, f), s, i) = Held(u, s, i)
         /\ Held(Append(u, f), s, Len(u) + 1) = Held(u, s, Len(u)) + Delta(s, f)
         /\ Delta(s, f) \in Int
<1> DEFINE w == Append(u, f)
           n == Len(u)
           d == Deltas(u, s)
           e == Deltas(w, s)
<1>1. /\ w \in Seq(Fills) /\ n \in Nat /\ Len(w) = n + 1 /\ w[n + 1] = f
      /\ DOMAIN u = 1 .. n /\ DOMAIN w = 1 .. n + 1 /\ \A k \in 1 .. n : w[k] = u[k]
  OBVIOUS
<1>2. \A k \in 1 .. n : d[k] = Delta(s, u[k]) /\ d[k] \in Int
  BY <1>1, DeltaType
<1>3. \A k \in 1 .. n + 1 : e[k] = Delta(s, w[k]) /\ e[k] \in Int
  <2> HIDE DEF w
  <2>1. QED
    BY <1>1, DeltaType
<1> HIDE DEF w, n, d, e
<1>4. \A k \in 1 .. n : e[k] = d[k] /\ d[k] \in Int
  BY <1>1, <1>2, <1>3
<1>5. ASSUME NEW i \in 0 .. n
      PROVE  SumOver(d, 1 .. i) \in Int /\ SumOver(e, 1 .. i) = SumOver(d, 1 .. i)
  <2>1. \A k \in 1 .. i : e[k] = d[k] /\ d[k] \in Int
    BY <1>1, <1>4
  <2>0. IsFiniteSet(1 .. i)
    BY FS_Interval
  <2>2. SumOver(e, 1 .. i) = SumOver(d, 1 .. i)
    BY <2>0, <2>1, SumSame
  <2>3. QED
    BY <2>0, <2>1, <2>2, SumTakes
<1>6. SumOver(e, 1 .. n + 1) = SumOver(d, 1 .. n) + Delta(s, f)
  <2>0. IsFiniteSet(1 .. n)
    BY <1>1, FS_Interval
  <2>1. /\ n + 1 \notin 1 .. n /\ 1 .. n + 1 = (1 .. n) \cup {n + 1}
        /\ n \in 0 .. n /\ e[n + 1] = Delta(s, f)
    BY <1>1, <1>3
  <2>2. \A k \in (1 .. n) \cup {n + 1} : e[k] \in Int
    BY <1>3, <2>1
  <2>3. SumOver(e, (1 .. n) \cup {n + 1}) = SumOver(e, 1 .. n) + e[n + 1]
    BY <2>0, <2>1, <2>2, SumAddsOne
  <2>4. QED
    BY <1>5, <2>1, <2>3
<1>7. Delta(s, f) \in Int
  BY <1>1, <1>3
<1>8. QED
  BY <1>1, <1>5, <1>6, <1>7 DEF Held, w, n, d, e

\* It crosses zero or not, and so do the earlier ones.
LEMMA CrossingsOfAppend ==
  ASSUME NEW u \in Seq(Fills), NEW f \in Fills, NEW s
  PROVE  LET old == Held(u, s, Len(u))
             new == old + Delta(s, f)
         IN  /\ Cardinality(Crossings(u, s)) \in Nat
             /\ Cardinality(Crossings(Append(u, f), s))
                  = Cardinality(Crossings(u, s)) + (IF old # 0 /\ new * old <= 0 THEN 1 ELSE 0)
<1> DEFINE w == Append(u, f)
           n == Len(u)
           old == Held(u, s, n)
           new == old + Delta(s, f)
           C == Crossings(u, s)
           X == old # 0 /\ new * old <= 0
<1>1. /\ n \in Nat /\ DOMAIN u = 1 .. n /\ DOMAIN w = 1 .. n + 1
      /\ \A i \in 0 .. n : Held(w, s, i) = Held(u, s, i)
      /\ Held(w, s, n + 1) = new
  <2>1. n \in Nat /\ DOMAIN u = 1 .. n /\ DOMAIN w = 1 .. n + 1
    OBVIOUS
  <2>2. (\A i \in 0 .. n : Held(w, s, i) = Held(u, s, i)) /\ Held(w, s, n + 1) = new
    <3> HIDE DEF old, new, w, n
    <3>1. /\ Append(u, f) \in Seq(Fills) /\ Len(u) \in Nat /\ Len(Append(u, f)) = Len(u) + 1
          /\ \A i \in 0 .. Len(u) : Held(u, s, i) \in Int /\ Held(Append(u, f), s, i) = Held(u, s, i)
          /\ Held(Append(u, f), s, Len(u) + 1) = Held(u, s, Len(u)) + Delta(s, f)
          /\ Delta(s, f) \in Int
      BY HeldOfAppend, Zenon
    <3>2. QED
      BY <3>1 DEF w, n, new, old
  <2>3. QED
    BY <2>1, <2>2
<1> HIDE DEF w, n, new
<1>2. \A i \in 1 .. n : i \in Crossings(w, s) <=> i \in C
  BY <1>1 DEF Crossings
<1>3. n + 1 \in Crossings(w, s) <=> X
  <2>1. n + 1 \in DOMAIN w /\ n \in 0 .. n /\ (n + 1) - 1 = n
    BY <1>1
  <2>2. QED
    BY <1>1, <2>1 DEF Crossings
<1>4. C \subseteq 1 .. n /\ Crossings(w, s) \subseteq 1 .. n + 1
  BY <1>1 DEF Crossings
<1>5. Crossings(w, s) = IF X THEN C \cup {n + 1} ELSE C
  <2> HIDE DEF C, X
  <2>1. 1 .. n + 1 = (1 .. n) \cup {n + 1} /\ n + 1 \notin 1 .. n
    BY <1>1
  <2>2. \A i : i \in Crossings(w, s) <=> i \in C \/ (i = n + 1 /\ X)
    BY <1>2, <1>3, <1>4, <2>1, Zenon
  <2>3. CASE X
    BY <2>2, <2>3
  <2>4. CASE ~X
    BY <2>2, <2>4
  <2>5. QED
    BY <2>3, <2>4
<1>6. IsFiniteSet(C) /\ Cardinality(C) \in Nat /\ n + 1 \notin C
  <2>1. IsFiniteSet(1 .. n) /\ n + 1 \notin 1 .. n
    BY <1>1, FS_Interval
  <2>2. IsFiniteSet(C)
    BY <1>4, <2>1, FS_Subset
  <2>3. QED
    BY <1>4, <2>1, <2>2, FS_CardinalityType
<1>7. Cardinality(C \cup {n + 1}) = Cardinality(C) + 1
  BY <1>6, FS_AddElement
<1> HIDE DEF C
<1>8. Cardinality(Crossings(w, s)) = Cardinality(C) + (IF X THEN 1 ELSE 0)
  BY <1>5, <1>6, <1>7
<1>9. QED
  BY <1>6, <1>8 DEF w, n, new, C, X

\* A portfolio's positions are the sums of the fills u, and its round trips their crossings.
Follows(p, u) ==
  \A s \in Symbols :
    /\ p.positions[s].quantity = Held(u, s, Len(u))
    /\ p.positions[s].trips = Cardinality(Crossings(u, s))

\* Applying a fill counts a trip when the position reaches zero or passes it.
LEMMA TripsAfter ==
  ASSUME NEW pos \in Positions, NEW side, NEW quantity \in Nat \ {0}, NEW price
  PROVE  LET new == ApplyFill(pos, side, quantity, price)
             total == pos.quantity + Signed(side, quantity)
         IN  /\ new.quantity = total
             /\ new.trips = pos.trips + (IF pos.quantity # 0 /\ total * pos.quantity <= 0 THEN 1 ELSE 0)
<1> DEFINE q == pos.quantity
           c == Signed(side, quantity)
           new == ApplyFill(pos, side, quantity, price)
           total == q + c
<1>1. /\ q \in Int /\ pos.trips \in Nat
      /\ pos = [quantity |-> q, average |-> pos.average, realized |-> pos.realized, trips |-> pos.trips]
  BY PositionParts
<1>2. c \in Int /\ c # 0 /\ total \in Int
  BY <1>1 DEF Signed
<1>3. /\ q = 0 => new = Opened(pos, c, price)
      /\ q # 0 /\ q * c > 0 => new = Increased(pos, c, price)
      /\ q # 0 /\ ~ (q * c > 0) => new = Reduced(pos, c, price)
  BY DEF ApplyFill
<1> HIDE DEF c, new
<1>4. CASE q = 0
  <2>1. new.quantity = c /\ new.trips = pos.trips
    BY <1>1, <1>3, <1>4 DEF Opened
  <2>2. QED
    BY <1>1, <1>2, <1>4, <2>1 DEF c, new
<1>5. CASE q # 0 /\ q * c > 0
  <2>1. new.quantity = total /\ new.trips = pos.trips
    BY <1>1, <1>3, <1>5 DEF Increased
  <2>2. ~ (total * q <= 0)
    <3>1. total * q = q * q + q * c /\ q * q > 0 /\ q * c \in Int
      BY <1>1, <1>2, <1>5
    <3>2. QED
      BY <1>1, <1>5, <3>1
  <2>3. QED
    BY <1>1, <2>1, <2>2 DEF c, new
<1>6. CASE q # 0 /\ ~ (q * c > 0)
  <2>1. new.quantity = total /\ new.trips = pos.trips + (IF Crosses(q, total) THEN 1 ELSE 0)
    BY <1>3, <1>6 DEF Reduced
  <2>2. Crosses(q, total) <=> total * q <= 0
    <3>1. q * total = total * q
      BY <1>1, <1>2
    <3>2. QED
      BY <3>1 DEF Crosses
  <2>3. QED
    BY <1>6, <2>1, <2>2 DEF c, new
<1>7. QED
  BY <1>4, <1>5, <1>6

\* A portfolio that follows its fills follows one more.
LEMMA FillIsFollowed ==
  ASSUME NEW p, AccountOK(p), NEW u \in Seq(Fills), Follows(p, u), NEW f \in Fills
  PROVE  Follows(ProcessFill(p, f), Append(u, f))
<1> DEFINE q == ProcessFill(p, f)
           w == Append(u, f)
<1> SUFFICES ASSUME NEW s \in Symbols
             PROVE  /\ q.positions[s].quantity = Held(w, s, Len(w))
                    /\ q.positions[s].trips = Cardinality(Crossings(w, s))
  BY DEF Follows
<1> DEFINE old == Held(u, s, Len(u))
           new == old + Delta(s, f)
           pos == p.positions[s]
<1>1. pos.quantity = old /\ pos.trips = Cardinality(Crossings(u, s)) /\ pos \in Positions /\ p.positions \in [Symbols -> Positions]
  BY DEF Follows, AccountOK
<1>2. /\ Held(w, s, Len(w)) = new /\ old \in Int /\ Delta(s, f) \in Int
      /\ Cardinality(Crossings(w, s)) = Cardinality(Crossings(u, s)) + (IF old # 0 /\ new * old <= 0 THEN 1 ELSE 0)
  <2>1. Len(u) \in 0 .. Len(u)
    OBVIOUS
  <2>2. QED
    BY <2>1, HeldOfAppend, CrossingsOfAppend
<1>3. /\ f.symbol \in Symbols /\ f.quantity \in Nat \ {0}
      /\ q.positions = [p.positions EXCEPT ![f.symbol] = ApplyFill(p.positions[f.symbol], f.side, f.quantity, f.price)]
  BY ProcessFillIs DEF Fills
<1>4. CASE s = f.symbol
  <2> DEFINE after == ApplyFill(pos, f.side, f.quantity, f.price)
  <2>1. q.positions[s] = after
    BY <1>1, <1>3, <1>4
  <2>2. Delta(s, f) = Signed(f.side, f.quantity)
    BY <1>4 DEF Delta
  <2>3. /\ after.quantity = new
        /\ after.trips = pos.trips + (IF old # 0 /\ new * old <= 0 THEN 1 ELSE 0)
    <3>1. /\ after.quantity = pos.quantity + Signed(f.side, f.quantity)
          /\ after.trips = pos.trips + (IF pos.quantity # 0 /\ (pos.quantity + Signed(f.side, f.quantity)) * pos.quantity <= 0 THEN 1 ELSE 0)
      BY <1>1, <1>3, TripsAfter
    <3> HIDE DEF after, old
    <3>2. QED
      BY <1>1, <2>2, <3>1
  <2> HIDE DEF after, new, old
  <2>4. QED
    BY <1>1, <1>2, <2>1, <2>3
<1>5. CASE s # f.symbol
  <2>1. q.positions[s] = pos
    BY <1>1, <1>3, <1>5
  <2>2. Delta(s, f) = 0
    BY <1>5 DEF Delta
  <2> HIDE DEF old
  <2>3. new = old /\ ~ (old # 0 /\ old * old <= 0)
    BY <1>2, <2>2
  <2>4. Cardinality(Crossings(u, s)) \in Nat
    BY CrossingsOfAppend
  <2> HIDE DEF new
  <2>5. QED
    BY <1>1, <1>2, <2>1, <2>3, <2>4
<1>6. QED
  BY <1>4, <1>5
-----------------------------------------------------------------------------
(***************************************************************************)
(* The invariant                                                           *)
(***************************************************************************)
\* The bars of s that have been marked.
Known(s) == {k \in DOMAIN job.bars : job.bars[k].symbol = s /\ k <= Len(portfolio.snapshots)}

\* One snapshot a bar, the last of them of the portfolio as it is.
SnapshotsTaken ==
  LET shots == portfolio.snapshots IN
  /\ \E S : shots \in Seq(S)
  /\ step = "warmup" => Len(shots) = 0
  /\ step \in {"bar", "execute", "apply"} => Len(shots) = cursor - 1
  /\ step \in {"strategy", "decide"} => Len(shots) = cursor
  /\ step \in {"strategy", "decide", "bar"} /\ shots # <<>> =>
       \E t : shots[Len(shots)] = Snapshot(portfolio, t)

\* Marks are closes, and what is held has one, or has just been bought.
MarksTaken ==
  \A s \in Symbols :
    /\ Known(s) # {} => portfolio.marks[s] = job.bars[CHOOSE k \in Known(s) : \A l \in Known(s) : l <= k].close
    /\ step # "idle" /\ portfolio.positions[s].quantity # 0 =>
         Known(s) # {} \/ (step = "apply" /\ s = Market.symbol)

AccountInvariant ==
  /\ Books(portfolio) = Whole(job.capital) /\ Follows(portfolio, fills)
  /\ SnapshotsTaken /\ MarksTaken

\* The steps that leave the account alone.
QuietMove ==
  /\ UNCHANGED <<job, portfolio, fills>>
  /\ \/ step' = "idle"
     \/ step' = step /\ cursor' = cursor
     \/ step = "warmup" /\ step' = "warmup"
     \/ step = "warmup" /\ step' = "bar" /\ cursor' = 1
     \/ step = "bar" /\ step' = "execute" /\ cursor' = cursor
     \/ step = "execute" /\ step' = "apply" /\ cursor' = cursor
     \/ step = "strategy" /\ step' = "decide" /\ cursor' = cursor
     \/ step = "decide" /\ step' = "bar" /\ cursor' = cursor + 1

NewAccount ==
  /\ step' = "warmup" /\ job' = job /\ fills' = <<>>
  /\ portfolio' = NewPortfolio(job.capital, job.allowShort)

FillApplied ==
  /\ step = "apply" /\ step' = "apply" /\ UNCHANGED <<job, cursor>>
  /\ Head(queue) \in Fills /\ Head(queue).symbol = Market.symbol
  /\ portfolio' = ProcessFill(portfolio, Head(queue)) /\ fills' = Append(fills, Head(queue))

BarMarked ==
  /\ step = "apply" /\ step' = "strategy" /\ UNCHANGED <<job, cursor, fills>>
  /\ portfolio' = MarkToMarket(portfolio, Market)

\* Every step is one of these.
LEMMA StepsOfAccounts ==
  ASSUME TypeInvariant, TimeInvariant, [Next]_vars
  PROVE  QuietMove \/ NewAccount \/ FillApplied \/ BarMarked
<1>1. \A error : Raise(error) => step' = "idle"
  BY DEF Raise
<1>2. CASE UNCHANGED vars
  BY <1>2 DEF vars, runVars, QuietMove
<1>3. CASE StartRun
  BY <1>3 DEF StartRun, NewAccount
<1>4. CASE WarmUp
  BY <1>1, <1>4, Zenon DEF WarmUp, QuietMove
<1>5. CASE BeginEvaluation
  BY <1>1, <1>5, Zenon DEF BeginEvaluation, QuietMove
<1>6. CASE NextBar \/ EndBar
  BY <1>6 DEF NextBar, EndBar, QuietMove
<1>7. CASE FinishRun
  BY <1>1, <1>7, Zenon DEF FinishRun, QuietMove
<1>8. CASE ExecuteOrder
  BY <1>1, <1>8, Zenon DEF ExecuteOrder, QuietMove
<1>9. CASE EndExecution
  BY <1>9 DEF EndExecution, QuietMove
<1>10. CASE ApplyNext
  <2>1. Head(queue) \in Fills /\ Head(queue) \in Items(queue)
    BY <1>10 DEF ApplyNext, TypeInvariant, StepOK, Items
  <2>2. Head(queue).symbol = Market.symbol
    <3>1. FillsAt(job.bars, orders, Head(queue), cursor)
      BY <1>10, <2>1 DEF ApplyNext, TimeInvariant, Timing, FillsTimed
    <3>2. QED
      BY <3>1 DEF FillsAt, FillsWith, Later, Market
  <2>3. \/ /\ portfolio' = ProcessFill(portfolio, Head(queue)) /\ fills' = Append(fills, Head(queue))
           /\ step = "apply" /\ step' = step /\ UNCHANGED <<job, cursor>>
        \/ step' = "idle" /\ UNCHANGED <<job, portfolio, fills>>
    BY <1>1, <1>10, Zenon DEF ApplyNext
  <2>4. QED
    BY <2>1, <2>2, <2>3 DEF FillApplied, QuietMove
<1>11. CASE MarkBar
  BY <1>11 DEF MarkBar, BarMarked
<1>12. CASE CallStrategy
  <2>1. CallStrategyFacts
    BY <1>12, CallStrategyMeans
  <2>2. UNCHANGED <<job, portfolio, fills, cursor>> /\ step = "strategy" /\ step' \in {"decide", "idle"}
    BY <2>1 DEF CallStrategyFacts, Raise
  <2>3. QED
    BY <2>2 DEF QuietMove
<1>13. CASE TakeSignal
  BY <1>13 DEF TakeSignal, QuietMove
<1>14. CASE TakeOrder
  <2>1. /\ UNCHANGED <<job, portfolio, fills, cursor>>
        /\ step' = step \/ step' = "idle"
    BY <1>1, <1>14, Zenon DEF TakeOrder, Submit
  <2>2. QED
    BY <2>1 DEF QuietMove
<1>15. QED
  BY <1>2, <1>3, <1>4, <1>5, <1>6, <1>7, <1>8, <1>9, <1>10, <1>11, <1>12, <1>13, <1>14
     DEF Next, RunStep, Execute, Decide

\* A new account is in order.
LEMMA NewIsInOrder ==
  ASSUME NEW capital \in Int, NEW allowShort
  PROVE  LET p == NewPortfolio(capital, allowShort) IN
         /\ Books(p) = Whole(capital) /\ Follows(p, <<>>) /\ p.snapshots = <<>>
         /\ \A s \in Symbols : p.positions[s].quantity = 0
<1> DEFINE p == NewPortfolio(capital, allowShort)
<1>1. /\ p.snapshots = <<>>
      /\ \A s \in Symbols : p.positions[s].quantity = 0 /\ p.positions[s].trips = 0
  BY DEF NewPortfolio, FlatPosition
<1> HIDE DEF p
<1>2. ASSUME NEW s \in Symbols PROVE Held(<<>>, s, 0) = 0 /\ Cardinality(Crossings(<<>>, s)) = 0
  <2>1. 1 .. 0 = {} /\ Crossings(<<>>, s) = {}
    BY DEF Crossings
  <2>2. IsFiniteSet(1 .. 0) /\ \A k \in 1 .. 0 : Deltas(<<>>, s)[k] \in Int
    BY <2>1, FS_EmptySet
  <2>3. SumOver(Deltas(<<>>, s), 1 .. 0) = 0
    BY <2>1, <2>2, SumTakes
  <2>4. QED
    BY <2>1, <2>3, FS_EmptySet DEF Held
<1>3. Follows(p, <<>>)
  BY <1>1, <1>2 DEF Follows
<1>4. QED
  BY <1>1, <1>3, NewBooks DEF p

\* No snapshot, and no bar marked.
LEMMA EmptyShots == /\ \E S : <<>> \in Seq(S)
                    /\ Len(<<>>) = 0
<1>1. <<>> \in Seq({})
  OBVIOUS
<1>2. QED
  BY <1>1

LEMMA NothingKnown ==
  ASSUME job \in Jobs, portfolio.snapshots = <<>>
  PROVE  \A s \in Symbols : Known(s) = {}
BY JobFacts DEF Known

\* The account is in order at the start,
LEMMA AccountInitially == Init => AccountInvariant
<1> SUFFICES ASSUME Init PROVE AccountInvariant
  OBVIOUS
<1>1. /\ job.capital \in Int /\ portfolio = NewPortfolio(job.capital, job.allowShort) /\ step = "idle" /\ fills = <<>>
  BY JobFacts DEF Init
<1>2. /\ Books(portfolio) = Whole(job.capital) /\ Follows(portfolio, fills)
      /\ portfolio.snapshots = <<>>
  BY <1>1, NewIsInOrder
<1>3. SnapshotsTaken
  BY <1>1, <1>2, EmptyShots DEF SnapshotsTaken
<1>4. MarksTaken
  <2>1. \A s \in Symbols : Known(s) = {}
    BY <1>1, <1>2, NothingKnown DEF Init
  <2>2. QED
    BY <1>1, <2>1 DEF MarksTaken
<1>5. QED
  BY <1>2, <1>3, <1>4 DEF AccountInvariant

\* after the steps that leave it alone,
LEMMA AccountInQuietMove ==
  ASSUME TypeInvariant, AccountInvariant, QuietMove
  PROVE  AccountInvariant'
<1>1. /\ job' = job /\ portfolio' = portfolio /\ fills' = fills
  BY DEF QuietMove
<1>2. cursor \in Nat /\ step \in Steps /\ portfolio.snapshots = portfolio'.snapshots
  BY <1>1 DEF TypeInvariant, StepOK
<1>3. Books(portfolio)' = Whole(job.capital)' /\ Follows(portfolio, fills)'
  <2>1. Books(portfolio)' = Books(portfolio) /\ Whole(job.capital)' = Whole(job.capital)
    BY <1>1
  <2>2. Follows(portfolio, fills)' <=> Follows(portfolio, fills)
    BY <1>1 DEF Follows
  <2>3. QED
    BY <2>1, <2>2 DEF AccountInvariant
<1>4. SnapshotsTaken'
  <2> DEFINE shots == portfolio.snapshots
  <2>1. /\ \E S : shots \in Seq(S)
        /\ step = "warmup" => Len(shots) = 0
        /\ step \in {"bar", "execute", "apply"} => Len(shots) = cursor - 1
        /\ step \in {"strategy", "decide"} => Len(shots) = cursor
        /\ step \in {"strategy", "decide", "bar"} /\ shots # <<>> =>
             \E t : shots[Len(shots)] = Snapshot(portfolio, t)
    BY DEF AccountInvariant, SnapshotsTaken
  <2>2. shots' = shots /\ \A t : Snapshot(portfolio, t)' = Snapshot(portfolio, t)
    BY <1>1
  <2>3. (Len(shots) = 0 => shots = <<>>)
    BY <2>1
  <2> HIDE DEF shots
  <2>4. /\ step' = "warmup" => Len(shots) = 0
        /\ step' \in {"bar", "execute", "apply"} => Len(shots) = cursor' - 1
        /\ step' \in {"strategy", "decide"} => Len(shots) = cursor'
    BY <1>2, <2>1 DEF QuietMove
  <2>5. step' \in {"strategy", "decide", "bar"} /\ shots # <<>> => \E t : shots[Len(shots)] = Snapshot(portfolio, t)
    BY <1>2, <2>1, <2>3 DEF QuietMove
  <2>6. QED
    BY <1>1, <2>1, <2>2, <2>4, <2>5 DEF SnapshotsTaken, shots
<1>5. MarksTaken'
  <2>1. \A s : Known(s)' = Known(s)
    BY <1>1 DEF Known
  <2>2. step' = "apply" => step = "execute" \/ (step = "apply" /\ cursor' = cursor)
    BY DEF QuietMove
  <2>3. step' # "idle" => step # "idle"
    BY DEF QuietMove
  <2>4. step = "apply" => step' = "idle" \/ (step' = "apply" /\ Market' = Market)
    BY <1>1 DEF QuietMove, Market
  <2>5. ASSUME NEW s \in Symbols
        PROVE  /\ Known(s)' # {} => portfolio'.marks[s] = job'.bars[CHOOSE k \in Known(s)' : \A l \in Known(s)' : l <= k].close
               /\ step' # "idle" /\ portfolio'.positions[s].quantity # 0 =>
                    Known(s)' # {} \/ (step' = "apply" /\ s = Market'.symbol)
    <3>1. /\ Known(s) # {} => portfolio.marks[s] = job.bars[CHOOSE k \in Known(s) : \A l \in Known(s) : l <= k].close
          /\ step # "idle" /\ portfolio.positions[s].quantity # 0 => Known(s) # {} \/ (step = "apply" /\ s = Market.symbol)
      BY DEF AccountInvariant, MarksTaken
    <3> HIDE DEF Known
    <3>2. /\ Known(s)' # {} => portfolio'.marks[s] = job'.bars[CHOOSE k \in Known(s)' : \A l \in Known(s)' : l <= k].close
      BY <1>1, <2>1, <3>1
    <3>3. QED
      BY <1>1, <2>1, <2>3, <2>4, <3>1, <3>2
  <2>6. QED
    BY <2>5 DEF MarksTaken
<1>6. QED
  BY <1>3, <1>4, <1>5 DEF AccountInvariant

\* when a run begins,
LEMMA AccountInNewAccount ==
  ASSUME TypeInvariant, NewAccount
  PROVE  AccountInvariant'
<1>1. /\ job.capital \in Int /\ portfolio' = NewPortfolio(job.capital, job.allowShort) /\ step' = "warmup"
      /\ fills' = <<>> /\ job' = job
  BY JobFacts DEF NewAccount, TypeInvariant
<1>2. LET p == NewPortfolio(job.capital, job.allowShort) IN
      /\ Books(p) = Whole(job.capital) /\ Follows(p, <<>>) /\ p.snapshots = <<>>
      /\ \A s \in Symbols : p.positions[s].quantity = 0
  BY <1>1, NewIsInOrder
<1>3. Books(portfolio)' = Whole(job.capital)' /\ Follows(portfolio, fills)' /\ portfolio'.snapshots = <<>>
      /\ \A s \in Symbols : portfolio'.positions[s].quantity = 0
  <2>1. Books(portfolio)' = Books(portfolio') /\ (Follows(portfolio, fills)' <=> Follows(portfolio', fills'))
    BY DEF Books, Costs, Follows
  <2>2. QED
    BY <1>1, <1>2, <2>1
<1>4. SnapshotsTaken'
  BY <1>1, <1>3, EmptyShots DEF SnapshotsTaken
<1>5. MarksTaken'
  <2>1. \A s \in Symbols : Known(s)' = {}
    BY <1>1, <1>3, JobFacts DEF Known, TypeInvariant
  <2>2. QED
    BY <1>3, <2>1 DEF MarksTaken
<1>6. QED
  BY <1>3, <1>4, <1>5 DEF AccountInvariant


\* when a fill is applied,
LEMMA AccountInFillApplied ==
  ASSUME TypeInvariant, AccountInvariant, FillApplied
  PROVE  AccountInvariant'
<1> DEFINE f == Head(queue)
           p == portfolio
           q == ProcessFill(p, f)
           new == ApplyFill(p.positions[f.symbol], f.side, f.quantity, f.price)
<1>1. /\ f \in Fills /\ AccountOK(p) /\ fills \in Seq(Fills) /\ f.symbol = Market.symbol
      /\ portfolio' = q /\ fills' = Append(fills, f) /\ job' = job /\ cursor' = cursor
      /\ step = "apply" /\ step' = "apply" /\ job.capital \in Int
  BY JobFacts DEF FillApplied, TypeInvariant, ListsOK
<1>2. /\ q.marks = p.marks /\ q.snapshots = p.snapshots
      /\ q.positions = [p.positions EXCEPT ![f.symbol] = new]
      /\ f.symbol \in Symbols /\ p.positions \in [Symbols -> Positions]
  BY <1>1, ProcessFillIs DEF AccountOK
<1>3. Books(q) = Whole(job.capital) /\ Follows(q, Append(fills, f))
  BY <1>1, FillKeepsBooks, FillIsFollowed DEF AccountInvariant
<1> HIDE DEF q, new, f
<1>4. Books(portfolio)' = Whole(job.capital)' /\ Follows(portfolio, fills)'
  <2>1. Books(portfolio)' = Books(portfolio') /\ (Follows(portfolio, fills)' <=> Follows(portfolio', fills'))
    BY DEF Books, Costs, Follows
  <2>2. QED
    BY <1>1, <1>3, <2>1
<1>5. SnapshotsTaken'
  <2>1. (\E S : p.snapshots \in Seq(S)) /\ Len(p.snapshots) = cursor - 1
    BY <1>1 DEF AccountInvariant, SnapshotsTaken
  <2>2. QED
    BY <1>1, <1>2, <2>1 DEF SnapshotsTaken
<1>6. MarksTaken'
  <2>1. \A s : Known(s)' = Known(s)
    BY <1>1, <1>2 DEF Known
  <2>2. Market' = Market
    BY <1>1 DEF Market
  <2>3. ASSUME NEW s \in Symbols
        PROVE  /\ Known(s)' # {} => portfolio'.marks[s] = job'.bars[CHOOSE k \in Known(s)' : \A l \in Known(s)' : l <= k].close
               /\ step' # "idle" /\ portfolio'.positions[s].quantity # 0 =>
                    Known(s)' # {} \/ (step' = "apply" /\ s = Market'.symbol)
    <3>1. /\ Known(s) # {} => portfolio.marks[s] = job.bars[CHOOSE k \in Known(s) : \A l \in Known(s) : l <= k].close
          /\ step # "idle" /\ portfolio.positions[s].quantity # 0 => Known(s) # {} \/ (step = "apply" /\ s = Market.symbol)
      BY DEF AccountInvariant, MarksTaken
    <3> HIDE DEF Known
    <3>2. portfolio'.marks[s] = portfolio.marks[s]
      BY <1>1, <1>2
    <3>3. s # Market.symbol => portfolio'.positions[s] = portfolio.positions[s]
      BY <1>1, <1>2
    <3>4. QED
      BY <1>1, <2>1, <2>2, <3>1, <3>2, <3>3
  <2>4. QED
    BY <2>3 DEF MarksTaken
<1>7. QED
  BY <1>4, <1>5, <1>6 DEF AccountInvariant

\* and when a bar is marked: it is the last bar known of its symbol.
LEMMA AccountInBarMarked ==
  ASSUME TypeInvariant, AccountInvariant, BarMarked
  PROVE  AccountInvariant'
<1> DEFINE p == portfolio
           x == Market.symbol
           q == MarkToMarket(p, Market)
           shot == Snapshot(q, Market.timestamp)
<1>1. /\ AccountOK(p) /\ Market \in Bars /\ x \in Symbols /\ cursor \in DOMAIN job.bars
      /\ portfolio' = q /\ fills' = fills /\ job' = job /\ cursor' = cursor
      /\ step = "apply" /\ step' = "strategy" /\ DOMAIN job.bars = 1 .. Len(job.bars) /\ Len(job.bars) \in Nat
  BY JobFacts, MarketIsABar DEF BarMarked, TypeInvariant, StepOK, InBar
<1>2. PICK S : p.snapshots \in Seq(S)
  BY DEF AccountInvariant, SnapshotsTaken
<1>3. /\ q.cash = p.cash /\ q.commission = p.commission /\ q.positions = p.positions
      /\ q.marks = [p.marks EXCEPT ![x] = Market.close]
      /\ q.snapshots = Append(p.snapshots, shot) /\ p.marks \in [Symbols -> Int]
  BY <1>1, <1>2, MarkToMarketIs DEF AccountOK
<1>4. Len(p.snapshots) = cursor - 1
  BY <1>1 DEF AccountInvariant, SnapshotsTaken
<1> HIDE DEF q, shot
<1>5. /\ q.snapshots \in Seq(S \cup {shot}) /\ Len(q.snapshots) = cursor /\ q.snapshots[Len(q.snapshots)] = shot
  <2>1. Append(p.snapshots, shot) \in Seq(S \cup {shot})
    <3>1. p.snapshots \in Seq(S \cup {shot}) /\ shot \in S \cup {shot}
      BY <1>2
    <3>2. QED
      BY <3>1
  <2>2. Len(Append(p.snapshots, shot)) = Len(p.snapshots) + 1 /\ Append(p.snapshots, shot)[Len(p.snapshots) + 1] = shot
    BY <1>2
  <2>3. cursor \in Int /\ Len(p.snapshots) + 1 = cursor
    BY <1>1, <1>4
  <2>4. QED
    BY <1>3, <2>1, <2>2, <2>3
<1>6. Books(portfolio)' = Whole(job.capital)' /\ Follows(portfolio, fills)'
  <2>1. Books(portfolio)' = Books(portfolio') /\ (Follows(portfolio, fills)' <=> Follows(portfolio', fills'))
    BY DEF Books, Costs, Follows
  <2>2. Books(q) = Books(p) /\ (Follows(q, fills) <=> Follows(p, fills))
    BY <1>3 DEF Books, Costs, Follows
  <2>3. QED
    BY <1>1, <2>1, <2>2 DEF AccountInvariant
<1>7. SnapshotsTaken'
  <2>1. shot = Snapshot(portfolio, Market.timestamp)'
    BY <1>1 DEF shot, Market
  <2>2. QED
    BY <1>1, <1>5, <2>1 DEF SnapshotsTaken
<1>8. MarksTaken'
  <2>1. ASSUME NEW s \in Symbols
        PROVE  Known(s)' = IF s = x THEN Known(s) \cup {cursor} ELSE Known(s)
    <3>1. Known(s)' = {k \in DOMAIN job.bars : job.bars[k].symbol = s /\ k <= cursor}
      BY <1>1, <1>5 DEF Known
    <3>2. Known(s) = {k \in DOMAIN job.bars : job.bars[k].symbol = s /\ k <= cursor - 1}
      BY <1>4 DEF Known
    <3>3. \A k \in DOMAIN job.bars : k <= cursor <=> k <= cursor - 1 \/ k = cursor
      BY <1>1
    <3>4. cursor \in DOMAIN job.bars /\ job.bars[cursor].symbol = x /\ cursor <= cursor
      BY <1>1 DEF Market
    <3>5. QED
      BY <3>1, <3>2, <3>3, <3>4
  <2>2. ASSUME NEW s \in Symbols, s = x
        PROVE  cursor \in Known(s)' /\ (CHOOSE k \in Known(s)' : \A l \in Known(s)' : l <= k) = cursor
    <3>1. cursor \in Known(s)'
      BY <2>1, <2>2
    <3>2. \A l \in Known(s)' : l <= cursor /\ l \in Int
      BY <1>1, <1>5 DEF Known
    <3>3. cursor \in Int
      BY <1>1
    <3> HIDE DEF Known
    <3>4. \A k \in Known(s)' : (\A l \in Known(s)' : l <= k) <=> k = cursor
      BY <3>1, <3>2, <3>3
    <3>5. QED
      BY <3>1, <3>4
  <2>3. ASSUME NEW s \in Symbols
        PROVE  /\ Known(s)' # {} => portfolio'.marks[s] = job'.bars[CHOOSE k \in Known(s)' : \A l \in Known(s)' : l <= k].close
               /\ step' # "idle" /\ portfolio'.positions[s].quantity # 0 =>
                    Known(s)' # {} \/ (step' = "apply" /\ s = Market'.symbol)
    <3>1. /\ Known(s) # {} => portfolio.marks[s] = job.bars[CHOOSE k \in Known(s) : \A l \in Known(s) : l <= k].close
          /\ step # "idle" /\ portfolio.positions[s].quantity # 0 => Known(s) # {} \/ (step = "apply" /\ s = Market.symbol)
      BY DEF AccountInvariant, MarksTaken
    <3>2. portfolio'.positions[s] = portfolio.positions[s]
      BY <1>1, <1>3
    <3>3. CASE s = x
      <4>1. portfolio'.marks[s] = Market.close /\ Market.close = job'.bars[cursor].close
        BY <1>1, <1>3, <3>3 DEF Market
      <4> HIDE DEF Known
      <4>2. QED
        BY <2>2, <3>3, <4>1
    <3>4. CASE s # x
      <4>1. portfolio'.marks[s] = portfolio.marks[s]
        BY <1>1, <1>3, <3>4
      <4> HIDE DEF Known
      <4>2. Known(s)' = Known(s)
        BY <2>1, <3>4
      <4>3. QED
        BY <1>1, <3>1, <3>2, <3>4, <4>1, <4>2
    <3>5. QED
      BY <3>3, <3>4
  <2>4. QED
    BY <2>3 DEF MarksTaken
<1>9. QED
  BY <1>6, <1>7, <1>8 DEF AccountInvariant

\* The invariant is kept.
LEMMA AccountIsKept == EngineInvariant /\ AccountInvariant /\ [Next]_vars => AccountInvariant'
BY StepsOfAccounts, AccountInQuietMove, AccountInNewAccount, AccountInFillApplied, AccountInBarMarked
   DEF EngineInvariant

\* What the invariant says of the account is what the runs check.
LEMMA AccountMeansBalance ==
  ASSUME EngineInvariant, AccountInvariant
  PROVE  AccountsBalance
<1>1. /\ AccountOK(portfolio) /\ fills \in Seq(Fills) /\ job.capital \in Int /\ Solvent /\ step \in Steps
  BY JobFacts DEF EngineInvariant, TypeInvariant, ListsOK, StepOK, TimeInvariant, Solvency
<1>2. EquityAddsUp
  <2> DEFINE shots == portfolio.snapshots
             last == shots[Len(shots)]
  <2>1. /\ Equity(portfolio)
             = ((Whole(job.capital) ++ Realized(portfolio)) ++ Unrealized(portfolio)) -- portfolio.commission
        /\ (Realized(portfolio) ++ Unrealized(portfolio)) -- portfolio.commission
             = Equity(portfolio) -- Whole(job.capital)
    BY <1>1, BooksMeanEquity DEF AccountInvariant
  <2>2. ASSUME step \in {"strategy", "decide", "bar"}, shots # <<>>
        PROVE  /\ last.equity = Equity(portfolio) /\ last.cash = portfolio.cash
               /\ last.realized = Realized(portfolio) /\ last.unrealized = Unrealized(portfolio)
    <3>1. PICK t : last = Snapshot(portfolio, t)
      BY <2>2 DEF AccountInvariant, SnapshotsTaken
    <3>2. QED
      BY <3>1 DEF Snapshot
  <2> HIDE DEF shots
  <2>3. QED
    BY <2>1, <2>2 DEF EquityAddsUp, shots
<1>3. PositionsFollowFills
  <2> SUFFICES ASSUME NEW s \in Symbols
               PROVE  LET path == [i \in 0 .. Len(fills) |-> PositionAfter(s, i)] IN
                      /\ portfolio.positions[s].quantity = path[Len(fills)]
                      /\ portfolio.positions[s].trips
                           = Cardinality({i \in DOMAIN fills : path[i - 1] # 0 /\ path[i] * path[i - 1] <= 0})
    BY DEF PositionsFollowFills
  <2> DEFINE path == [i \in 0 .. Len(fills) |-> PositionAfter(s, i)]
  <2>1. Len(fills) \in Nat /\ DOMAIN fills = 1 .. Len(fills)
    BY <1>1
  <2>2. \A i \in 0 .. Len(fills) : path[i] = Held(fills, s, i)
    BY <1>1, PositionAfterIsHeld
  <2> HIDE DEF path
  <2>3. \A i \in DOMAIN fills : i \in 0 .. Len(fills) /\ i - 1 \in 0 .. Len(fills)
    BY <2>1
  <2>4. {i \in DOMAIN fills : path[i - 1] # 0 /\ path[i] * path[i - 1] <= 0} = Crossings(fills, s)
    BY <2>2, <2>3 DEF Crossings
  <2>5. path[Len(fills)] = Held(fills, s, Len(fills))
    BY <2>1, <2>2
  <2>6. QED
    BY <2>4, <2>5 DEF AccountInvariant, Follows, path
<1>4. OpenPositionsAreMarked
  BY <1>1 DEF OpenPositionsAreMarked, AccountInvariant, MarksTaken, Known
<1>5. QED
  BY <1>1, <1>2, <1>3, <1>4 DEF AccountsBalance

\* Whatever the jobs, the models and the limits: cash is never negative and no short is
\* sold that the engine forbids; equity is the capital and the profits less the commissions,
\* to the last fraction, and the last snapshot says so; positions and round trips are what
\* the fills make them; and each symbol is marked at its last close (Portfolio.process_fill,
\* mark_to_market and record_snapshot, Position.apply_fill).
THEOREM AccountsAlwaysBalance == Spec => []AccountsBalance
<1>1. Init => AccountInvariant
  BY AccountInitially
<1>2. EngineInvariant /\ AccountInvariant /\ [Next]_vars => AccountInvariant'
  BY AccountIsKept
<1>3. EngineInvariant /\ AccountInvariant => AccountsBalance
  BY AccountMeansBalance
<1>4. QED
  BY <1>1, <1>2, <1>3, EngineInvariantHolds, PTL DEF Spec

-----------------------------------------------------------------------------
(***************************************************************************)
(* Runs with the same arguments are the same                               *)
(*                                                                         *)
(* A moment is what run knows at a point of its loop, and when it is over, *)
(* what it has returned or raised.  Each step makes of a moment the next   *)
(* one, whatever earlier runs have done: a call of run is a path of such   *)
(* moments from a fresh start to the first that is idle, and there is only *)
(* one path.                                                               *)
(***************************************************************************)
Moment ==
  [step |-> step, cursor |-> cursor, queue |-> queue, portfolio |-> portfolio, strategy |-> strategy,
   nextOrder |-> nextOrder, signals |-> signals, orders |-> orders, fills |-> fills,
   rejected |-> rejected, pending |-> pending, seen |-> seen, refused |-> refused, still |-> still,
   accepted |-> accepted, last |-> IF step = "idle" THEN outcomes[Len(outcomes)] ELSE "none"]

Fields ==
  {"step", "cursor", "queue", "portfolio", "strategy", "nextOrder", "signals", "orders", "fills",
   "rejected", "pending", "seen", "refused", "still", "accepted", "last"}

Start(j) ==
  [step |-> "warmup", cursor |-> 1, queue |-> <<>>, portfolio |-> NewPortfolio(j.capital, j.allowShort),
   strategy |-> Strat!FreshStrategy, nextOrder |-> 1, signals |-> <<>>, orders |-> <<>>, fills |-> <<>>,
   rejected |-> <<>>, pending |-> <<>>, seen |-> {}, refused |-> <<>>, still |-> <<>>,
   accepted |-> <<>>, last |-> "none"]

With(x, changes) == [f \in Fields |-> IF f \in DOMAIN changes THEN changes[f] ELSE x[f]]

\* An exception leaves the moment it was raised at, with what had changed by then.
Fails(error, changes) ==
  [f \in {"step", "last"} \cup DOMAIN changes |->
     CASE f = "step" -> "idle" [] f = "last" -> [error |-> error] [] OTHER -> changes[f]]

\* What the next step of run makes of a moment x, by where run is.
InWarmUp(j, x) ==
  IF x.cursor <= Len(j.warmup)
  THEN IF Valid(j.warmup)
       THEN [strategy |-> Strat!Observe(j.strategy, x.strategy, j.warmup[x.cursor], FALSE).state,
             cursor |-> x.cursor + 1]
       ELSE Fails("ValueError", <<>>)
  ELSE IF Valid(j.bars) THEN [step |-> "bar", cursor |-> 1] ELSE Fails("ValueError", <<>>)

InBars(j, x) ==
  LET shots == x.portfolio.snapshots IN
  IF x.cursor <= Len(j.bars) THEN [step |-> "execute"]
  ELSE IF \E i \in DOMAIN shots : shots[i].equity \prec Zero THEN Fails("ValueError", <<>>)
  ELSE [step |-> "idle",
        last |-> [signals |-> x.signals, orders |-> x.orders, fills |-> x.fills,
                  rejected |-> x.rejected, pending |-> x.pending, snapshots |-> shots]]

InExecution(j, x) ==
  LET bar == j.bars[x.cursor]
      order == Head(x.pending)
      fill == FillOf(order, bar, j.commission, j.slippage)
      left == Tail(x.pending)
      reported == Cardinality({k \in DOMAIN x.rejected : x.rejected[k].late})
      new == SubSeq(x.refused, reported + 1, Len(x.refused))
  IN  IF x.pending = <<>>
      THEN [queue |-> x.accepted, pending |-> x.still, still |-> <<>>, accepted |-> <<>>, step |-> "apply",
            rejected |-> x.rejected \o
              [i \in DOMAIN new |-> [order |-> new[i], timestamp |-> bar.timestamp,
                                     reason |-> "INSUFFICIENT_CASH", late |-> TRUE]]]
      ELSE IF ~Eligible(order, bar) THEN [still |-> Append(x.still, order), pending |-> left]
      ELSE IF fill.price \preceq Zero THEN Fails("ValueError", [pending |-> left])
      ELSE IF CanProcessFill(x.portfolio, fill)
      THEN [accepted |-> Append(x.accepted, fill), pending |-> left]
      ELSE [refused |-> Append(x.refused, order), pending |-> left]

InApplication(j, x) ==
  LET fill == Head(x.queue) IN
  IF x.queue = <<>> THEN [portfolio |-> MarkToMarket(x.portfolio, j.bars[x.cursor]), step |-> "strategy"]
  ELSE IF CanProcessFill(x.portfolio, fill)
  THEN [portfolio |-> ProcessFill(x.portfolio, fill), fills |-> Append(x.fills, fill), queue |-> Tail(x.queue)]
  ELSE Fails(FillError(x.portfolio, fill), [queue |-> Tail(x.queue)])

InStrategy(j, x) ==
  LET bar == j.bars[x.cursor]
      answer == Strat!Observe(j.strategy, x.strategy, bar, TRUE)
  IN  IF {i \in DOMAIN answer.signals : answer.signals[i].timestamp # bar.timestamp} = {}
      THEN [strategy |-> answer.state, queue |-> answer.signals, step |-> "decide"]
      ELSE Fails("ValueError", [strategy |-> answer.state])

\* The orders a signal is turned into.
OrdersOf(j, x, signal) ==
  LET position == x.portfolio.positions[signal.symbol].quantity
      order(side, quantity) ==
        <<[id |-> x.nextOrder, timestamp |-> signal.timestamp, symbol |-> signal.symbol,
           side |-> side, quantity |-> quantity]>>
  IN  CASE signal.side # "EXIT" -> order(signal.side, j.quantity)
        [] signal.side = "EXIT" /\ position > 0 -> order("SELL", position)
        [] signal.side = "EXIT" /\ position < 0 -> order("BUY", -position)
        [] OTHER -> <<>>

InDecision(j, x) ==
  LET first == Head(x.queue)
      left == Tail(x.queue)
      bar == j.bars[x.cursor]
      decision == Decision(first, x.portfolio, bar.close, j.limits)
      made == OrdersOf(j, x, first)
  IN  IF x.queue = <<>> THEN [step |-> "bar", cursor |-> x.cursor + 1]
      ELSE IF ~IsOrder(first)
      THEN [signals |-> Append(x.signals, first), queue |-> left \o made, nextOrder |-> x.nextOrder + Len(made)]
      ELSE IF decision # Approved
      THEN [orders |-> Append(x.orders, first), queue |-> left,
            rejected |-> Append(x.rejected, [order |-> first, timestamp |-> bar.timestamp,
                                             reason |-> decision, late |-> FALSE])]
      ELSE IF first.id \in x.seen
      THEN Fails("DuplicateOrderError", [orders |-> Append(x.orders, first), queue |-> left])
      ELSE [orders |-> Append(x.orders, first), queue |-> left, pending |-> Append(x.pending, first),
            seen |-> x.seen \cup {first.id}]

Changes(j, x) ==
  CASE x.step = "warmup" -> InWarmUp(j, x)
    [] x.step = "bar" -> InBars(j, x)
    [] x.step = "execute" -> InExecution(j, x)
    [] x.step = "apply" -> InApplication(j, x)
    [] x.step = "strategy" -> InStrategy(j, x)
    [] x.step = "decide" -> InDecision(j, x)

Following(j, x) == With(x, Changes(j, x))

\* A moment is made of its fields.
LEMMA MomentIs ==
  /\ Moment = [f \in Fields |-> Moment[f]]
  /\ Moment.step = step /\ Moment.cursor = cursor /\ Moment.queue = queue /\ Moment.portfolio = portfolio
  /\ Moment.strategy = strategy /\ Moment.nextOrder = nextOrder /\ Moment.signals = signals
  /\ Moment.orders = orders /\ Moment.fills = fills /\ Moment.rejected = rejected
  /\ Moment.pending = pending /\ Moment.seen = seen /\ Moment.refused = refused /\ Moment.still = still
  /\ Moment.accepted = accepted /\ Moment.last = IF step = "idle" THEN outcomes[Len(outcomes)] ELSE "none"
BY DEF Moment, Fields

\* The next moment, from what has changed.
LEMMA MomentChanges ==
  ASSUME NEW r, \A f \in DOMAIN r \cap Fields : Moment'[f] = r[f], \A f \in Fields \ DOMAIN r : Moment'[f] = Moment[f]
  PROVE  Moment' = With(Moment, r)
<1>1. Moment' = [f \in Fields |-> Moment'[f]]
  BY DEF Moment, Fields
<1> HIDE DEF Moment
<1>2. QED
  BY <1>1 DEF With

\* An outcome is added when a run ends.
LEMMA LastIsAdded ==
  ASSUME TypeInvariant, NEW o, outcomes' = Append(outcomes, o)
  PROVE  outcomes'[Len(outcomes')] = o
<1>1. PICK S : outcomes \in Seq(S)
  BY DEF TypeInvariant, ListsOK
<1>2. QED
  BY <1>1

\* A moment after an exception.
LEMMA MomentFails ==
  ASSUME TypeInvariant, NEW error, Raise(error), NEW r,
         \A f \in DOMAIN r \cap Fields : f # "step" /\ f # "last" /\ Moment'[f] = r[f],
         \A f \in Fields \ (DOMAIN r \cup {"step", "last"}) : Moment'[f] = Moment[f]
  PROVE  Moment' = With(Moment, Fails(error, r))
<1> DEFINE e == [error |-> error]
           s == Fails(error, r)
<1>1. outcomes' = Append(outcomes, e) /\ step' = "idle"
  BY DEF Raise
<1> HIDE DEF e
<1>2. outcomes'[Len(outcomes')] = e
  BY <1>1, LastIsAdded
<1>3. Moment'.step = "idle" /\ Moment'.last = e
  <2>1. Moment'.step = step' /\ Moment'.last = IF step' = "idle" THEN outcomes'[Len(outcomes')] ELSE "none"
    BY DEF Moment
  <2>2. QED
    BY <1>1, <1>2, <2>1
<1>4. DOMAIN s = {"step", "last"} \cup DOMAIN r
  BY DEF Fails
<1>5. \A f \in DOMAIN s : s[f] = IF f = "step" THEN "idle" ELSE IF f = "last" THEN e ELSE r[f]
  BY DEF Fails, e
<1> HIDE DEF s
<1>6. \A f \in DOMAIN s \cap Fields : Moment'[f] = s[f]
  BY <1>3, <1>4, <1>5
<1>7. \A f \in Fields \ DOMAIN s : Moment'[f] = Moment[f]
  BY <1>4
<1>8. QED
  BY <1>6, <1>7, MomentChanges DEF s

\* Every step leads to the moment that follows: in warm-up,
LEMMA FollowsInWarmUp ==
  ASSUME TypeInvariant, WarmUp \/ BeginEvaluation
  PROVE  Moment' = Following(job, Moment)
<1> DEFINE r == InWarmUp(job, Moment)
           state == Strat!Observe(job.strategy, strategy, job.warmup[cursor], FALSE).state
<1>1. step = "warmup" /\ Changes(job, Moment) = r
  BY MomentIs DEF WarmUp, BeginEvaluation, Changes
<1>2. r = IF cursor <= Len(job.warmup)
          THEN IF Valid(job.warmup) THEN [strategy |-> state, cursor |-> cursor + 1]
               ELSE Fails("ValueError", <<>>)
          ELSE IF Valid(job.bars) THEN [step |-> "bar", cursor |-> 1] ELSE Fails("ValueError", <<>>)
  BY MomentIs, Zenon DEF InWarmUp
<1>3. UNCHANGED <<job, queue, portfolio, nextOrder, signals, orders, fills, rejected, pending, seen,
                  refused, still, accepted>>
  BY DEF WarmUp, BeginEvaluation, simulatorVars
<1>4. cursor \in Int /\ Len(job.warmup) \in Int
  BY JobFacts DEF TypeInvariant, StepOK
<1> HIDE DEF r, state
<1>5. ASSUME Raise("ValueError"), strategy' = strategy, cursor' = cursor
      PROVE  Moment' = With(Moment, Fails("ValueError", <<>>))
  <2>1. \A f \in Fields \ {"step", "last"} : Moment'[f] = Moment[f]
    BY <1>3, <1>5 DEF Moment, Fields
  <2>2. DOMAIN <<>> = {}
    OBVIOUS
  <2>3. QED
    BY <1>5, <2>1, <2>2, MomentFails
<1>6. CASE WarmUp
  <2>1. CASE Valid(job.warmup)
    <3>1. /\ r = [strategy |-> state, cursor |-> cursor + 1]
          /\ strategy' = state /\ cursor' = cursor + 1 /\ step' = step /\ outcomes' = outcomes
      BY <1>2, <1>6, <2>1, Zenon DEF WarmUp, state
    <3>2. /\ \A f \in DOMAIN r \cap Fields : Moment'[f] = r[f]
          /\ \A f \in Fields \ DOMAIN r : Moment'[f] = Moment[f]
      BY <1>1, <1>3, <3>1 DEF Moment, Fields
    <3>3. QED
      BY <1>1, <3>2, MomentChanges DEF Following
  <2>2. CASE ~Valid(job.warmup)
    <3>1. r = Fails("ValueError", <<>>) /\ Raise("ValueError") /\ strategy' = strategy /\ cursor' = cursor
      BY <1>2, <1>6, <2>2, Zenon DEF WarmUp
    <3>2. QED
      BY <1>1, <1>5, <3>1 DEF Following
  <2>3. QED
    BY <2>1, <2>2
<1>7. CASE BeginEvaluation
  <2>1. ~(cursor <= Len(job.warmup)) /\ strategy' = strategy
    BY <1>4, <1>7 DEF BeginEvaluation
  <2>2. CASE Valid(job.bars)
    <3>1. /\ r = [step |-> "bar", cursor |-> 1]
          /\ step' = "bar" /\ cursor' = 1 /\ outcomes' = outcomes
      BY <1>2, <1>7, <2>1, <2>2, Zenon DEF BeginEvaluation
    <3>2. /\ \A f \in DOMAIN r \cap Fields : Moment'[f] = r[f]
          /\ \A f \in Fields \ DOMAIN r : Moment'[f] = Moment[f]
      BY <1>1, <1>3, <2>1, <3>1 DEF Moment, Fields
    <3>3. QED
      BY <1>1, <3>2, MomentChanges DEF Following
  <2>3. CASE ~Valid(job.bars)
    <3>1. r = Fails("ValueError", <<>>) /\ Raise("ValueError") /\ cursor' = cursor
      BY <1>2, <1>7, <2>1, <2>3, Zenon DEF BeginEvaluation
    <3>2. QED
      BY <1>1, <1>5, <2>1, <3>1 DEF Following
  <2>4. QED
    BY <2>2, <2>3
<1>8. QED
  BY <1>6, <1>7

\* between two bars,
LEMMA FollowsInBars ==
  ASSUME TypeInvariant, NextBar \/ FinishRun
  PROVE  Moment' = Following(job, Moment)
<1> DEFINE r == InBars(job, Moment)
           result == [signals |-> signals, orders |-> orders, fills |-> fills, rejected |-> rejected,
                      pending |-> pending, snapshots |-> portfolio.snapshots]
           ruined == \E i \in DOMAIN portfolio.snapshots : portfolio.snapshots[i].equity \prec Zero
<1>1. step = "bar" /\ Changes(job, Moment) = r
  BY MomentIs DEF NextBar, FinishRun, Changes
<1>2. r = IF cursor <= Len(job.bars) THEN [step |-> "execute"]
          ELSE IF ruined THEN Fails("ValueError", <<>>) ELSE [step |-> "idle", last |-> result]
  BY MomentIs, Zenon DEF InBars
<1>3. UNCHANGED <<job, cursor, queue, portfolio, strategy, nextOrder, signals, orders, fills, rejected,
                  pending, seen, refused, still, accepted>>
  BY DEF NextBar, FinishRun, simulatorVars
<1>4. cursor \in Int /\ Len(job.bars) \in Int
  BY JobFacts DEF TypeInvariant, StepOK
<1>5. PerformanceFails <=> ruined
  BY DEF PerformanceFails, EquityCurve
<1> HIDE DEF r, ruined
<1>6. CASE NextBar
  <2>1. r = [step |-> "execute"] /\ step' = "execute" /\ outcomes' = outcomes
    BY <1>2, <1>6, Zenon DEF NextBar
  <2>2. /\ \A f \in DOMAIN r \cap Fields : Moment'[f] = r[f]
        /\ \A f \in Fields \ DOMAIN r : Moment'[f] = Moment[f]
    BY <1>1, <1>3, <2>1 DEF Moment, Fields
  <2>3. QED
    BY <1>1, <2>2, MomentChanges DEF Following
<1>7. CASE FinishRun
  <2>1. ~(cursor <= Len(job.bars))
    BY <1>4, <1>7 DEF FinishRun
  <2>2. CASE ruined
    <3>1. r = Fails("ValueError", <<>>) /\ Raise("ValueError")
      BY <1>2, <1>5, <1>7, <2>1, <2>2, Zenon DEF FinishRun
    <3>2. \A f \in Fields \ {"step", "last"} : Moment'[f] = Moment[f]
      BY <1>3 DEF Moment, Fields
    <3>3. DOMAIN <<>> = {}
      OBVIOUS
    <3>4. QED
      BY <1>1, <3>1, <3>2, <3>3, MomentFails DEF Following
  <2>3. CASE ~ruined
    <3>1. r = [step |-> "idle", last |-> result] /\ step' = "idle" /\ outcomes' = Append(outcomes, result)
      BY <1>2, <1>5, <1>7, <2>1, <2>3, Zenon DEF FinishRun, Result
    <3> HIDE DEF result
    <3>2. outcomes'[Len(outcomes')] = result
      BY <3>1, LastIsAdded
    <3>3. Moment'.step = "idle" /\ Moment'.last = result
      BY <3>1, <3>2 DEF Moment
    <3>4. DOMAIN r = {"step", "last"} /\ r.step = "idle" /\ r.last = result
      BY <3>1
    <3>5. \A f \in Fields \ {"step", "last"} : Moment'[f] = Moment[f]
      BY <1>3 DEF Moment, Fields
    <3>6. QED
      BY <1>1, <3>3, <3>4, <3>5, MomentChanges DEF Following
  <2>4. QED
    BY <2>2, <2>3
<1>8. QED
  BY <1>6, <1>7

\* while pending orders meet their bar,
LEMMA FollowsInExecution ==
  ASSUME TypeInvariant, ExecuteOrder \/ EndExecution
  PROVE  Moment' = Following(job, Moment)
<1> DEFINE r == InExecution(job, Moment)
           order == Head(pending)
           fill == FillOf(order, Market, job.commission, job.slippage)
           left == Tail(pending)
           late == rejected \o [i \in DOMAIN NewlyRefused |-> Refusal(NewlyRefused[i])]
           kept == Append(still, order)
           taken == Append(accepted, fill)
           denied == Append(refused, order)
           failed == Fails("ValueError", [pending |-> left])
<1>1. step = "execute" /\ Changes(job, Moment) = r
  BY MomentIs DEF ExecuteOrder, EndExecution, Changes
<1>2. r = IF pending = <<>>
          THEN [queue |-> accepted, pending |-> still, still |-> <<>>, accepted |-> <<>>, step |-> "apply",
                rejected |-> late]
          ELSE IF ~Eligible(order, Market) THEN [still |-> kept, pending |-> left]
          ELSE IF fill.price \preceq Zero THEN failed
          ELSE IF CanProcessFill(portfolio, fill) THEN [accepted |-> taken, pending |-> left]
          ELSE [refused |-> denied, pending |-> left]
  BY MomentIs, Zenon DEF InExecution, Market, NewlyRefused, Reported, Refusal
<1>3. UNCHANGED <<job, cursor, portfolio, strategy, nextOrder, signals, orders, fills>> /\ seen' = seen
  BY DEF ExecuteOrder, EndExecution, Hold, Match, PriceFails, FinishExecution
<1> HIDE DEF r, late
<1>4. CASE ExecuteOrder
  <2>1. pending # <<>> /\ queue' = queue /\ rejected' = rejected
    BY <1>4 DEF ExecuteOrder
  <2>2. \/ Hold(Market) /\ UNCHANGED <<step, outcomes>>
        \/ Eligible(order, Market) /\ Match(fill, CanProcessFill(portfolio, fill)) /\ UNCHANGED <<step, outcomes>>
        \/ Eligible(order, Market) /\ PriceFails(fill) /\ Raise("ValueError")
    BY <1>4, Zenon DEF ExecuteOrder, Accepts
  <2> HIDE DEF order, fill, left, kept, taken, denied
  <2>3. CASE Hold(Market) /\ UNCHANGED <<step, outcomes>>
    <3>1. /\ still' = kept /\ pending' = left /\ refused' = refused /\ accepted' = accepted
          /\ step' = step /\ outcomes' = outcomes /\ ~Eligible(order, Market)
      BY <2>3 DEF Hold, order, left, kept
    <3>2. r = [still |-> kept, pending |-> left]
      BY <1>2, <2>1, <3>1, Zenon
    <3>3. /\ \A f \in DOMAIN r \cap Fields : Moment'[f] = r[f]
          /\ \A f \in Fields \ DOMAIN r : Moment'[f] = Moment[f]
      BY <1>1, <1>3, <2>1, <3>1, <3>2 DEF Moment, Fields
    <3>4. QED
      BY <1>1, <3>3, MomentChanges DEF Following
  <2>4. CASE Eligible(order, Market) /\ Match(fill, CanProcessFill(portfolio, fill)) /\ UNCHANGED <<step, outcomes>>
    <3>1. pending' = left /\ step' = step /\ outcomes' = outcomes /\ still' = still /\ ~(fill.price \preceq Zero)
      BY <2>4, Zenon DEF Match, left, \preceq, \prec
    <3>2. CASE CanProcessFill(portfolio, fill)
      <4>1. accepted' = taken /\ refused' = refused
        BY <2>4, <3>2, Zenon DEF Match, taken
      <4>2. r = [accepted |-> taken, pending |-> left]
        BY <1>2, <2>1, <2>4, <3>1, <3>2, Zenon
      <4>3. /\ \A f \in DOMAIN r \cap Fields : Moment'[f] = r[f]
            /\ \A f \in Fields \ DOMAIN r : Moment'[f] = Moment[f]
        BY <1>1, <1>3, <2>1, <3>1, <4>1, <4>2 DEF Moment, Fields
      <4>4. QED
        BY <1>1, <4>3, MomentChanges DEF Following
    <3>3. CASE ~CanProcessFill(portfolio, fill)
      <4>1. refused' = denied /\ accepted' = accepted
        BY <2>4, <3>3, Zenon DEF Match, order, denied
      <4>2. r = [refused |-> denied, pending |-> left]
        BY <1>2, <2>1, <2>4, <3>1, <3>3, Zenon
      <4>3. /\ \A f \in DOMAIN r \cap Fields : Moment'[f] = r[f]
            /\ \A f \in Fields \ DOMAIN r : Moment'[f] = Moment[f]
        BY <1>1, <1>3, <2>1, <3>1, <4>1, <4>2 DEF Moment, Fields
      <4>4. QED
        BY <1>1, <4>3, MomentChanges DEF Following
    <3>4. QED
      BY <3>2, <3>3
  <2>5. CASE Eligible(order, Market) /\ PriceFails(fill) /\ Raise("ValueError")
    <3>1. /\ fill.price \preceq Zero /\ pending' = left /\ Raise("ValueError")
          /\ UNCHANGED <<seen, refused, still, accepted>>
      BY <2>5, Zenon DEF PriceFails, left
    <3>2. r = failed
      BY <1>2, <2>1, <2>5, <3>1, Zenon
    <3>3. DOMAIN [pending |-> left] = {"pending"} /\ [pending |-> left].pending = left
      OBVIOUS
    <3>4. /\ Moment'.pending = left
          /\ \A f \in Fields \ {"pending", "step", "last"} : Moment'[f] = Moment[f]
      BY <1>3, <2>1, <3>1 DEF Moment, Fields
    <3>5. Moment' = With(Moment, failed)
      BY <3>1, <3>3, <3>4, MomentFails
    <3>6. QED
      BY <1>1, <3>2, <3>5 DEF Following
  <2>6. QED
    BY <2>2, <2>3, <2>4, <2>5
<1>5. CASE EndExecution
  <2>1. /\ pending = <<>> /\ queue' = accepted /\ pending' = still /\ still' = <<>> /\ accepted' = <<>>
        /\ rejected' = late /\ step' = "apply" /\ refused' = refused /\ outcomes' = outcomes
    BY <1>5 DEF EndExecution, FinishExecution, late
  <2>2. r = [queue |-> accepted, pending |-> still, still |-> <<>>, accepted |-> <<>>, step |-> "apply",
             rejected |-> late]
    BY <1>2, <2>1, Zenon
  <2>3. /\ \A f \in DOMAIN r \cap Fields : Moment'[f] = r[f]
        /\ \A f \in Fields \ DOMAIN r : Moment'[f] = Moment[f]
    BY <1>1, <1>3, <2>1, <2>2 DEF Moment, Fields
  <2>4. QED
    BY <1>1, <2>3, MomentChanges DEF Following
<1>6. QED
  BY <1>4, <1>5

\* while fills are applied and the bar is marked,
LEMMA FollowsInApplication ==
  ASSUME TypeInvariant, ApplyNext \/ MarkBar
  PROVE  Moment' = Following(job, Moment)
<1> DEFINE r == InApplication(job, Moment)
           fill == Head(queue)
           left == Tail(queue)
           applied == ProcessFill(portfolio, fill)
           more == Append(fills, fill)
           marked == MarkToMarket(portfolio, Market)
           error == FillError(portfolio, fill)
<1>1. step = "apply" /\ Changes(job, Moment) = r
  BY MomentIs DEF ApplyNext, MarkBar, Changes
<1>2. r = IF queue = <<>> THEN [portfolio |-> marked, step |-> "strategy"]
          ELSE IF CanProcessFill(portfolio, fill)
          THEN [portfolio |-> applied, fills |-> more, queue |-> left]
          ELSE Fails(error, [queue |-> left])
  BY MomentIs, Zenon DEF InApplication, Market
<1>3. UNCHANGED <<job, cursor, strategy, nextOrder, signals, orders, rejected, pending, seen, refused,
                  still, accepted>>
  BY DEF ApplyNext, MarkBar, simulatorVars
<1> HIDE DEF r, fill, left, applied, more, marked, error
<1>4. CASE ApplyNext
  <2>1. queue # <<>> /\ queue' = left
    BY <1>4 DEF ApplyNext, left
  <2>2. CASE CanProcessFill(portfolio, fill)
    <3>1. /\ portfolio' = applied /\ fills' = more /\ step' = step /\ outcomes' = outcomes
          /\ r = [portfolio |-> applied, fills |-> more, queue |-> left]
      BY <1>2, <1>4, <2>1, <2>2, Zenon DEF ApplyNext, fill, applied, more
    <3>2. /\ \A f \in DOMAIN r \cap Fields : Moment'[f] = r[f]
          /\ \A f \in Fields \ DOMAIN r : Moment'[f] = Moment[f]
      BY <1>1, <1>3, <2>1, <3>1 DEF Moment, Fields
    <3>3. QED
      BY <1>1, <3>2, MomentChanges DEF Following
  <2>3. CASE ~CanProcessFill(portfolio, fill)
    <3>1. /\ Raise(error) /\ portfolio' = portfolio /\ fills' = fills
          /\ r = Fails(error, [queue |-> left])
      BY <1>2, <1>4, <2>1, <2>3, Zenon DEF ApplyNext, fill, error
    <3>2. DOMAIN [queue |-> left] = {"queue"} /\ [queue |-> left].queue = left
      OBVIOUS
    <3>3. /\ Moment'.queue = left
          /\ \A f \in Fields \ {"queue", "step", "last"} : Moment'[f] = Moment[f]
      BY <1>3, <2>1, <3>1 DEF Moment, Fields
    <3>4. Moment' = With(Moment, Fails(error, [queue |-> left]))
      BY <3>1, <3>2, <3>3, MomentFails
    <3>5. QED
      BY <1>1, <3>1, <3>4 DEF Following
  <2>4. QED
    BY <2>2, <2>3
<1>5. CASE MarkBar
  <2>1. /\ queue = <<>> /\ portfolio' = marked /\ step' = "strategy" /\ UNCHANGED <<queue, fills, outcomes>>
        /\ r = [portfolio |-> marked, step |-> "strategy"]
    BY <1>2, <1>5, Zenon DEF MarkBar, marked
  <2>2. /\ \A f \in DOMAIN r \cap Fields : Moment'[f] = r[f]
        /\ \A f \in Fields \ DOMAIN r : Moment'[f] = Moment[f]
    BY <1>1, <1>3, <2>1 DEF Moment, Fields
  <2>3. QED
    BY <1>1, <2>2, MomentChanges DEF Following
<1>6. QED
  BY <1>4, <1>5

\* when the strategy answers,
LEMMA FollowsInStrategy ==
  ASSUME TypeInvariant, CallStrategy
  PROVE  Moment' = Following(job, Moment)
<1> DEFINE r == InStrategy(job, Moment)
           answer == Strat!Observe(job.strategy, strategy, Market, TRUE)
           state == answer.state
           events == answer.signals
           late == {i \in DOMAIN answer.signals : answer.signals[i].timestamp # Market.timestamp}
<1>1. step = "strategy" /\ Changes(job, Moment) = r
  BY MomentIs DEF CallStrategy, Changes
<1>2. r = IF late = {} THEN [strategy |-> state, queue |-> events, step |-> "decide"]
          ELSE Fails("ValueError", [strategy |-> state])
  BY MomentIs, Zenon DEF InStrategy, Market
<1>3. UNCHANGED <<job, cursor, portfolio, nextOrder, signals, orders, fills, rejected, pending, seen,
                  refused, still, accepted>> /\ strategy' = state
  BY DEF CallStrategy, simulatorVars
<1>4. /\ late = {} => queue' = events /\ step' = "decide" /\ outcomes' = outcomes
      /\ late # {} => Raise("ValueError") /\ queue' = queue
  BY Zenon DEF CallStrategy
<1> HIDE DEF r, state, events, late, answer
<1>5. CASE late = {}
  <2>1. r = [strategy |-> state, queue |-> events, step |-> "decide"]
    BY <1>2, <1>5
  <2>2. /\ \A f \in DOMAIN r \cap Fields : Moment'[f] = r[f]
        /\ \A f \in Fields \ DOMAIN r : Moment'[f] = Moment[f]
    BY <1>1, <1>3, <1>4, <1>5, <2>1 DEF Moment, Fields
  <2>3. QED
    BY <1>1, <2>2, MomentChanges DEF Following
<1>6. CASE late # {}
  <2>1. DOMAIN [strategy |-> state] = {"strategy"} /\ [strategy |-> state].strategy = state
    OBVIOUS
  <2>2. /\ Moment'.strategy = state
        /\ \A f \in Fields \ {"strategy", "step", "last"} : Moment'[f] = Moment[f]
    BY <1>3, <1>4, <1>6 DEF Moment, Fields
  <2>3. Moment' = With(Moment, Fails("ValueError", [strategy |-> state]))
    BY <1>4, <1>6, <2>1, <2>2, MomentFails
  <2>4. QED
    BY <1>1, <1>2, <1>6, <2>3 DEF Following
<1>7. QED
  BY <1>5, <1>6

\* and while signals become orders and orders are decided.
LEMMA FollowsInDecision ==
  ASSUME TypeInvariant, TakeSignal \/ TakeOrder \/ EndBar
  PROVE  Moment' = Following(job, Moment)
<1> DEFINE r == InDecision(job, Moment)
           first == Head(queue)
           left == Tail(queue)
           decision == DecisionFor(first)
           made == Generated(first)
           taken == Append(signals, first)
           rest == left \o made
           number == nextOrder + Len(made)
           decided == Append(orders, first)
           denied == Append(rejected, [order |-> first, timestamp |-> Market.timestamp,
                                       reason |-> decision, late |-> FALSE])
           waiting == Append(pending, first)
           known == seen \cup {first.id}
           failed == Fails("DuplicateOrderError", [orders |-> decided, queue |-> left])
<1>1. step = "decide" /\ Changes(job, Moment) = r
  BY MomentIs DEF TakeSignal, TakeOrder, EndBar, Changes
<1>2. OrdersOf(job, Moment, first) = made
  BY MomentIs, Zenon DEF OrdersOf, Generated
<1>3. r = IF queue = <<>> THEN [step |-> "bar", cursor |-> cursor + 1]
          ELSE IF ~IsOrder(first) THEN [signals |-> taken, queue |-> rest, nextOrder |-> number]
          ELSE IF decision # Approved THEN [orders |-> decided, queue |-> left, rejected |-> denied]
          ELSE IF first.id \in seen THEN failed
          ELSE [orders |-> decided, queue |-> left, pending |-> waiting, seen |-> known]
  BY <1>2, MomentIs, Zenon DEF InDecision, Market, DecisionFor
<1>4. UNCHANGED <<job, portfolio, strategy, fills>>
  BY DEF TakeSignal, TakeOrder, EndBar
<1> HIDE DEF r, first, left, decision, made, taken, rest, number, decided, denied, waiting, known
<1>5. CASE TakeSignal
  <2>1. /\ queue # <<>> /\ ~IsOrder(first) /\ signals' = taken /\ queue' = rest /\ nextOrder' = number
        /\ UNCHANGED <<step, cursor, orders, rejected, outcomes, pending, seen, refused, still, accepted>>
    BY <1>5 DEF TakeSignal, simulatorVars, first, left, made, taken, rest, number
  <2>2. r = [signals |-> taken, queue |-> rest, nextOrder |-> number]
    BY <1>3, <2>1, Zenon
  <2>3. /\ \A f \in DOMAIN r \cap Fields : Moment'[f] = r[f]
        /\ \A f \in Fields \ DOMAIN r : Moment'[f] = Moment[f]
    BY <1>1, <1>4, <2>1, <2>2 DEF Moment, Fields
  <2>4. QED
    BY <1>1, <2>3, MomentChanges DEF Following
<1>6. CASE TakeOrder
  <2>1. /\ queue # <<>> /\ IsOrder(first) /\ orders' = decided /\ queue' = left
        /\ UNCHANGED <<cursor, signals, nextOrder>>
        /\ \/ /\ decision # Approved /\ rejected' = denied /\ UNCHANGED <<simulatorVars, step, outcomes>>
           \/ /\ decision = Approved /\ first.id \in seen
              /\ Raise("DuplicateOrderError") /\ UNCHANGED <<rejected, simulatorVars>>
           \/ /\ decision = Approved /\ first.id \notin seen /\ Submit(first)
              /\ UNCHANGED <<rejected, step, outcomes>>
    BY <1>6, Zenon DEF TakeOrder, first, left, decision, decided, denied
  <2>2. CASE decision # Approved /\ rejected' = denied /\ UNCHANGED <<simulatorVars, step, outcomes>>
    <3>1. UNCHANGED <<pending, seen, refused, still, accepted, step, outcomes>>
      BY <2>2 DEF simulatorVars
    <3>2. r = [orders |-> decided, queue |-> left, rejected |-> denied]
      BY <1>3, <2>1, <2>2, Zenon
    <3>3. /\ \A f \in DOMAIN r \cap Fields : Moment'[f] = r[f]
          /\ \A f \in Fields \ DOMAIN r : Moment'[f] = Moment[f]
      BY <1>1, <1>4, <2>1, <2>2, <3>1, <3>2 DEF Moment, Fields
    <3>4. QED
      BY <1>1, <3>3, MomentChanges DEF Following
  <2>3. CASE /\ decision = Approved /\ first.id \in seen
             /\ Raise("DuplicateOrderError") /\ UNCHANGED <<rejected, simulatorVars>>
    <3>1. UNCHANGED <<pending, seen, refused, still, accepted>>
      BY <2>3 DEF simulatorVars
    <3>2. r = failed
      BY <1>3, <2>1, <2>3, Zenon
    <3> DEFINE c == [orders |-> decided, queue |-> left]
    <3>3. DOMAIN c = {"orders", "queue"} /\ c.orders = decided /\ c.queue = left
      OBVIOUS
    <3>4. /\ Moment'.orders = decided /\ Moment'.queue = left
          /\ \A f \in Fields \ {"orders", "queue", "step", "last"} : Moment'[f] = Moment[f]
      BY <1>4, <2>1, <2>3, <3>1 DEF Moment, Fields
    <3> HIDE DEF c
    <3>5. Moment' = With(Moment, Fails("DuplicateOrderError", c))
      BY <2>3, <3>3, <3>4, MomentFails
    <3>6. QED
      BY <1>1, <3>2, <3>5 DEF Following, c
  <2>4. CASE decision = Approved /\ first.id \notin seen /\ Submit(first) /\ UNCHANGED <<rejected, step, outcomes>>
    <3>1. pending' = waiting /\ seen' = known /\ UNCHANGED <<refused, still, accepted, rejected, step, outcomes>>
      BY <2>4 DEF Submit, waiting, known
    <3>2. r = [orders |-> decided, queue |-> left, pending |-> waiting, seen |-> known]
      BY <1>3, <2>1, <2>4, Zenon
    <3>3. /\ \A f \in DOMAIN r \cap Fields : Moment'[f] = r[f]
          /\ \A f \in Fields \ DOMAIN r : Moment'[f] = Moment[f]
      BY <1>1, <1>4, <2>1, <3>1, <3>2 DEF Moment, Fields
    <3>4. QED
      BY <1>1, <3>3, MomentChanges DEF Following
  <2>5. QED
    BY <2>1, <2>2, <2>3, <2>4
<1>7. CASE EndBar
  <2>1. /\ queue = <<>> /\ step' = "bar" /\ cursor' = cursor + 1
        /\ UNCHANGED <<queue, nextOrder, signals, orders, rejected, outcomes, pending, seen, refused, still, accepted>>
    BY <1>7 DEF EndBar, simulatorVars
  <2>2. r = [step |-> "bar", cursor |-> cursor + 1]
    BY <1>3, <2>1, Zenon
  <2> DEFINE n == cursor + 1
  <2> HIDE DEF n
  <2>3. r = [step |-> "bar", cursor |-> n] /\ cursor' = n
    BY <2>1, <2>2 DEF n
  <2>4. /\ \A f \in DOMAIN r \cap Fields : Moment'[f] = r[f]
        /\ \A f \in Fields \ DOMAIN r : Moment'[f] = Moment[f]
    BY <1>1, <1>4, <2>1, <2>3 DEF Moment, Fields
  <2>5. QED
    BY <1>1, <2>4, MomentChanges DEF Following
<1>8. QED
  BY <1>5, <1>6, <1>7

\* Every step of run leads to the moment that follows, and none starts from an idle one.
LEMMA RunFollows ==
  ASSUME TypeInvariant, RunStep
  PROVE  Moment' = Following(job, Moment) /\ job' = job /\ step # "idle"
<1>1. Moment' = Following(job, Moment)
  BY FollowsInWarmUp, FollowsInBars, FollowsInExecution, FollowsInApplication, FollowsInStrategy,
     FollowsInDecision DEF RunStep, Execute, Decide
<1>2. job' = job /\ step # "idle"
  BY Zenon DEF RunStep, Execute, Decide, WarmUp, BeginEvaluation, NextBar, FinishRun, ExecuteOrder, EndExecution,
     ApplyNext, MarkBar, CallStrategy, TakeSignal, TakeOrder, EndBar
<1>3. QED
  BY <1>1, <1>2

\* A call starts from the same moment, whatever is left of the last one.
LEMMA RunStarts ==
  ASSUME StartRun
  PROVE  Moment' = Start(job) /\ job' = job /\ outcomes' = outcomes /\ step' = "warmup"
BY DEF StartRun, ResetParts, ResetSimulator, Moment, Start

\* p is a path of n steps from the start, and only its end may be idle.
IsPath(j, p, n) ==
  /\ p[0] = Start(j)
  /\ \A k \in 1 .. n : p[k - 1].step # "idle" /\ p[k] = Following(j, p[k - 1])

\* The state is the end of a path, and so is what every call so far came to.
PathsTaken ==
  /\ step # "idle" => \E n \in Nat : \E p : IsPath(job, p, n) /\ p[n] = Moment
  /\ \A i \in DOMAIN outcomes : \E n \in Nat : \E p :
       IsPath(job, p, n) /\ p[n].step = "idle" /\ p[n].last = outcomes[i]

\* Paths agree as far as both go.
LEMMA PathsAgree ==
  ASSUME NEW j, NEW p, NEW m \in Nat, IsPath(j, p, m), NEW q, NEW n \in Nat, IsPath(j, q, n), n <= m
  PROVE  \A k \in 0 .. n : p[k] = q[k]
<1> SUFFICES ASSUME \E k \in 0 .. n : p[k] # q[k] PROVE FALSE
  OBVIOUS
<1> DEFINE B == {k \in 0 .. n : p[k] # q[k]}
<1>1. PICK k \in B : \A i \in B : k <= i
  <2>1. B \subseteq Nat /\ B # {}
    OBVIOUS
  <2> HIDE DEF B
  <2>2. QED
    BY <2>1, LeastExists
<1>2. k \in 0 .. n /\ p[k] # q[k] /\ k # 0
  BY DEF IsPath
<1>3. k \in 1 .. n /\ k \in 1 .. m /\ k - 1 \in 0 .. n /\ k - 1 \notin B
  BY <1>1, <1>2
<1>4. p[k - 1] = q[k - 1]
  BY <1>3
<1>5. p[k] = Following(j, p[k - 1]) /\ q[k] = Following(j, q[k - 1])
  BY <1>3 DEF IsPath
<1>6. QED
  BY <1>2, <1>4, <1>5

\* The paths to an idle moment end in the same one.
LEMMA PathsEndAlike ==
  ASSUME NEW j, NEW p, NEW m \in Nat, IsPath(j, p, m), p[m].step = "idle",
         NEW q, NEW n \in Nat, IsPath(j, q, n), q[n].step = "idle", n <= m
  PROVE  p[m] = q[n]
<1>1. p[n] = q[n]
  BY PathsAgree
<1>2. n = m
  <2> SUFFICES ASSUME n # m PROVE FALSE
    OBVIOUS
  <2>1. n + 1 \in 1 .. m /\ (n + 1) - 1 = n
    OBVIOUS
  <2>2. p[n].step # "idle"
    BY <2>1 DEF IsPath
  <2>3. QED
    BY <1>1, <2>2
<1>3. QED
  BY <1>1, <1>2

\* A path goes on by the step that is taken.
LEMMA PathGrows ==
  ASSUME NEW j, NEW p, NEW n \in Nat, IsPath(j, p, n), p[n].step # "idle"
  PROVE  LET q == [k \in 0 .. n + 1 |-> IF k = n + 1 THEN Following(j, p[n]) ELSE p[k]]
         IN  IsPath(j, q, n + 1) /\ q[n + 1] = Following(j, p[n])
<1> DEFINE next == Following(j, p[n])
           q == [k \in 0 .. n + 1 |-> IF k = n + 1 THEN next ELSE p[k]]
<1> HIDE DEF next
<1>1. /\ \A k \in 0 .. n : q[k] = p[k]
      /\ q[n + 1] = next
  OBVIOUS
<1> HIDE DEF q
<1>2. q[0] = Start(j)
  BY <1>1 DEF IsPath
<1>3. ASSUME NEW k \in 1 .. n + 1
      PROVE  q[k - 1].step # "idle" /\ q[k] = Following(j, q[k - 1])
  <2>1. CASE k = n + 1
    <3>1. k - 1 = n /\ q[k - 1] = p[n]
      BY <1>1, <2>1
    <3>2. QED
      BY <1>1, <2>1, <3>1 DEF next
  <2>2. CASE k # n + 1
    <3>1. k \in 1 .. n /\ q[k] = p[k] /\ q[k - 1] = p[k - 1]
      BY <1>1, <2>2
    <3>2. QED
      BY <3>1 DEF IsPath
  <2>3. QED
    BY <2>1, <2>2
<1>4. QED
  BY <1>1, <1>2, <1>3 DEF IsPath, q, next

\* A step of run adds an outcome when it leaves it, and none otherwise.
LEMMA OutcomesGrow ==
  ASSUME RunStep
  PROVE  outcomes' = outcomes \/ (step' = "idle" /\ \E o : outcomes' = Append(outcomes, o))
<1>1. \A error : Raise(error) => step' = "idle" /\ \E o : outcomes' = Append(outcomes, o)
  BY Zenon DEF Raise
<1>2. CASE WarmUp \/ BeginEvaluation \/ NextBar \/ FinishRun
  BY <1>1, <1>2, Zenon DEF WarmUp, BeginEvaluation, NextBar, FinishRun
<1>3. CASE Execute
  BY <1>1, <1>3, Zenon DEF Execute, ExecuteOrder, EndExecution, ApplyNext, MarkBar
<1>4. CASE Decide
  BY <1>1, <1>4, Zenon DEF Decide, CallStrategy, TakeSignal, TakeOrder, EndBar
<1>5. QED
  BY <1>2, <1>3, <1>4 DEF RunStep

\* Every step keeps to its path.
LEMMA PathsAreKept ==
  ASSUME TypeInvariant, PathsTaken, [Next]_vars
  PROVE  PathsTaken'
<1>0. PICK S : outcomes \in Seq(S)
  BY DEF TypeInvariant, ListsOK
<1>1. CASE UNCHANGED vars
  <2>1. job' = job /\ outcomes' = outcomes /\ step' = step /\ Moment' = Moment
    BY <1>1 DEF vars, runVars, simulatorVars, Moment
  <2> HIDE DEF Moment
  <2>2. QED
    BY <2>1 DEF PathsTaken
<1>2. CASE StartRun
  <2>1. Moment' = Start(job) /\ job' = job /\ outcomes' = outcomes
    BY <1>2, RunStarts
  <2> DEFINE p == [k \in {0} |-> Start(job)]
  <2>2. IsPath(job, p, 0) /\ p[0] = Start(job) /\ 0 \in Nat
    BY DEF IsPath
  <2>3. \E n \in Nat : \E q : IsPath(job, q, n) /\ q[n] = Start(job)
    BY <2>2
  <2>4. QED
    BY <2>1, <2>3, Zenon DEF PathsTaken
<1>3. CASE RunStep
  <2>1. Moment' = Following(job, Moment) /\ job' = job /\ step # "idle"
    BY <1>3, RunFollows
  <2>2. PICK n, p : n \in Nat /\ IsPath(job, p, n) /\ p[n] = Moment
    BY <2>1 DEF PathsTaken
  <2>3. p[n].step # "idle"
    BY <2>1, <2>2, MomentIs
  <2> DEFINE q == [k \in 0 .. n + 1 |-> IF k = n + 1 THEN Following(job, p[n]) ELSE p[k]]
  <2>4. IsPath(job, q, n + 1) /\ q[n + 1] = Following(job, p[n])
    BY <2>2, <2>3, PathGrows
  <2> HIDE DEF q
  <2>5. IsPath(job, q, n + 1) /\ q[n + 1] = Moment' /\ n + 1 \in Nat
    BY <2>1, <2>2, <2>4
  <2>6. \E k \in Nat : \E w : IsPath(job, w, k) /\ w[k] = Moment'
    BY <2>5
  <2>7. outcomes' = outcomes \/ (step' = "idle" /\ \E o : outcomes' = Append(outcomes, o))
    BY <1>3, OutcomesGrow
  <2>8. ASSUME NEW i \in DOMAIN outcomes'
        PROVE  \E k \in Nat : \E w : IsPath(job, w, k) /\ w[k].step = "idle" /\ w[k].last = outcomes'[i]
    <3>1. CASE i \in DOMAIN outcomes /\ outcomes'[i] = outcomes[i]
      BY <3>1 DEF PathsTaken
    <3>2. CASE ~(i \in DOMAIN outcomes /\ outcomes'[i] = outcomes[i])
      <4>1. PICK o : outcomes' = Append(outcomes, o) /\ step' = "idle"
        BY <2>7, <3>2
      <4>2. i = Len(outcomes') /\ outcomes'[i] = o
        BY <1>0, <3>2, <4>1
      <4>3. Moment'.step = "idle" /\ Moment'.last = outcomes'[i]
        BY <4>1, <4>2 DEF Moment
      <4>4. QED
        BY <2>5, <4>3
    <3>3. QED
      BY <3>1, <3>2
  <2>9. QED
    BY <2>1, <2>6, <2>8, Zenon DEF PathsTaken
<1>4. QED
  BY <1>1, <1>2, <1>3 DEF Next

\* Two calls of run with the same data, strategy, capital and permission to short return or
\* raise the same, down to every snapshot, fill and refused order, whatever calls were made
\* before or between them: nothing is carried from a run to the next (BacktestEngine.run,
\* OrderGenerator, Strategy.reset).
THEOREM RerunsAreAlike == Spec => []RerunsAreIdentical
<1>1. Init => PathsTaken
  BY DEF Init, PathsTaken
<1>2. EngineInvariant /\ PathsTaken /\ [Next]_vars => PathsTaken'
  BY PathsAreKept DEF EngineInvariant
<1>3. PathsTaken => RerunsAreIdentical
  <2> SUFFICES ASSUME PathsTaken, NEW a \in DOMAIN outcomes, NEW b \in DOMAIN outcomes
               PROVE  outcomes[a] = outcomes[b]
    BY DEF RerunsAreIdentical
  <2>1. PICK m, p : m \in Nat /\ IsPath(job, p, m) /\ p[m].step = "idle" /\ p[m].last = outcomes[a]
    BY DEF PathsTaken
  <2>2. PICK n, q : n \in Nat /\ IsPath(job, q, n) /\ q[n].step = "idle" /\ q[n].last = outcomes[b]
    BY DEF PathsTaken
  <2>3. n <= m \/ m <= n
    BY <2>1, <2>2
  <2>4. p[m] = q[n]
    BY <2>1, <2>2, <2>3, PathsEndAlike
  <2>5. QED
    BY <2>1, <2>2, <2>4
<1>4. QED
  BY <1>1, <1>2, <1>3, EngineInvariantHolds, PTL DEF Spec

-----------------------------------------------------------------------------
(***************************************************************************)
(* Orders that reduce a position                                           *)
(***************************************************************************)
\* What the checks on the limits may refuse an order for.
Refusals == LimitReasons \cup {"NON_POSITIVE_EQUITY"}
Exposures == {"position", "gross", "net", "positionPct", "grossPct"}

\* An order is refused for a limited value that is undefined, or that it would make worse.
LEMMA LimitsRefuseWorse ==
  ASSUME NEW before, NEW after, NEW limits, LimitDecision(before, after, limits) \in Refusals
  PROVE  \E k \in Exposures :
           /\ limits[k] # None
           /\ LimitDecision(before, after, limits) = "NON_POSITIVE_EQUITY" =>
                before[k] = None \/ after[k] = None
           /\ LimitDecision(before, after, limits) # "NON_POSITIVE_EQUITY" =>
                before[k] # None /\ after[k] # None /\ before[k] \prec after[k]
<1> DEFINE undefined(k) == before[k] = None \/ after[k] = None
           refuses(i) == LET k == Checks[i][1] IN
             limits[k] # None /\ (undefined(k) \/ Exceeds(before[k], after[k], limits[k]))
           first(i) == refuses(i) /\ \A j \in 1 .. i - 1 : ~refuses(j)
           chosen == CHOOSE i \in DOMAIN Checks : first(i)
<1>1. LimitDecision(before, after, limits)
        = IF \E i \in DOMAIN Checks : refuses(i)
          THEN IF undefined(Checks[chosen][1]) THEN "NON_POSITIVE_EQUITY" ELSE Checks[chosen][2]
          ELSE Approved
  BY Zenon DEF LimitDecision
<1>2. DOMAIN Checks = 1 .. 5
  BY DEF Checks
<1>3. Approved \notin Refusals
  BY DEF Approved, LimitReasons, Refusals
<1> HIDE DEF refuses
<1>4. \E i \in DOMAIN Checks : refuses(i)
  BY <1>1, <1>3
<1>5. \E i \in DOMAIN Checks : first(i)
  <2>1. CASE refuses(1)
    BY <1>2, <2>1
  <2>2. CASE ~refuses(1) /\ refuses(2)
    BY <1>2, <2>2
  <2>3. CASE ~refuses(1) /\ ~refuses(2) /\ refuses(3)
    BY <1>2, <2>3
  <2>4. CASE ~refuses(1) /\ ~refuses(2) /\ ~refuses(3) /\ refuses(4)
    BY <1>2, <2>4
  <2>5. CASE ~refuses(1) /\ ~refuses(2) /\ ~refuses(3) /\ ~refuses(4) /\ refuses(5)
    BY <1>2, <2>5
  <2>6. QED
    BY <1>2, <1>4, <2>1, <2>2, <2>3, <2>4, <2>5
<1>6. chosen \in DOMAIN Checks /\ refuses(chosen)
  BY <1>5, Zenon
<1> HIDE DEF chosen
<1> DEFINE key == Checks[chosen][1]
<1>7. key \in Exposures /\ Checks[chosen][2] # "NON_POSITIVE_EQUITY"
  <2>1. \A i \in 1 .. 5 : Checks[i][1] \in Exposures /\ Checks[i][2] # "NON_POSITIVE_EQUITY"
    BY DEF Checks, Exposures
  <2>2. QED
    BY <1>2, <1>6, <2>1
<1>8. LimitDecision(before, after, limits) = "NON_POSITIVE_EQUITY" <=> undefined(key)
  BY <1>1, <1>4, <1>7
<1>9. limits[key] # None /\ (undefined(key) \/ Exceeds(before[key], after[key], limits[key]))
  BY <1>6, Zenon DEF refuses
<1> HIDE DEF key
<1>10. QED
  BY <1>7, <1>8, <1>9, Zenon DEF Exceeds

\* A total with one value that is not zero is that value.
LEMMA TotalOfOne ==
  ASSUME NEW S, IsFiniteSet(S), NEW f, DOMAIN f = S, NEW x \in S, f[x] \in Fractions,
         \A y \in S \ {x} : f[y] = Zero
  PROVE  Total(f) = f[x]
<1> DEFINE none == [y \in S |-> Zero]
           v == f[x]
<1>1. Zero \in Fractions /\ Total(none) = Zero
  BY ZeroType, TotalOfNothing
<1>2. DOMAIN none = S /\ (\A y \in S : none[y] \in Fractions /\ f[y] \in Fractions) /\ none[x] = Zero
      /\ \A y \in S \ {x} : f[y] = none[y]
  BY <1>1
<1> HIDE DEF none
<1>3. Total(f) = Total(none) ++ (f[x] -- none[x])
  BY <1>2, TotalChangesOne
<1>4. PICK d \in Nat \ {0} : v \in Grid(d)
  BY FractionOnGrid
<1>5. /\ Zero \in Grid(d) /\ Units(Zero, d) = 0 /\ Units(v, d) \in Int
  BY <1>4, ZeroOnGrid, GridFacts
<1> HIDE DEF v
<1>6. v -- Zero \in Grid(d) /\ Units(v -- Zero, d) = Units(v, d)
  BY <1>4, <1>5, GridAdds
<1>7. Zero ++ (v -- Zero) \in Grid(d) /\ Units(Zero ++ (v -- Zero), d) = Units(v, d)
  BY <1>4, <1>5, <1>6, GridAdds
<1>8. Zero ++ (v -- Zero) = v
  BY <1>4, <1>7, GridIsUnique
<1>9. QED
  BY <1>1, <1>2, <1>3, <1>8 DEF v

\* The exposure of a single position.
LEMMA ExposureOfOne ==
  ASSUME NEW p, AccountOK(p), NEW x \in Symbols, NEW q \in Int, NEW price \in Int,
         \A s \in Symbols \ {x} : p.positions[s].quantity = 0
  PROVE  LET e == Exposure(p, x, q, price)
             value == Whole(Magnitude(q * price))
             share == IF Equity(p) \preceq Zero THEN None ELSE value // Equity(p)
         IN  /\ e.position = value /\ e.gross = value /\ e.net = value
             /\ e.positionPct = share /\ e.grossPct = share
<1> DEFINE n == q * price
           value == Whole(Magnitude(n))
           values == [MarketValues(p) EXCEPT ![x] = Whole(n)]
           sizes == [s \in Symbols |-> Absolute(values[s])]
<1>1. n \in Int /\ Magnitude(n) \in Int /\ IsFiniteSet(Symbols)
  BY MagnitudeType, BacktestAssumption
<1> HIDE DEF n
<1>2. Whole(n) \in Fractions /\ value \in Fractions /\ Absolute(Whole(n)) = value /\ Absolute(Zero) = Zero
  <2>1. Whole(n) \in Fractions /\ value \in Fractions
    BY <1>1, WholeIsFraction
  <2>2. Absolute(Whole(n)) = value /\ Absolute(Zero) = Zero
    BY <1>1 DEF Absolute, Whole, Zero, Magnitude
  <2>3. QED
    BY <2>1, <2>2
<1>3. /\ DOMAIN values = Symbols /\ values[x] = Whole(n)
      /\ \A s \in Symbols \ {x} : values[s] = Zero
  <2>1. ASSUME NEW s \in Symbols \ {x} PROVE MarketValues(p)[s] = Zero
    <3>1. p.marks[s] \in Int /\ p.positions[s].quantity = 0
      BY DEF AccountOK
    <3>2. p.positions[s].quantity * p.marks[s] = 0
      BY <3>1
    <3>3. QED
      BY <3>2 DEF MarketValues, Zero
  <2>2. QED
    BY <2>1 DEF MarketValues
<1> HIDE DEF value, values
<1>4. /\ DOMAIN sizes = Symbols /\ sizes[x] = value
      /\ \A s \in Symbols \ {x} : sizes[s] = Zero
  BY <1>2, <1>3
<1>5. Total(values) = Whole(n) /\ Total(sizes) = value
  BY <1>1, <1>2, <1>3, <1>4, TotalOfOne
<1> DEFINE share(v) == IF Equity(p) \preceq Zero THEN None ELSE v // Equity(p)
<1>6. Exposure(p, x, q, price)
        = [position |-> Absolute(values[x]), gross |-> Total(sizes), net |-> Absolute(Total(values)),
           positionPct |-> share(Absolute(values[x])), grossPct |-> share(Total(sizes))]
  BY Zenon DEF Exposure, values, sizes, n
<1> HIDE DEF sizes
<1>7. QED
  BY <1>2, <1>3, <1>5, <1>6 DEF value, n

\* Shares of the same equity are ordered as the values are.
LEMMA SharesAreOrdered ==
  ASSUME NEW a \in Int, NEW b \in Int, NEW e \in Fractions, e.n > 0, b <= a
  PROVE  ~ (Whole(a) \prec Whole(b)) /\ ~ (Whole(a) // e \prec Whole(b) // e)
<1>1. e.n \in Nat \ {0} /\ e.d \in Nat \ {0}
  BY FractionsAreQuotients, Typing
<1>2. /\ Whole(a) \in Fractions /\ Whole(b) \in Fractions
      /\ Whole(a) \in Quotients /\ Whole(b) \in Quotients
      /\ Whole(a).n = a /\ Whole(a).d = 1 /\ Whole(b).n = b /\ Whole(b).d = 1
  BY WholeIsFraction, WholeType
<1>3. ~ (Whole(a) \prec Whole(b))
  <2> DEFINE u == Whole(a)
             v == Whole(b)
  <2>1. <<u, v>> \in Pairs
    BY <1>2 DEF Pairs
  <2>2. u \prec v <=> u.n * v.d < v.n * u.d
    BY <2>1 DEF \prec, less
  <2> HIDE DEF u, v
  <2>3. u.n = a /\ u.d = 1 /\ v.n = b /\ v.d = 1
    BY <1>2 DEF u, v
  <2>4. QED
    BY <2>2, <2>3 DEF u, v
<1>4. Whole(a) // e = Ratio(a * e.d, e.n) /\ Whole(b) // e = Ratio(b * e.d, e.n)
  <2>1. 1 * e.n = e.n
    BY <1>1
  <2>2. QED
    BY <1>2, <2>1, QuotientIsRatio
<1> DEFINE n == e.n
           m == a * e.d
           k == b * e.d
           r == Ratio(m, n)
<1>5. m \in Int /\ k \in Int /\ n \in Nat \ {0} /\ k <= m
  <2>1. \A u \in Int, v \in Int, w \in Nat : v <= u => v * w <= u * w
    OBVIOUS
  <2>2. QED
    BY <1>1, <2>1
<1> HIDE DEF m, k, n
<1>6. r \in Quotients /\ r.n \in Int /\ r.d \in Nat \ {0} /\ r.n * n = m * r.d
  BY <1>5, RatioFacts
<1>7. k * r.d <= m * r.d
  <2>1. \A u \in Int, v \in Int, w \in Nat : v <= u => v * w <= u * w
    OBVIOUS
  <2>2. QED
    BY <1>5, <1>6, <2>1
<1>8. Ratio(k, n) \preceq r
  <2> HIDE DEF r
  <2>1. Ratio(k, n) \preceq r <=> k * r.d <= r.n * n
    BY <1>5, <1>6, RatioIsOrdered
  <2>2. QED
    BY <1>6, <1>7, <2>1
<1>9. ~ (r \prec Ratio(k, n))
  BY <1>8, Zenon DEF \prec, \preceq
<1>10. QED
  BY <1>3, <1>4, <1>9 DEF r, m, k, n

\* Equity is a fraction.
LEMMA EquityIsFraction == ASSUME NEW p, AccountOK(p) PROVE Equity(p) \in Fractions
<1>1. IsFiniteSet(Symbols) /\ DOMAIN MarketValues(p) = Symbols
  BY BacktestAssumption DEF MarketValues
<1>2. \A s \in Symbols : MarketValues(p)[s] \in Fractions
  <2> SUFFICES ASSUME NEW s \in Symbols PROVE MarketValues(p)[s] \in Fractions
    OBVIOUS
  <2>1. p.positions[s].quantity * p.marks[s] \in Int
    BY DEF AccountOK, Positions
  <2>2. QED
    BY <2>1, WholeIsFraction DEF MarketValues
<1>3. NetExposure(p) \in Quotients /\ p.cash \in Quotients
  BY <1>1, <1>2, TotalIsFraction, FractionsAreQuotients DEF NetExposure, AccountOK
<1>4. QED
  BY <1>3, OperationTypes DEF Equity

\* When a single position is held, the checks on the limits refuse an order that leaves it no
\* larger only for want of equity, where a percentage is limited.
LEMMA RefusedReducers ==
  ASSUME NEW p, AccountOK(p), NEW x \in Symbols, NEW order \in Orders, NEW price \in Nat \ {0}, NEW limits,
         \A s \in Symbols \ {x} : p.positions[s].quantity = 0,
         Decision(order, p, price, limits) \in Refusals,
         Magnitude(p.positions[order.symbol].quantity + Signed(order.side, order.quantity))
           <= Magnitude(p.positions[order.symbol].quantity)
  PROVE  /\ Decision(order, p, price, limits) = "NON_POSITIVE_EQUITY"
         /\ Equity(p) \preceq Zero
         /\ limits.positionPct # None \/ limits.grossPct # None
<1> DEFINE y == order.symbol
           current == p.positions[y].quantity
           change == Signed(order.side, order.quantity)
           after == current + change
           decision == Decision(order, p, price, limits)
<1>1. /\ y \in Symbols /\ current \in Int /\ change \in Int /\ change # 0 /\ after \in Int
  <2>1. y \in Symbols /\ order.quantity \in Nat \ {0}
    BY DEF Orders
  <2>2. p.positions[y] \in Positions
    BY <2>1 DEF AccountOK
  <2>3. current \in Int
    BY <2>2 DEF Positions
  <2>4. change \in Int /\ change # 0
    BY <2>1 DEF Signed
  <2> HIDE DEF current, change
  <2>5. QED
    BY <2>1, <2>3, <2>4
<1>2. Magnitude(after) <= Magnitude(current)
  OBVIOUS
<1> HIDE DEF change
<1>3. y = x
  <2> SUFFICES ASSUME y # x PROVE FALSE
    OBVIOUS
  <2>1. current = 0
    BY <1>1
  <2> HIDE DEF current
  <2>2. QED
    BY <1>1, <1>2, <2>1 DEF Magnitude
<1> DEFINE b == Exposure(p, y, current, price)
           f == Exposure(p, y, after, price)
           c == Magnitude(current * price)
           d == Magnitude(after * price)
           share(v) == IF Equity(p) \preceq Zero THEN None ELSE v // Equity(p)
<1>4. decision = LimitDecision(b, f, limits)
  <2>1. "SHORT_SELLING_DISABLED" \notin Refusals /\ "INSUFFICIENT_CASH" \notin Refusals
    BY DEF LimitReasons, Refusals
  <2>2. QED
    BY <2>1, Zenon DEF Decision, change
<1>5. PICK k \in Exposures :
        /\ limits[k] # None
        /\ decision = "NON_POSITIVE_EQUITY" => b[k] = None \/ f[k] = None
        /\ decision # "NON_POSITIVE_EQUITY" => b[k] # None /\ f[k] # None /\ b[k] \prec f[k]
  BY <1>4, LimitsRefuseWorse
<1>6. /\ b.position = Whole(c) /\ b.gross = Whole(c) /\ b.net = Whole(c)
      /\ b.positionPct = share(Whole(c)) /\ b.grossPct = share(Whole(c))
  BY <1>1, <1>3, ExposureOfOne
<1>7. /\ f.position = Whole(d) /\ f.gross = Whole(d) /\ f.net = Whole(d)
      /\ f.positionPct = share(Whole(d)) /\ f.grossPct = share(Whole(d))
  BY <1>1, <1>3, ExposureOfOne
<1>8. c \in Int /\ d \in Int
  BY <1>1, MagnitudeType
<1> HIDE DEF b, f, c, d, decision
<1>9. d <= c
  <2>1. c = Magnitude(current) * price /\ d = Magnitude(after) * price
    <3>1. \A i \in Int, j \in Nat \ {0} : Magnitude(i * j) = Magnitude(i) * j
      <4> SUFFICES ASSUME NEW i \in Int, NEW j \in Nat \ {0} PROVE Magnitude(i * j) = Magnitude(i) * j
        OBVIOUS
      <4>1. i * j \in Int /\ (i < 0 => i * j < 0) /\ (i >= 0 => i * j >= 0) /\ - (i * j) = (- i) * j
        OBVIOUS
      <4>2. QED
        BY <4>1 DEF Magnitude
    <3>2. QED
      BY <1>1, <3>1 DEF c, d
  <2>2. Magnitude(current) \in Int /\ Magnitude(after) \in Int
    BY <1>1, MagnitudeType
  <2>3. \A u \in Int, v \in Int, w \in Nat : v <= u => v * w <= u * w
    OBVIOUS
  <2>4. QED
    BY <1>2, <2>1, <2>2, <2>3
<1>10. Whole(c) # None /\ Whole(d) # None
  BY <1>8, WholeType, BacktestAssumption
<1>11. ~ (Equity(p) \preceq Zero) => /\ Whole(c) // Equity(p) # None /\ Whole(d) // Equity(p) # None
                                    /\ ~ (Whole(c) // Equity(p) \prec Whole(d) // Equity(p))
  <2> DEFINE e == Equity(p)
  <2> SUFFICES ASSUME ~ (e \preceq Zero)
               PROVE  /\ Whole(c) // e # None /\ Whole(d) // e # None
                      /\ ~ (Whole(c) // e \prec Whole(d) // e)
    OBVIOUS
  <2>1. e \in Fractions
    BY EquityIsFraction
  <2> HIDE DEF e
  <2>2. e \in Quotients /\ e.n \in Int /\ Zero \in Quotients /\ Zero.n = 0 /\ Zero.d = 1
    BY <2>1, FractionsAreQuotients, Typing, ZeroType
  <2>3. 0 * e.d < e.n * 1
    BY <2>2 DEF \preceq, less, Pairs
  <2>4. e.d \in Int
    BY <2>2, Typing
  <2>5. e.n > 0
    BY <2>2, <2>3, <2>4
  <2>6. Whole(c) \in Quotients /\ Whole(d) \in Quotients
    BY <1>8, WholeType
  <2>7. Whole(c) // e \in Quotients /\ Whole(d) // e \in Quotients
    <3>1. e.n # 0
      BY <2>2, <2>5
    <3>2. QED
      BY <2>2, <2>6, <3>1, OperationTypes, FractionsAreQuotients
  <2>8. QED
    BY <1>8, <1>9, <2>1, <2>5, <2>7, SharesAreOrdered, BacktestAssumption
<1>12. ~ (Whole(c) \prec Whole(d))
  <2>1. Zero.n = 0 /\ Whole(1) \in Fractions /\ Whole(1).n > 0
    BY ZeroType, WholeType, WholeIsFraction
  <2>2. QED
    BY <1>8, <1>9, <2>1, SharesAreOrdered
<1>13. decision = "NON_POSITIVE_EQUITY"
  <2> SUFFICES ASSUME decision # "NON_POSITIVE_EQUITY" PROVE FALSE
    OBVIOUS
  <2>1. CASE k \in {"position", "gross", "net"}
    BY <1>5, <1>6, <1>7, <1>12, <2>1
  <2>2. CASE k \in {"positionPct", "grossPct"} /\ Equity(p) \preceq Zero
    BY <1>5, <1>6, <2>2
  <2>3. CASE k \in {"positionPct", "grossPct"} /\ ~ (Equity(p) \preceq Zero)
    BY <1>5, <1>6, <1>7, <1>11, <2>3
  <2>4. QED
    BY <1>5, <2>1, <2>2, <2>3 DEF Exposures
<1>14. k \in {"positionPct", "grossPct"}
  BY <1>5, <1>6, <1>7, <1>10, <1>13 DEF Exposures
<1>15. Equity(p) \preceq Zero
  BY <1>5, <1>6, <1>7, <1>11, <1>13, <1>14
<1>16. limits.positionPct # None \/ limits.grossPct # None
  BY <1>5, <1>14
<1>17. QED
  BY <1>13, <1>15, <1>16 DEF decision

\* With one symbol, no limit refuses an order that leaves the position no larger, whatever the
\* limits are and however far they are exceeded already (RiskManager.validate_order:
\* after_value > limit and after_value > before_value); a percentage limit stops such an order
\* where equity is zero or negative, and nothing else of the exposure checks does.
THEOREM ReducersAreNotRefused == Spec => ReducersPassLimits
<1> DEFINE Passes ==
      LET order == Head(queue)
          current == portfolio.positions[order.symbol].quantity
          reason == rejected'[Len(rejected')].reason
      IN  Magnitude(current + Signed(order.side, order.quantity)) <= Magnitude(current) =>
            /\ reason \notin LimitReasons
            /\ reason = "NON_POSITIVE_EQUITY" =>
                 /\ Equity(portfolio) \preceq Zero
                 /\ job.limits.positionPct # None \/ job.limits.grossPct # None
<1>1. EngineInvariant /\ [Next]_vars =>
        [step = "decide" /\ Len(rejected') > Len(rejected)
           /\ (\A s \in Symbols \ {Market.symbol} : portfolio.positions[s].quantity = 0) => Passes]_vars
  <2> SUFFICES ASSUME EngineInvariant, Next, step = "decide", Len(rejected') > Len(rejected),
                      \A s \in Symbols \ {Market.symbol} : portfolio.positions[s].quantity = 0
               PROVE  Passes
    OBVIOUS
  <2> DEFINE order == Head(queue)
             decision == DecisionFor(order)
  <2>1. /\ TypeInvariant /\ rejected \in Seq(Rejections) /\ AccountOK(portfolio) /\ InBar
    BY DEF EngineInvariant, TypeInvariant, ListsOK, InBar
  <2>2. TakeOrder
    <3>1. ~StartRun /\ ~WarmUp /\ ~BeginEvaluation /\ ~NextBar /\ ~FinishRun
      BY DEF StartRun, WarmUp, BeginEvaluation, NextBar, FinishRun
    <3>2. ~ExecuteOrder /\ ~EndExecution /\ ~CallStrategy /\ ~ApplyNext /\ ~MarkBar
      BY DEF ExecuteOrder, EndExecution, CallStrategy, ApplyNext, MarkBar
    <3>3. rejected' # rejected
      BY <2>1
    <3>4. ~TakeSignal /\ ~EndBar
      BY <3>3 DEF TakeSignal, EndBar
    <3>5. QED
      BY <3>1, <3>2, <3>4 DEF Next, RunStep, Execute, Decide
  <2>3. order \in Orders
    BY <2>1, <2>2, TakeOrderMeans DEF TakeOrderFacts
  <2>4. rejected' = Append(rejected, [order |-> order, timestamp |-> Market.timestamp,
                                      reason |-> decision, late |-> FALSE])
    <3>1. \/ rejected' = Append(rejected, [order |-> order, timestamp |-> Market.timestamp,
                                           reason |-> decision, late |-> FALSE])
          \/ rejected' = rejected
      BY <2>2, Zenon DEF TakeOrder
    <3>2. rejected' # rejected
      BY <2>1
    <3>3. QED
      BY <3>1, <3>2
  <2> HIDE DEF decision, order
  <2>5. rejected'[Len(rejected')].reason = decision
    BY <2>1, <2>4
  <2>6. Market.symbol \in Symbols /\ Market.close \in Nat \ {0}
    <3>1. Market.symbol \in Symbols /\ Market.close \in Int /\ cursor \in DOMAIN job.bars /\ Valid(job.bars)
      BY <2>1, MarketIsABar DEF TypeInvariant, StepOK
    <3>2. QED
      BY <3>1 DEF Valid, Market
  <2>7. decision = Decision(order, portfolio, Market.close, job.limits)
    BY DEF decision, DecisionFor
  <2>8. ASSUME decision \in Refusals,
               Magnitude(portfolio.positions[order.symbol].quantity + Signed(order.side, order.quantity))
                 <= Magnitude(portfolio.positions[order.symbol].quantity)
        PROVE  /\ decision = "NON_POSITIVE_EQUITY"
               /\ Equity(portfolio) \preceq Zero
               /\ job.limits.positionPct # None \/ job.limits.grossPct # None
    BY <2>1, <2>3, <2>6, <2>7, <2>8, RefusedReducers
  <2>9. "NON_POSITIVE_EQUITY" \in Refusals /\ LimitReasons \subseteq Refusals
        /\ "NON_POSITIVE_EQUITY" \notin LimitReasons
    BY DEF Refusals, LimitReasons
  <2>10. QED
    BY <2>5, <2>8, <2>9 DEF order
<1>2. QED
  BY <1>1, EngineInvariantHolds, PTL DEF Spec, ReducersPassLimits
-----------------------------------------------------------------------------
(***************************************************************************)
(* The windows                                                             *)
(***************************************************************************)
\* The positions of x among the first n of bars, and a window of the last closes of x there.
OwnIn(bars, x, n) == {i \in 1 .. n : bars[i].symbol = x}

LaterOwn(bars, x, n, i) == Cardinality({k \in OwnIn(bars, x, n) : i < k})

RecentIn(window, bars, x, n, size) ==
  /\ Len(window) = IF Cardinality(OwnIn(bars, x, n)) < size THEN Cardinality(OwnIn(bars, x, n)) ELSE size
  /\ \A i \in OwnIn(bars, x, n) : LaterOwn(bars, x, n, i) < size =>
       window[Len(window) - LaterOwn(bars, x, n, i)] = bars[i].close

\* The sets that are counted are finite.
LEMMA OwnAreFew ==
  ASSUME NEW bars, NEW x, NEW n \in Nat
  PROVE  /\ IsFiniteSet(OwnIn(bars, x, n)) /\ Cardinality(OwnIn(bars, x, n)) \in Nat
         /\ \A i : IsFiniteSet({k \in OwnIn(bars, x, n) : i < k}) /\ LaterOwn(bars, x, n, i) \in Nat
         /\ \A i \in OwnIn(bars, x, n) : LaterOwn(bars, x, n, i) < Cardinality(OwnIn(bars, x, n))
<1> DEFINE own == OwnIn(bars, x, n)
           after(i) == {k \in own : i < k}
<1>1. IsFiniteSet(1 .. n) /\ own \subseteq 1 .. n
  BY FS_Interval DEF OwnIn
<1>2. IsFiniteSet(own)
  BY <1>1, FS_Subset
<1>3. Cardinality(own) \in Nat
  BY <1>2, FS_CardinalityType
<1>4. \A i : after(i) \subseteq own
  OBVIOUS
<1>5. \A i : IsFiniteSet(after(i))
  BY <1>2, <1>4, FS_Subset
<1>6. \A i : Cardinality(after(i)) \in Nat
  BY <1>5, FS_CardinalityType
<1>7. \A i \in own : i \notin after(i)
  BY <1>1
<1> HIDE DEF after
<1>8. \A i \in own : Cardinality(after(i)) < Cardinality(own)
  <2> SUFFICES ASSUME NEW i \in own PROVE Cardinality(after(i)) < Cardinality(own)
    OBVIOUS
  <2>1. after(i) # own
    BY <1>7
  <2>2. Cardinality(after(i)) <= Cardinality(own) /\ (Cardinality(own) = Cardinality(after(i)) => after(i) = own)
    BY <1>2, <1>4, FS_Subset
  <2>3. QED
    BY <1>3, <1>6, <2>1, <2>2
<1>9. QED
  BY <1>2, <1>3, <1>5, <1>6, <1>8 DEF LaterOwn, after

\* One more bar of x: it is the last, and all others have one more after them.
OneIsAdded(bars, x, n, last) ==
  /\ OwnIn(bars, x, last) = OwnIn(bars, x, n) \cup {last} /\ last \notin OwnIn(bars, x, n)
  /\ Cardinality(OwnIn(bars, x, last)) = Cardinality(OwnIn(bars, x, n)) + 1
  /\ LaterOwn(bars, x, last, last) = 0
  /\ \A i \in OwnIn(bars, x, n) : LaterOwn(bars, x, last, i) = LaterOwn(bars, x, n, i) + 1

\* So it is.
LEMMA OneMoreOwn ==
  ASSUME NEW bars, NEW x, NEW n \in Nat, NEW last, last = n + 1, bars[last].symbol = x
  PROVE  OneIsAdded(bars, x, n, last)
<1> DEFINE own == OwnIn(bars, x, n)
           after(i) == {k \in own : i < k}
<1>1. OwnIn(bars, x, last) = own \cup {last} /\ \A k \in own : k \in Int /\ k < last
  <2>1. 1 .. last = (1 .. n) \cup {last} /\ \A k \in 1 .. n : k \in Int /\ k < last
    OBVIOUS
  <2>2. QED
    BY <2>1 DEF OwnIn
<1>2. last \notin own /\ last \in Int
  BY <1>1
<1>3. IsFiniteSet(own) /\ \A i : IsFiniteSet(after(i))
  BY OwnAreFew
<1> HIDE DEF own
<1>4. Cardinality(own \cup {last}) = Cardinality(own) + 1
  BY <1>2, <1>3, FS_AddElement
<1>5. {k \in own \cup {last} : last < k} = {}
  BY <1>1, <1>2
<1>6. ASSUME NEW i \in own
      PROVE  Cardinality({k \in own \cup {last} : i < k}) = Cardinality(after(i)) + 1
  <2>1. {k \in own \cup {last} : i < k} = after(i) \cup {last} /\ last \notin after(i)
    BY <1>1, <1>2
  <2>2. Cardinality(after(i) \cup {last}) = Cardinality(after(i)) + 1
    <3> HIDE DEF after
    <3>1. QED
      BY <1>3, <2>1, FS_AddElement
  <2>3. QED
    BY <2>1, <2>2
<1>7. Cardinality({}) = 0
  BY FS_EmptySet
<1>8. LaterOwn(bars, x, last, last) = 0
  BY <1>1, <1>5, <1>7 DEF LaterOwn
<1>9. \A i \in own : LaterOwn(bars, x, last, i) = LaterOwn(bars, x, n, i) + 1
  BY <1>1, <1>6 DEF LaterOwn, own
<1>10. QED
  BY <1>1, <1>2, <1>4, <1>8, <1>9 DEF own, OneIsAdded

\* A window takes the close of each bar of its symbol, and of no other.
LEMMA RecentGrows ==
  ASSUME NEW bars, NEW x, NEW n \in Nat, NEW last, last = n + 1, NEW size \in Nat,
         NEW window \in Seq(Int), RecentIn(window, bars, x, n, size)
  PROVE  /\ bars[last].symbol = x /\ bars[last].close \in Int =>
              /\ Strat!Recent(window, bars[last].close, size) \in Seq(Int)
              /\ RecentIn(Strat!Recent(window, bars[last].close, size), bars, x, last, size)
         /\ bars[last].symbol # x => RecentIn(window, bars, x, last, size)
<1> DEFINE own == OwnIn(bars, x, n)
           m == Cardinality(own)
           close == bars[last].close
           longer == Append(window, close)
           next == Strat!Recent(window, close, size)
           l == Len(window)
<1>1. ASSUME bars[last].symbol # x PROVE OwnIn(bars, x, last) = own
  <2>1. 1 .. last = (1 .. n) \cup {last}
    OBVIOUS
  <2>2. QED
    BY <1>1, <2>1 DEF OwnIn
<1>2. ASSUME bars[last].symbol # x PROVE RecentIn(window, bars, x, last, size)
  BY <1>1, <1>2 DEF RecentIn, LaterOwn
<1>3. /\ m \in Nat /\ l \in Nat /\ l = IF m < size THEN m ELSE size
      /\ \A i \in own : /\ LaterOwn(bars, x, n, i) \in Nat /\ LaterOwn(bars, x, n, i) < m
                        /\ LaterOwn(bars, x, n, i) < size => window[l - LaterOwn(bars, x, n, i)] = bars[i].close
  BY OwnAreFew DEF RecentIn
<1>4. ASSUME bars[last].symbol = x, close \in Int
      PROVE  next \in Seq(Int) /\ RecentIn(next, bars, x, last, size)
  <2>1. /\ longer \in Seq(Int) /\ Len(longer) = l + 1 /\ longer[l + 1] = close
        /\ \A i \in 1 .. l : longer[i] = window[i]
    BY <1>4
  <2> HIDE DEF longer
  <2>2. next = IF l + 1 > size THEN Tail(longer) ELSE longer
    BY <2>1 DEF Strat!Recent, longer
  <2> HIDE DEF next
  <2>3. next \in Seq(Int) /\ Len(next) = IF m + 1 < size THEN m + 1 ELSE size
    <3>1. CASE l + 1 > size
      <4>1. Len(longer) \in Nat \ {0} /\ longer # <<>>
        BY <1>3, <2>1
      <4>2. Len(Tail(longer)) = Len(longer) - 1 /\ Tail(longer) \in Seq(Int)
        BY <2>1, <4>1
      <4>3. QED
        BY <1>3, <2>1, <2>2, <3>1, <4>2
    <3>2. CASE ~ (l + 1 > size)
      BY <1>3, <2>1, <2>2, <3>2
    <3>3. QED
      BY <3>1, <3>2
  <2>4. \A c \in 0 .. l : c < size => next[Len(next) - c] = longer[l + 1 - c]
    <3> SUFFICES ASSUME NEW c \in 0 .. l, c < size PROVE next[Len(next) - c] = longer[l + 1 - c]
      OBVIOUS
    <3>1. CASE l + 1 > size
      <4>1. longer # <<>> /\ Len(longer) \in Nat /\ DOMAIN longer = 1 .. l + 1
        BY <1>3, <2>1
      <4>2. \A k \in DOMAIN Tail(longer) : Tail(longer)[k] = longer[k + 1]
        BY <2>1, <4>1, TailFacts
      <4>3. DOMAIN Tail(longer) = 1 .. l /\ Len(Tail(longer)) = l
        <5>1. DOMAIN Tail(longer) = 1 .. Len(longer) - 1
          BY <2>1, <4>1, TailFacts
        <5>2. Len(longer) - 1 = l
          BY <1>3, <2>1
        <5>3. Len(Tail(longer)) = l
          BY <1>3, <5>1, <5>2, LenProperties
        <5>4. QED
          BY <5>1, <5>2, <5>3
      <4>4. l = size /\ l - c \in 1 .. l /\ (l - c) + 1 = l + 1 - c
        BY <1>3, <3>1
      <4>5. QED
        BY <2>2, <3>1, <4>2, <4>3, <4>4
    <3>2. CASE ~ (l + 1 > size)
      BY <1>3, <2>1, <2>2, <3>2
    <3>3. QED
      BY <3>1, <3>2
  <2>5. /\ OwnIn(bars, x, last) = own \cup {last} /\ Cardinality(OwnIn(bars, x, last)) = m + 1
        /\ LaterOwn(bars, x, last, last) = 0
        /\ \A i \in own : LaterOwn(bars, x, last, i) = LaterOwn(bars, x, n, i) + 1
    <3>1. bars[last].symbol = x
      BY <1>4
    <3> HIDE DEF own, m
    <3>2. OneIsAdded(bars, x, n, last)
      BY <3>1, OneMoreOwn
    <3>3. QED
      BY <3>2 DEF OneIsAdded, own, m
  <2> HIDE DEF own, m, l, close
  <2>6. ASSUME 0 < size PROVE next[Len(next) - 0] = close
    <3>1. 0 \in 0 .. l /\ l + 1 - 0 = l + 1
      BY <1>3
    <3>2. QED
      BY <2>1, <2>4, <2>6, <3>1
  <2>7. ASSUME NEW i \in own, LaterOwn(bars, x, n, i) + 1 < size
        PROVE  next[Len(next) - (LaterOwn(bars, x, n, i) + 1)] = bars[i].close
    <3> DEFINE c == LaterOwn(bars, x, n, i)
    <3>1. c \in Nat /\ c < m /\ (c < size => window[l - c] = bars[i].close)
      BY <1>3
    <3>2. c + 1 < size
      BY <2>7
    <3> HIDE DEF c
    <3>3. c + 1 \in 0 .. l /\ l + 1 - (c + 1) = l - c /\ l - c \in 1 .. l /\ c < size
      BY <1>3, <3>1, <3>2
    <3>4. next[Len(next) - (c + 1)] = longer[l + 1 - (c + 1)]
      BY <2>4, <3>2, <3>3
    <3>5. longer[l - c] = window[l - c]
      BY <2>1, <3>3
    <3>6. QED
      BY <3>1, <3>3, <3>4, <3>5 DEF c
  <2>8. ASSUME NEW i \in own \cup {last}, LaterOwn(bars, x, last, i) < size
        PROVE  next[Len(next) - LaterOwn(bars, x, last, i)] = bars[i].close
    <3>1. CASE i = last
      BY <2>5, <2>6, <2>8, <3>1 DEF close
    <3>2. CASE i \in own
      BY <2>5, <2>7, <2>8, <3>2
    <3>3. QED
      BY <2>8, <3>1, <3>2
  <2>9. QED
    BY <2>3, <2>5, <2>8 DEF RecentIn
<1>5. QED
  BY <1>2, <1>4 DEF next, close
-----------------------------------------------------------------------------
\* What a strategy keeps.
StrategyStates ==
  [history : [Symbols -> Seq(Int)], belief : [Symbols -> Strat!Beliefs],
   previous : [Symbols -> {-1, 0, 1, None}]]

\* A bar is added to the window of its symbol, and a signal is given, or not.
Observes(strat, state, bar, emits) ==
  LET answer == Strat!Observe(strat, state, bar, emits)
      x == bar.symbol
      signal(side) == [timestamp |-> bar.timestamp, symbol |-> x, side |-> side]
  IN  /\ answer.state \in StrategyStates
      /\ answer.state.history
           = [state.history EXCEPT ![x] = Strat!Recent(@, bar.close, Strat!WindowSize(strat))]
      /\ \/ answer.signals = <<>> /\ answer.state.belief = state.belief
         \/ \E side \in {"BUY", "SELL", "EXIT"} :
              /\ emits /\ answer.signals = <<signal(side)>>
              /\ side = "EXIT" <=> state.belief[x] # "FLAT"
              /\ answer.state.belief = [state.belief EXCEPT ![x] = Strat!BeliefAfter(side)]

\* A strategy begins with empty windows and no position.
LEMMA FreshIsAState == Strat!FreshStrategy \in StrategyStates
<1>1. /\ [s \in Symbols |-> <<>>] \in [Symbols -> Seq(Int)]
      /\ [s \in Symbols |-> "FLAT"] \in [Symbols -> Strat!Beliefs]
      /\ [s \in Symbols |-> None] \in [Symbols -> {-1, 0, 1, None}]
  BY DEF Strat!Beliefs
<1>2. QED
  BY <1>1 DEF Strat!FreshStrategy, StrategyStates

\* What a strategy does with a bar.
LEMMA ObserveMeans ==
  ASSUME NEW strat, strat.kind # "script", Strat!WindowSize(strat) \in Nat,
         NEW state \in StrategyStates, NEW bar \in Bars, NEW emits \in BOOLEAN
  PROVE  Observes(strat, state, bar, emits)
<1> DEFINE x == bar.symbol
           closes == Strat!Recent(state.history[x], bar.close, Strat!WindowSize(strat))
           crossing == strat.kind = "crossover" /\ Len(closes) = Strat!WindowSize(strat)
           cues == Strat!Cues(strat, closes, state.previous[x])
           reaction == Strat!Reaction(state.belief[x], cues)
           side == IF Strat!Decides(strat, closes, emits) THEN reaction ELSE None
           sign == IF crossing THEN Strat!DifferenceSign(strat, closes) ELSE state.previous[x]
           belief == IF side = None THEN state.belief[x] ELSE Strat!BeliefAfter(side)
           observed == [state EXCEPT !.history[x] = closes, !.previous[x] = sign, !.belief[x] = belief]
           answer == Strat!Observe(strat, state, bar, emits)
<1>1. /\ answer.state = observed
      /\ answer.signals = IF side = None THEN <<>>
                          ELSE <<[timestamp |-> bar.timestamp, symbol |-> x, side |-> side]>>
  BY Zenon DEF Strat!Observe
<1>2. x \in Symbols /\ bar.close \in Int
  BY DEF Bars
<1>3. /\ state.history \in [Symbols -> Seq(Int)] /\ state.belief \in [Symbols -> Strat!Beliefs]
      /\ state.previous \in [Symbols -> {-1, 0, 1, None}]
      /\ state = [history |-> state.history, belief |-> state.belief, previous |-> state.previous]
  BY DEF StrategyStates
<1>4. closes \in Seq(Int)
  <2> DEFINE window == state.history[x]
             longer == Append(window, bar.close)
             size == Strat!WindowSize(strat)
  <2>1. closes = IF Len(longer) > size THEN Tail(longer) ELSE longer
    BY DEF Strat!Recent
  <2>2. longer \in Seq(Int) /\ longer # <<>>
    <3>1. window \in Seq(Int)
      BY <1>2, <1>3
    <3> HIDE DEF window
    <3>2. QED
      BY <1>2, <3>1
  <2> HIDE DEF longer, closes
  <2>3. Tail(longer) \in Seq(Int)
    BY <2>2
  <2>4. QED
    BY <2>1, <2>2, <2>3
<1>5. sign \in {-1, 0, 1, None}
  <2>1. Strat!DifferenceSign(strat, closes) \in {-1, 0, 1}
    BY Zenon DEF Strat!DifferenceSign
  <2>2. state.previous[x] \in {-1, 0, 1, None}
    BY <1>2, <1>3
  <2> HIDE DEF closes
  <2>3. QED
    BY <2>1, <2>2
<1>6. /\ side \in {"BUY", "SELL", "EXIT", None}
      /\ side # None => emits /\ (side = "EXIT" <=> state.belief[x] # "FLAT")
  <2>1. None \notin {"BUY", "SELL", "EXIT"}
    BY BacktestAssumption
  <2>2. state.belief[x] \in {"FLAT", "LONG", "SHORT"}
    BY <1>2, <1>3 DEF Strat!Beliefs
  <2>3. \A b, c : \/ b = "FLAT" /\ Strat!Reaction(b, c) \in {"BUY", "SELL"}
                  \/ b \in {"LONG", "SHORT"} /\ Strat!Reaction(b, c) = "EXIT"
                  \/ Strat!Reaction(b, c) = None
    BY Zenon DEF Strat!Reaction
  <2> HIDE DEF cues
  <2>4. \/ state.belief[x] = "FLAT" /\ reaction \in {"BUY", "SELL"}
        \/ state.belief[x] \in {"LONG", "SHORT"} /\ reaction = "EXIT"
        \/ reaction = None
    BY <2>3
  <2> HIDE DEF reaction, closes
  <2>5. Strat!Decides(strat, closes, emits) => emits
    BY DEF Strat!Decides
  <2>6. QED
    BY <2>1, <2>4, <2>5
<1> HIDE DEF sign, side, closes
<1>7. belief \in Strat!Beliefs
  <2>1. state.belief[x] \in Strat!Beliefs
    BY <1>2, <1>3
  <2>2. Strat!BeliefAfter(side) \in Strat!Beliefs
    BY Zenon DEF Strat!BeliefAfter, Strat!Beliefs
  <2>3. QED
    BY <2>1, <2>2
<1>8. /\ observed.history = [state.history EXCEPT ![x] = closes]
      /\ observed.belief = [state.belief EXCEPT ![x] = belief]
      /\ observed \in StrategyStates
  <2> HIDE DEF belief
  <2> DEFINE history == [state.history EXCEPT ![x] = closes]
             beliefs == [state.belief EXCEPT ![x] = belief]
             previous == [state.previous EXCEPT ![x] = sign]
  <2>1. observed = [history |-> history, belief |-> beliefs, previous |-> previous]
    <3>1. observed = [state EXCEPT !.history = history, !.previous = previous, !.belief = beliefs]
      OBVIOUS
    <3> HIDE DEF history, beliefs, previous, observed
    <3>2. DOMAIN state = {"history", "belief", "previous"}
      BY <1>3
    <3>3. QED
      BY <1>3, <3>1, <3>2
  <2>2. /\ history \in [Symbols -> Seq(Int)] /\ beliefs \in [Symbols -> Strat!Beliefs]
        /\ previous \in [Symbols -> {-1, 0, 1, None}]
    BY <1>2, <1>3, <1>4, <1>5, <1>7
  <2> HIDE DEF history, beliefs, previous, observed
  <2>3. observed.history = history /\ observed.belief = beliefs /\ observed \in StrategyStates
    BY <2>1, <2>2 DEF StrategyStates
  <2>4. QED
    BY <2>3 DEF history, beliefs
<1> HIDE DEF observed
<1>9. answer.state.history = [state.history EXCEPT ![x] = Strat!Recent(@, bar.close, Strat!WindowSize(strat))]
  BY <1>1, <1>8 DEF closes
<1>10. CASE side = None
  <2>1. [state.belief EXCEPT ![x] = state.belief[x]] = state.belief
    BY <1>3
  <2>2. answer.signals = <<>> /\ answer.state.belief = state.belief
    BY <1>1, <1>8, <1>10, <2>1
  <2> HIDE DEF answer
  <2>3. QED
    BY <1>1, <1>8, <1>9, <2>2 DEF Observes, answer
<1>11. CASE side # None
  <2>1. /\ side \in {"BUY", "SELL", "EXIT"} /\ emits /\ (side = "EXIT" <=> state.belief[x] # "FLAT")
        /\ answer.state.belief = [state.belief EXCEPT ![x] = Strat!BeliefAfter(side)]
        /\ answer.signals = <<[timestamp |-> bar.timestamp, symbol |-> x, side |-> side]>>
    BY <1>1, <1>6, <1>8, <1>11
  <2>2. QED
    BY <1>1, <1>8, <1>9, <2>1, Zenon DEF Observes
<1>12. QED
  BY <1>10, <1>11
-----------------------------------------------------------------------------
\* The bars in the order in which a strategy sees them.
AllBars == job.warmup \o job.bars

\* The windows are those of the bars seen so far.
WindowInvariant ==
  /\ strategy \in StrategyStates
  /\ step = "warmup" => cursor <= Len(job.warmup) + 1
  /\ job.strategy.kind # "script" /\ step # "idle" =>
       \A x \in Symbols :
         RecentIn(strategy.history[x], AllBars, x, SeenBars, Strat!WindowSize(job.strategy))

\* How many bars have been seen, by the step, in this state and in the next.
LEMMA SeenBarsIs ==
  /\ step = "warmup" => SeenBars = cursor - 1
  /\ step = "decide" => SeenBars = Len(job.warmup) + cursor
  /\ step \in {"bar", "execute", "apply", "strategy"} => SeenBars = Len(job.warmup) + cursor - 1
  /\ step' = "warmup" => SeenBars' = cursor' - 1
  /\ step' = "decide" => SeenBars' = Len(job'.warmup) + cursor'
  /\ step' \in {"bar", "execute", "apply", "strategy"} => SeenBars' = Len(job'.warmup) + cursor' - 1
<1>1. step = "warmup" => SeenBars = cursor - 1
  BY Zenon DEF SeenBars
<1>2. ASSUME step = "decide" PROVE SeenBars = Len(job.warmup) + cursor
  BY <1>2, Zenon DEF SeenBars
<1>3. ASSUME step \in {"bar", "execute", "apply", "strategy"} PROVE SeenBars = Len(job.warmup) + cursor - 1
  <2>1. step # "warmup" /\ step # "decide"
    BY <1>3
  <2>2. QED
    BY <2>1, Zenon DEF SeenBars
<1>4. step' = "warmup" => SeenBars' = cursor' - 1
  BY Zenon DEF SeenBars
<1>5. ASSUME step' = "decide" PROVE SeenBars' = Len(job'.warmup) + cursor'
  BY <1>5, Zenon DEF SeenBars
<1>6. ASSUME step' \in {"bar", "execute", "apply", "strategy"} PROVE SeenBars' = Len(job'.warmup) + cursor' - 1
  <2>1. step' # "warmup" /\ step' # "decide"
    BY <1>6
  <2>2. QED
    BY <2>1, Zenon DEF SeenBars
<1>7. QED
  BY <1>1, <1>2, <1>3, <1>4, <1>5, <1>6

\* The bars of the warm-up come first.
LEMMA AllBarsAre ==
  ASSUME job \in Jobs
  PROVE  /\ Len(job.warmup) \in Nat /\ Len(job.bars) \in Nat
         /\ \A k \in 1 .. Len(job.warmup) : AllBars[k] = job.warmup[k] /\ job.warmup[k] \in Bars
         /\ \A k \in DOMAIN job.bars :
              AllBars[Len(job.warmup) + k] = job.bars[k] /\ job.bars[k] \in Bars /\ k \in Nat \ {0}
<1>1. job.warmup \in Seq(Bars) /\ job.bars \in Seq(Bars) /\ DOMAIN job.bars = 1 .. Len(job.bars)
  BY JobFacts
<1> DEFINE u == job.warmup
           v == job.bars
           n == Len(u)
<1>2. /\ n \in Nat /\ Len(v) \in Nat
      /\ \A k \in 1 .. n : u[k] \in Bars
      /\ \A k \in 1 .. Len(v) : v[k] \in Bars
      /\ \A k \in 1 .. n : AllBars[k] = u[k]
      /\ \A k \in 1 .. Len(v) : AllBars[k + n] = v[k]
  <2>1. u \in Seq(Bars) /\ v \in Seq(Bars)
    BY <1>1
  <2> HIDE DEF u, v
  <2>2. n \in Nat /\ Len(v) \in Nat
    BY <2>1, LenProperties
  <2>3. (\A k \in 1 .. n : u[k] \in Bars) /\ \A k \in 1 .. Len(v) : v[k] \in Bars
    BY <2>1, ElementOfSeq
  <2>4. AllBars = u \o v
    BY DEF AllBars, u, v
  <2>5. \A k \in 1 .. n : (u \o v)[k] = u[k]
    BY <2>1, <2>2
  <2>6. ASSUME NEW k \in 1 .. Len(v) PROVE (u \o v)[k + n] = v[k]
    <3>1. k + n > n /\ k + n \in 1 .. n + Len(v) /\ (k + n) - n = k
      BY <2>2
    <3>2. QED
      BY <2>1, <2>2, <3>1
  <2>7. QED
    BY <2>2, <2>3, <2>4, <2>5, <2>6
<1> HIDE DEF u, v
<1>3. \A k \in 1 .. Len(v) : k + n = n + k /\ k \in Nat \ {0}
  BY <1>2
<1>4. \A k \in 1 .. Len(v) : AllBars[n + k] = v[k]
  BY <1>2, <1>3
<1>5. QED
  BY <1>1, <1>2, <1>3, <1>4 DEF u, v

\* The strategy sees the next bar.
SeesNext(emits) ==
  LET next == SeenBars + 1
      answer == Strat!Observe(job.strategy, strategy, AllBars[next], emits)
  IN  /\ job' = job /\ step # "idle" /\ SeenBars \in Nat /\ AllBars[next] \in Bars
      /\ strategy' = answer.state
      /\ step' # "idle" => SeenBars' = next

\* Warming up and calling the strategy are the steps that show it a bar.
LEMMA WarmUpSees ==
  ASSUME TypeInvariant, WindowInvariant, WarmUp, step' # "idle"
  PROVE  SeesNext(FALSE) /\ step' = "warmup" /\ cursor' = cursor + 1 /\ cursor <= Len(job.warmup)
<1>1. /\ job' = job /\ step = "warmup" /\ cursor <= Len(job.warmup)
      /\ strategy' = Strat!Observe(job.strategy, strategy, job.warmup[cursor], FALSE).state
      /\ cursor' = cursor + 1 /\ step' = step
  <2>1. \A error : Raise(error) => step' = "idle"
    BY DEF Raise
  <2>2. QED
    BY <2>1, Zenon DEF WarmUp
<1>2. cursor \in Nat \ {0} /\ job \in Jobs
  BY DEF TypeInvariant, StepOK
<1>3. cursor \in 1 .. Len(job.warmup)
  BY <1>1, <1>2, AllBarsAre
<1>4. AllBars[cursor] = job.warmup[cursor] /\ AllBars[cursor] \in Bars
  BY <1>2, <1>3, AllBarsAre
<1>5. SeenBars = cursor - 1 /\ SeenBars' = cursor' - 1
  BY <1>1, SeenBarsIs
<1>6. SeenBars + 1 = cursor /\ SeenBars \in Nat /\ SeenBars' = SeenBars + 1
  BY <1>1, <1>2, <1>5
<1>7. QED
  BY <1>1, <1>4, <1>6 DEF SeesNext

\* The call of on_market.
LEMMA CallSees ==
  ASSUME TypeInvariant, CallStrategy
  PROVE  SeesNext(TRUE) /\ AllBars[SeenBars + 1] = Market
<1>1. /\ job' = job /\ cursor' = cursor /\ step = "strategy" /\ step' \in {"decide", "idle"}
      /\ strategy' = Answer.state
  <2>1. \A error : Raise(error) => step' = "idle"
    BY DEF Raise
  <2>2. QED
    BY <2>1, Zenon DEF CallStrategy, Answer
<1>2. cursor \in DOMAIN job.bars /\ job \in Jobs
  BY <1>1 DEF TypeInvariant, StepOK, InBar
<1>3. /\ AllBars[Len(job.warmup) + cursor] = Market /\ Market \in Bars
      /\ Len(job.warmup) \in Nat /\ cursor \in Nat \ {0}
  BY <1>2, AllBarsAre DEF Market
<1>4. SeenBars = Len(job.warmup) + cursor - 1
  BY <1>1, SeenBarsIs
<1>5. SeenBars + 1 = Len(job.warmup) + cursor /\ SeenBars \in Nat
  BY <1>3, <1>4
<1>6. step' # "idle" => SeenBars' = Len(job.warmup) + cursor
  BY <1>1, SeenBarsIs
<1>7. QED
  BY <1>1, <1>3, <1>5, <1>6 DEF SeesNext, Answer

\* Showing the next bar keeps the windows.
LEMMA WindowsTakeBars ==
  ASSUME TypeInvariant, WindowInvariant, NEW emits \in BOOLEAN, SeesNext(emits)
  PROVE  /\ strategy' \in StrategyStates
         /\ job.strategy.kind # "script" /\ step' # "idle" =>
              \A x \in Symbols :
                RecentIn(strategy'.history[x], AllBars, x, SeenBars', Strat!WindowSize(job.strategy))
         /\ job.strategy.kind # "script" => Observes(job.strategy, strategy, AllBars[SeenBars + 1], emits)
<1> DEFINE n == SeenBars
           next == n + 1
           bar == AllBars[next]
           size == Strat!WindowSize(job.strategy)
           answer == Strat!Observe(job.strategy, strategy, bar, emits)
<1>1. /\ n \in Nat /\ bar \in Bars /\ strategy' = answer.state /\ strategy \in StrategyStates
      /\ step # "idle" /\ (step' # "idle" => SeenBars' = next)
  BY DEF SeesNext, WindowInvariant
<1>2. size \in Nat
  BY BacktestAssumption DEF TypeInvariant
<1>3. CASE job.strategy.kind = "script"
  <2>1. answer.state = strategy
    BY <1>3 DEF Strat!Observe
  <2>2. QED
    BY <1>1, <1>3, <2>1
<1>4. CASE job.strategy.kind # "script"
  <2> HIDE DEF bar, size, answer, n
  <2>1. Observes(job.strategy, strategy, bar, emits)
    BY <1>1, <1>2, <1>4, ObserveMeans DEF size
  <2>2. /\ strategy' \in StrategyStates
        /\ strategy'.history = [strategy.history EXCEPT ![bar.symbol] = Strat!Recent(@, bar.close, size)]
    BY <1>1, <2>1 DEF Observes, answer, size
  <2>3. ASSUME NEW x \in Symbols, step' # "idle"
        PROVE  RecentIn(strategy'.history[x], AllBars, x, next, size)
    <3>1. RecentIn(strategy.history[x], AllBars, x, n, size)
      BY <1>1, <1>4 DEF WindowInvariant, n, size
    <3>2. strategy.history \in [Symbols -> Seq(Int)] /\ strategy.history[x] \in Seq(Int)
      BY <1>1 DEF StrategyStates
    <3>3. bar.symbol \in Symbols /\ bar.close \in Int
      BY <1>1 DEF Bars
    <3> DEFINE last == n + 1
    <3>4. last = n + 1 /\ bar = AllBars[last]
      BY DEF bar
    <3> HIDE DEF last
    <3>5. CASE bar.symbol = x
      <4>1. strategy'.history[x] = Strat!Recent(strategy.history[x], AllBars[last].close, size)
        BY <2>2, <3>2, <3>4, <3>5
      <4>2. AllBars[last].symbol = x /\ AllBars[last].close \in Int
        BY <3>3, <3>4, <3>5
      <4>3. RecentIn(Strat!Recent(strategy.history[x], AllBars[last].close, size), AllBars, x, last, size)
        BY <1>1, <1>2, <3>1, <3>2, <3>4, <4>2, RecentGrows
      <4>4. QED
        BY <3>4, <4>1, <4>3
    <3>6. CASE bar.symbol # x
      <4>1. strategy'.history[x] = strategy.history[x]
        BY <2>2, <3>2, <3>6
      <4>2. AllBars[last].symbol # x
        BY <3>4, <3>6
      <4>3. RecentIn(strategy.history[x], AllBars, x, last, size)
        BY <1>1, <1>2, <3>1, <3>2, <3>4, <4>2, RecentGrows
      <4>4. QED
        BY <3>4, <4>1, <4>3
    <3>7. QED
      BY <3>5, <3>6
  <2>4. QED
    BY <1>1, <1>4, <2>1, <2>2, <2>3 DEF size, bar, n
<1>5. QED
  BY <1>3, <1>4

\* Before the first bar there is nothing in a window.
LEMMA NothingSeen ==
  ASSUME NEW bars, NEW x \in Symbols, NEW size \in Nat
  PROVE  RecentIn(Strat!FreshStrategy.history[x], bars, x, 0, size)
<1>1. OwnIn(bars, x, 0) = {} /\ Cardinality({}) = 0
  BY FS_EmptySet DEF OwnIn
<1>2. Strat!FreshStrategy.history[x] = <<>>
  BY DEF Strat!FreshStrategy
<1>3. Len(<<>>) = 0 /\ (IF 0 < size THEN 0 ELSE size) = 0
  OBVIOUS
<1>4. QED
  BY <1>1, <1>2, <1>3 DEF RecentIn

\* Every step keeps the windows.
LEMMA WindowsAreKept == TypeInvariant /\ WindowInvariant /\ [Next]_vars => WindowInvariant'
<1> SUFFICES ASSUME TypeInvariant, WindowInvariant, [Next]_vars PROVE WindowInvariant'
  OBVIOUS
<1>1. ASSUME job' = job, strategy' = strategy, step' # "warmup",
             step' # "idle" => step # "idle" /\ SeenBars' = SeenBars
      PROVE  WindowInvariant'
  BY <1>1 DEF WindowInvariant, AllBars
<1>2. job \in Jobs /\ cursor \in Nat \ {0} /\ Len(job.warmup) \in Nat
  BY AllBarsAre DEF TypeInvariant, StepOK
<1>3. CASE UNCHANGED vars
  <2>1. SeenBars' = SeenBars
    BY <1>3 DEF SeenBars, vars, runVars
  <2>2. QED
    BY <1>3, <2>1 DEF WindowInvariant, AllBars, vars, runVars
<1>4. CASE StartRun
  <2>1. job' = job /\ step' = "warmup" /\ cursor' = 1 /\ strategy' = Strat!FreshStrategy
    BY <1>4 DEF StartRun, ResetParts
  <2>2. SeenBars' = 0
    BY <2>1, SeenBarsIs
  <2>3. Strat!WindowSize(job.strategy) \in Nat
    BY <1>2, BacktestAssumption
  <2>4. \A x \in Symbols :
          RecentIn(Strat!FreshStrategy.history[x], AllBars, x, 0, Strat!WindowSize(job.strategy))
    BY <2>3, NothingSeen
  <2>5. 1 <= Len(job.warmup) + 1
    BY <1>2
  <2>6. QED
    BY <2>1, <2>2, <2>4, <2>5, FreshIsAState DEF WindowInvariant, AllBars
<1>5. CASE WarmUp
  <2>1. CASE step' = "idle"
    <3>1. job' = job /\ (strategy' = strategy \/ step' = step) /\ step = "warmup"
      BY <1>5, Zenon DEF WarmUp
    <3>2. QED
      BY <1>1, <2>1, <3>1
  <2>2. CASE step' # "idle"
    <3>1. SeesNext(FALSE) /\ step' = "warmup" /\ cursor' = cursor + 1 /\ cursor <= Len(job.warmup)
      BY <1>5, <2>2, WarmUpSees
    <3>2. cursor' <= Len(job.warmup) + 1
      BY <1>2, <3>1
    <3>3. job' = job /\ AllBars' = AllBars
      BY <3>1 DEF SeesNext, AllBars
    <3>4. /\ strategy' \in StrategyStates
          /\ job.strategy.kind # "script" =>
               \A x \in Symbols :
                 RecentIn(strategy'.history[x], AllBars, x, SeenBars', Strat!WindowSize(job.strategy))
      BY <2>2, <3>1, WindowsTakeBars
    <3>5. QED
      BY <3>2, <3>3, <3>4 DEF WindowInvariant
  <2>3. QED
    BY <2>1, <2>2
<1>6. CASE BeginEvaluation
  <2>1. /\ job' = job /\ strategy' = strategy /\ step = "warmup" /\ cursor > Len(job.warmup)
        /\ step' = "idle" \/ (step' = "bar" /\ cursor' = 1)
    BY <1>6, Zenon DEF BeginEvaluation, Raise
  <2>2. cursor = Len(job.warmup) + 1
    BY <1>2, <2>1 DEF WindowInvariant
  <2>3. step' # "idle" => SeenBars' = SeenBars
    BY <1>2, <2>1, <2>2, SeenBarsIs
  <2>4. QED
    BY <1>1, <2>1, <2>3
<1>7. CASE CallStrategy
  <2>1. SeesNext(TRUE) /\ step' # "warmup"
    <3>1. step' \in {"decide", "idle"}
      BY <1>7, Zenon DEF CallStrategy, Raise
    <3>2. QED
      BY <1>7, <3>1, CallSees
  <2>2. job' = job /\ AllBars' = AllBars
    BY <2>1 DEF SeesNext, AllBars
  <2>3. /\ strategy' \in StrategyStates
        /\ job.strategy.kind # "script" /\ step' # "idle" =>
             \A x \in Symbols :
               RecentIn(strategy'.history[x], AllBars, x, SeenBars', Strat!WindowSize(job.strategy))
    BY <2>1, WindowsTakeBars
  <2>4. QED
    BY <2>1, <2>2, <2>3 DEF WindowInvariant
<1>8. CASE NextBar \/ ExecuteOrder \/ EndExecution \/ ApplyNext \/ MarkBar \/ TakeSignal \/ TakeOrder
           \/ EndBar \/ FinishRun
  <2>1. /\ job' = job /\ strategy' = strategy
        /\ \/ step' = "idle"
           \/ step = "decide" /\ step' = "decide" /\ cursor' = cursor
           \/ step = "decide" /\ step' = "bar" /\ cursor' = cursor + 1
           \/ /\ step \in {"bar", "execute", "apply", "strategy"}
              /\ step' \in {"bar", "execute", "apply", "strategy"} /\ cursor' = cursor
    <3>1. CASE NextBar \/ MarkBar \/ EndBar
      BY <3>1 DEF NextBar, MarkBar, EndBar
    <3>2. CASE ExecuteOrder
      BY <3>2, Zenon DEF ExecuteOrder, Raise
    <3>3. CASE EndExecution
      BY <3>3 DEF EndExecution
    <3>4. CASE ApplyNext
      BY <3>4, Zenon DEF ApplyNext, Raise
    <3>5. CASE TakeSignal
      BY <3>5 DEF TakeSignal
    <3>6. CASE TakeOrder
      BY <3>6, Zenon DEF TakeOrder, Raise
    <3>7. CASE FinishRun
      BY <3>7, Zenon DEF FinishRun, Raise
    <3>8. QED
      BY <1>8, <3>1, <3>2, <3>3, <3>4, <3>5, <3>6, <3>7
  <2>2. step' # "idle" => SeenBars' = SeenBars
    BY <1>2, <2>1, SeenBarsIs
  <2>3. step' # "warmup" /\ (step' # "idle" => step # "idle")
    BY <2>1
  <2>4. QED
    BY <1>1, <2>1, <2>2, <2>3
<1>9. QED
  BY <1>3, <1>4, <1>5, <1>6, <1>7, <1>8 DEF Next, RunStep, Execute, Decide

\* The windows are what WindowIsRecent says.
LEMMA WindowsMean == WindowInvariant => WindowIsRecent
BY DEF WindowInvariant, WindowIsRecent, RecentIn, OwnIn, LaterOwn, SeenOf, AllBars
-----------------------------------------------------------------------------
(***************************************************************************)
(* Entries and exits                                                       *)
(***************************************************************************)
\* Exits follow entries.
Alternate(told) == \A j \in DOMAIN told : told[j].side = "EXIT" <=> Entered(told, told[j].symbol, j - 1)

\* The strategy believes to be in what it last asked to enter.
Remembers(belief, told) == \A s \in Symbols : belief[s] # "FLAT" <=> Entered(told, s, Len(told))

\* The signals of the strategy, with the one that waits in the queue.
Told ==
  IF step = "decide" /\ queue # <<>> /\ ~IsOrder(Head(queue)) THEN Append(signals, Head(queue)) ELSE signals

\* A strategy of the package tells at most one thing at a time, entries and exits in turn.
AlternationInvariant ==
  job.strategy.kind # "script" =>
    /\ Alternate(signals)
    /\ step # "idle" => Alternate(Told) /\ Remembers(strategy.belief, Told)
    /\ step = "decide" => queue = <<>> \/ Tail(queue) = <<>>

\* What the first signals ask for does not change with the next.
LEMMA EnteredBefore ==
  ASSUME NEW told \in Seq(Signals), NEW e \in Signals, NEW s, NEW n \in 0 .. Len(told)
  PROVE  Entered(Append(told, e), s, n) <=> Entered(told, s, n)
<1> DEFINE longer == Append(told, e)
<1>1. \A i \in 1 .. n : longer[i] = told[i]
  OBVIOUS
<1>2. \A i \in 1 .. n : \A k \in i + 1 .. n : k \in 1 .. n
  OBVIOUS
<1> HIDE DEF longer
<1>3. QED
  BY <1>1, <1>2 DEF Entered, longer

\* With the next, its symbol is entered or left.
LEMMA EnteredAfter ==
  ASSUME NEW told \in Seq(Signals), NEW e \in Signals, NEW s
  PROVE  Entered(Append(told, e), s, Len(told) + 1)
           <=> IF e.symbol = s THEN e.side # "EXIT" ELSE Entered(told, s, Len(told))
<1> DEFINE longer == Append(told, e)
           n == Len(told)
<1>1. n \in Nat /\ longer[n + 1] = e /\ \A i \in 1 .. n : longer[i] = told[i]
  OBVIOUS
<1> HIDE DEF longer, n
<1>2. CASE e.symbol = s
  <2>1. ASSUME NEW i \in 1 .. n + 1, \A k \in i + 1 .. n + 1 : longer[k].symbol # s PROVE i = n + 1
    <3>1. i = n + 1 \/ n + 1 \in i + 1 .. n + 1
      BY <1>1
    <3>2. QED
      BY <1>1, <1>2, <2>1, <3>1
  <2>2. n + 1 \in 1 .. n + 1 /\ \A k \in (n + 1) + 1 .. n + 1 : FALSE
    BY <1>1
  <2>3. e.side # "EXIT" => Entered(longer, s, n + 1)
    BY <1>1, <1>2, <2>2 DEF Entered
  <2>4. Entered(longer, s, n + 1) => e.side # "EXIT"
    BY <1>1, <2>1 DEF Entered
  <2>5. QED
    BY <1>2, <2>3, <2>4 DEF longer, n
<1>3. CASE e.symbol # s
  <2>1. ASSUME Entered(told, s, n) PROVE Entered(longer, s, n + 1)
    <3>1. PICK i \in 1 .. n : told[i].symbol = s /\ told[i].side # "EXIT" /\ \A k \in i + 1 .. n : told[k].symbol # s
      BY <2>1 DEF Entered
    <3>2. i \in 1 .. n + 1 /\ longer[i] = told[i]
      BY <1>1
    <3>3. ASSUME NEW k \in i + 1 .. n + 1 PROVE longer[k].symbol # s
      <4>1. k = n + 1 \/ (k \in i + 1 .. n /\ k \in 1 .. n)
        BY <1>1
      <4>2. QED
        BY <1>1, <1>3, <3>1, <4>1
    <3>4. QED
      BY <3>1, <3>2, <3>3 DEF Entered
  <2>2. ASSUME Entered(longer, s, n + 1) PROVE Entered(told, s, n)
    <3>1. PICK i \in 1 .. n + 1 : longer[i].symbol = s /\ longer[i].side # "EXIT" /\ \A k \in i + 1 .. n + 1 : longer[k].symbol # s
      BY <2>2 DEF Entered
    <3>2. i \in 1 .. n
      <4>1. i # n + 1
        BY <1>1, <1>3, <3>1
      <4>2. QED
        BY <1>1, <4>1
    <3>3. ASSUME NEW k \in i + 1 .. n PROVE told[k].symbol # s
      <4>1. k \in i + 1 .. n + 1 /\ k \in 1 .. n
        BY <1>1, <3>2
      <4>2. QED
        BY <1>1, <3>1, <4>1
    <3>4. QED
      BY <1>1, <3>1, <3>2, <3>3 DEF Entered
  <2>3. QED
    BY <1>3, <2>1, <2>2 DEF longer, n
<1>4. QED
  BY <1>2, <1>3

\* One more signal, an exit if and only if its symbol is held, keeps the alternation.
LEMMA AlternationGrows ==
  ASSUME NEW told \in Seq(Signals), NEW e \in Signals, NEW belief, NEW after,
         Alternate(told), Remembers(belief, told),
         e.side = "EXIT" <=> belief[e.symbol] # "FLAT",
         \A s \in Symbols : after[s] = IF s = e.symbol THEN Strat!BeliefAfter(e.side) ELSE belief[s]
  PROVE  Alternate(Append(told, e)) /\ Remembers(after, Append(told, e))
<1> DEFINE longer == Append(told, e)
           n == Len(told)
<1>1. /\ n \in Nat /\ DOMAIN told = 1 .. n /\ DOMAIN longer = 1 .. n + 1 /\ Len(longer) = n + 1
      /\ longer[n + 1] = e /\ \A i \in 1 .. n : longer[i] = told[i]
  OBVIOUS
<1>2. e.symbol \in Symbols /\ e.side \in {"BUY", "SELL", "EXIT"}
  BY DEF Signals
<1>3. \A s, m : m \in 0 .. n => (Entered(longer, s, m) <=> Entered(told, s, m))
  BY EnteredBefore
<1>4. \A s : Entered(longer, s, n + 1) <=> IF e.symbol = s THEN e.side # "EXIT" ELSE Entered(told, s, n)
  BY EnteredAfter
<1> HIDE DEF longer, n
<1>5. ASSUME NEW j \in 1 .. n + 1
      PROVE  longer[j].side = "EXIT" <=> Entered(longer, longer[j].symbol, j - 1)
  <2>1. CASE j \in 1 .. n
    <3>1. j - 1 \in 0 .. n /\ longer[j] = told[j]
      BY <1>1, <2>1
    <3>2. told[j].side = "EXIT" <=> Entered(told, told[j].symbol, j - 1)
      BY <1>1, <2>1 DEF Alternate
    <3>3. QED
      BY <1>3, <3>1, <3>2
  <2>2. CASE j = n + 1
    <3>1. j - 1 = n /\ n \in 0 .. n
      BY <1>1, <2>2
    <3>2. e.side = "EXIT" <=> Entered(told, e.symbol, n)
      BY <1>2 DEF Remembers, n
    <3>3. QED
      BY <1>1, <1>3, <2>2, <3>1, <3>2
  <2>3. QED
    BY <1>1, <2>1, <2>2
<1>6. ASSUME NEW s \in Symbols PROVE after[s] # "FLAT" <=> Entered(longer, s, n + 1)
  <2>1. CASE s = e.symbol
    <3>1. Strat!BeliefAfter(e.side) # "FLAT" <=> e.side # "EXIT"
      BY <1>2 DEF Strat!BeliefAfter
    <3>2. QED
      BY <1>4, <2>1, <3>1
  <2>2. CASE s # e.symbol
    <3>1. belief[s] # "FLAT" <=> Entered(told, s, n)
      BY DEF Remembers, n
    <3>2. QED
      BY <1>4, <2>2, <3>1
  <2>3. QED
    BY <2>1, <2>2
<1>7. QED
  BY <1>1, <1>5, <1>6 DEF Alternate, Remembers, longer
-----------------------------------------------------------------------------
\* What a strategy of the package answers to the bar being processed.
Replies ==
  \/ Answer.signals = <<>> /\ strategy'.belief = strategy.belief
  \/ \E e \in Signals :
       /\ Answer.signals = <<e>> /\ e.symbol = Market.symbol /\ e.timestamp = Market.timestamp
       /\ e.side = "EXIT" <=> strategy.belief[e.symbol] # "FLAT"
       /\ strategy'.belief = [strategy.belief EXCEPT ![e.symbol] = Strat!BeliefAfter(e.side)]

\* At most one signal, of the bar's symbol and time.
LEMMA StrategyReplies ==
  ASSUME TypeInvariant, WindowInvariant, CallStrategy, job.strategy.kind # "script"
  PROVE  Replies
<1>1. SeesNext(TRUE) /\ AllBars[SeenBars + 1] = Market
  BY CallSees
<1>2. Observes(job.strategy, strategy, Market, TRUE)
  BY <1>1, WindowsTakeBars
<1>3. strategy' = Answer.state /\ Market \in Bars
  BY <1>1 DEF SeesNext, Answer
<1>4. CASE Answer.signals = <<>> /\ Answer.state.belief = strategy.belief
  BY <1>3, <1>4 DEF Replies
<1>5. ASSUME NEW side \in {"BUY", "SELL", "EXIT"},
             Answer.signals = <<[timestamp |-> Market.timestamp, symbol |-> Market.symbol, side |-> side]>>,
             side = "EXIT" <=> strategy.belief[Market.symbol] # "FLAT",
             Answer.state.belief = [strategy.belief EXCEPT ![Market.symbol] = Strat!BeliefAfter(side)]
      PROVE  Replies
  <2> DEFINE e == [timestamp |-> Market.timestamp, symbol |-> Market.symbol, side |-> side]
  <2>1. e \in Signals /\ e.symbol = Market.symbol /\ e.timestamp = Market.timestamp /\ e.side = side
    BY <1>3 DEF Signals, Bars
  <2>2. Answer.signals = <<e>>
    BY <1>5
  <2> HIDE DEF e
  <2>3. QED
    BY <1>3, <1>5, <2>1, <2>2 DEF Replies
<1>6. QED
  BY <1>2, <1>4, <1>5, Zenon DEF Observes, Answer

\* Warming up changes no belief.
LEMMA WarmUpIsSilent ==
  ASSUME TypeInvariant, WindowInvariant, WarmUp, step' # "idle", job.strategy.kind # "script"
  PROVE  strategy'.belief = strategy.belief /\ step' = "warmup"
<1>1. SeesNext(FALSE) /\ step' = "warmup"
  BY WarmUpSees
<1>2. Observes(job.strategy, strategy, AllBars[SeenBars + 1], FALSE)
  BY <1>1, WindowsTakeBars
<1>3. strategy' = Strat!Observe(job.strategy, strategy, AllBars[SeenBars + 1], FALSE).state
  BY <1>1 DEF SeesNext
<1>4. QED
  BY <1>1, <1>2, <1>3, Zenon DEF Observes

\* Outside the decisions only the recorded signals have been told.
LEMMA ToldIs ==
  /\ step # "decide" => Told = signals
  /\ queue = <<>> => Told = signals
  /\ \A e \in Orders : queue # <<>> /\ Head(queue) = e => Told = signals
  /\ \A e \in Signals : step = "decide" /\ queue # <<>> /\ Head(queue) = e => Told = Append(signals, e)
BY EventKinds DEF Told

\* The same of the next state.
LEMMA ToldWillBe ==
  /\ step' # "decide" => Told' = signals'
  /\ queue' = <<>> => Told' = signals'
  /\ \A e \in Orders : queue' # <<>> /\ Head(queue') = e => Told' = signals'
  /\ \A e \in Signals : step' = "decide" /\ queue' # <<>> /\ Head(queue') = e => Told' = Append(signals', e)
BY EventKinds DEF Told

\* Steps that change neither what is told nor what is believed.
LEMMA AlternationStays ==
  ASSUME AlternationInvariant, job' = job, signals' = signals,
         step' # "idle" => step # "idle" /\ Told' = Told /\ strategy'.belief = strategy.belief,
         step' = "decide" => queue' = <<>> \/ Tail(queue') = <<>>
  PROVE  AlternationInvariant'
BY DEF AlternationInvariant, Alternate, Remembers

\* The job is the engine's own.
LEMMA JobIsKept == [Next]_vars => job' = job
<1>1. StartRun \/ WarmUp \/ BeginEvaluation \/ NextBar => job' = job
  BY DEF StartRun, WarmUp, BeginEvaluation, NextBar
<1>2. ExecuteOrder \/ EndExecution \/ ApplyNext \/ MarkBar => job' = job
  BY DEF ExecuteOrder, EndExecution, ApplyNext, MarkBar
<1>3. CallStrategy \/ TakeSignal \/ TakeOrder \/ EndBar \/ FinishRun => job' = job
  BY DEF CallStrategy, TakeSignal, TakeOrder, EndBar, FinishRun
<1>4. QED
  BY <1>1, <1>2, <1>3 DEF Next, RunStep, Execute, Decide, vars

\* Every step keeps the alternation.
LEMMA AlternationIsKept ==
  TypeInvariant /\ WindowInvariant /\ AlternationInvariant /\ [Next]_vars => AlternationInvariant'
<1> SUFFICES ASSUME TypeInvariant, WindowInvariant, AlternationInvariant, [Next]_vars
             PROVE  AlternationInvariant'
  OBVIOUS
<1> USE TypeInvariant, WindowInvariant, AlternationInvariant
<1>1. CASE UNCHANGED vars
  <2>1. Told' = Told
    BY <1>1 DEF Told, vars, runVars
  <2>2. QED
    BY <1>1, <2>1, AlternationStays DEF vars, runVars, AlternationInvariant
<1>2. CASE StartRun
  <2>1. /\ step' = "warmup" /\ signals' = <<>> /\ strategy' = Strat!FreshStrategy
        /\ step' # "decide"
    BY <1>2 DEF StartRun, ResetParts
  <2>2. Told' = <<>>
    BY <2>1, ToldWillBe
  <2>3. \A s : ~ Entered(<<>>, s, Len(<<>>))
    BY DEF Entered
  <2>4. \A s \in Symbols : strategy'.belief[s] = "FLAT"
    BY <2>1 DEF Strat!FreshStrategy
  <2>5. Alternate(<<>>) /\ Remembers(strategy'.belief, <<>>)
    BY <2>3, <2>4 DEF Alternate, Remembers
  <2>6. QED
    BY <2>1, <2>2, <2>5 DEF AlternationInvariant
<1>3. CASE job.strategy.kind = "script"
  <2>1. job' = job
    BY JobIsKept
  <2>2. QED
    BY <1>3, <2>1 DEF AlternationInvariant
<1>4. CASE WarmUp /\ job.strategy.kind # "script"
  <2>1. job' = job /\ signals' = signals /\ queue' = queue /\ step = "warmup"
    BY <1>4 DEF WarmUp
  <2>2. step' # "idle" => strategy'.belief = strategy.belief /\ step' = "warmup"
    BY <1>4, WarmUpIsSilent
  <2>3. step' # "idle" => Told' = Told
    BY <2>1, <2>2, ToldIs, ToldWillBe
  <2>4. QED
    BY <2>1, <2>2, <2>3, AlternationStays
<1>5. CASE CallStrategy /\ job.strategy.kind # "script"
  <2>1. CallStrategyFacts /\ Replies
    BY <1>5, CallStrategyMeans, StrategyReplies
  <2>2. job' = job /\ signals' = signals /\ step = "strategy" /\ step # "idle" /\ Told = signals
    BY <2>1, ToldIs DEF CallStrategyFacts
  <2>3. CASE step' = "idle"
    BY <2>2, <2>3, AlternationStays
  <2>4. CASE step' # "idle"
    <3>1. step' = "decide" /\ queue' = Answer.signals
      BY <2>1, <2>4, Zenon DEF CallStrategyFacts, Raise
    <3>2. CASE Answer.signals = <<>> /\ strategy'.belief = strategy.belief
      BY <2>2, <3>1, <3>2, ToldWillBe, AlternationStays
    <3>3. ASSUME NEW e \in Signals, Answer.signals = <<e>>,
                 e.side = "EXIT" <=> strategy.belief[e.symbol] # "FLAT",
                 strategy'.belief = [strategy.belief EXCEPT ![e.symbol] = Strat!BeliefAfter(e.side)]
          PROVE  AlternationInvariant'
      <4>1. queue' # <<>> /\ Head(queue') = e /\ Tail(queue') = <<>>
        BY <3>1, <3>3
      <4>2. Told' = Append(signals, e)
        BY <2>2, <3>1, <4>1, ToldWillBe
      <4>3. signals \in Seq(Signals) /\ strategy.belief \in [Symbols -> Strat!Beliefs] /\ e.symbol \in Symbols
        BY DEF TypeInvariant, ListsOK, WindowInvariant, StrategyStates, Signals
      <4>4. Alternate(signals) /\ Remembers(strategy.belief, signals)
        BY <1>5, <2>2 DEF AlternationInvariant
      <4>5. \A s \in Symbols :
              strategy'.belief[s] = IF s = e.symbol THEN Strat!BeliefAfter(e.side) ELSE strategy.belief[s]
        BY <3>3, <4>3
      <4>6. Alternate(Append(signals, e)) /\ Remembers(strategy'.belief, Append(signals, e))
        <5> DEFINE before == strategy.belief
                   after == strategy'.belief
        <5> HIDE DEF before, after
        <5>1. Remembers(before, signals) /\ (e.side = "EXIT" <=> before[e.symbol] # "FLAT")
              /\ \A s \in Symbols : after[s] = IF s = e.symbol THEN Strat!BeliefAfter(e.side) ELSE before[s]
          BY <3>3, <4>4, <4>5 DEF before, after
        <5>2. Alternate(Append(signals, e)) /\ Remembers(after, Append(signals, e))
          BY <4>3, <4>4, <5>1, AlternationGrows
        <5>3. QED
          BY <5>2 DEF after
      <4>7. Alternate(signals')
        BY <2>2, <4>4
      <4>8. QED
        BY <2>2, <4>1, <4>2, <4>6, <4>7 DEF AlternationInvariant
    <3>4. QED
      BY <2>1, <3>2, <3>3 DEF Replies
  <2>5. QED
    BY <2>3, <2>4
<1>6. CASE TakeSignal /\ job.strategy.kind # "script"
  <2>1. TakeSignalFacts
    BY <1>6, TakeSignalMeans
  <2> DEFINE e == Head(queue)
  <2>2. /\ e \in Signals /\ queue # <<>> /\ step = "decide" /\ step' = "decide" /\ Tail(queue) = <<>>
        /\ signals' = Append(signals, e) /\ job' = job /\ strategy' = strategy
    BY <1>6, <2>1 DEF TakeSignalFacts, AlternationInvariant
  <2>3. Told = signals'
    BY <2>2, ToldIs
  <2>4. queue' = <<>> \/ \E o \in Orders : queue' = <<o>>
    <3>1. \A o : Append(<<>>, o) = <<o>>
      OBVIOUS
    <3>2. QED
      BY <2>1, <2>2, <3>1, Zenon DEF TakeSignalFacts
  <2>5. Told' = signals' /\ (queue' = <<>> \/ Tail(queue') = <<>>)
    <3>1. \A o : <<o>> # <<>> /\ Head(<<o>>) = o /\ Tail(<<o>>) = <<>>
      OBVIOUS
    <3>2. QED
      BY <2>4, <3>1, ToldWillBe
  <2>6. Alternate(Told) /\ Remembers(strategy.belief, Told)
    BY <1>6, <2>2 DEF AlternationInvariant
  <2>7. QED
    BY <2>2, <2>3, <2>5, <2>6 DEF AlternationInvariant
<1>7. CASE TakeOrder /\ job.strategy.kind # "script"
  <2>1. TakeOrderFacts
    BY <1>7, TakeOrderMeans
  <2>2. /\ Head(queue) \in Orders /\ queue # <<>> /\ step = "decide" /\ queue' = <<>>
        /\ signals' = signals /\ job' = job /\ strategy' = strategy
    BY <1>7, <2>1 DEF TakeOrderFacts, AlternationInvariant
  <2>3. Told = signals /\ Told' = signals
    BY <2>2, ToldIs, ToldWillBe
  <2>4. QED
    BY <2>2, <2>3, AlternationStays
<1>8. CASE BeginEvaluation \/ NextBar \/ ExecuteOrder \/ EndExecution \/ ApplyNext \/ MarkBar
           \/ EndBar \/ FinishRun
  <2>1. /\ job' = job /\ strategy' = strategy /\ signals' = signals
        /\ step' # "decide" /\ step # "idle"
        /\ step = "decide" => queue = <<>>
    <3>1. CASE NextBar \/ MarkBar \/ EndBar
      BY <3>1 DEF NextBar, MarkBar, EndBar
    <3>2. CASE ExecuteOrder
      BY <3>2, Zenon DEF ExecuteOrder, Raise
    <3>3. CASE EndExecution
      BY <3>3 DEF EndExecution
    <3>4. CASE ApplyNext
      BY <3>4, Zenon DEF ApplyNext, Raise
    <3>5. CASE BeginEvaluation
      BY <3>5, Zenon DEF BeginEvaluation, Raise
    <3>6. CASE FinishRun
      BY <3>6, Zenon DEF FinishRun, Raise
    <3>7. QED
      BY <1>8, <3>1, <3>2, <3>3, <3>4, <3>5, <3>6
  <2>2. Told = signals /\ Told' = signals
    BY <2>1, ToldIs, ToldWillBe
  <2>3. QED
    BY <2>1, <2>2, AlternationStays
<1>9. QED
  BY <1>1, <1>2, <1>3, <1>4, <1>5, <1>6, <1>7, <1>8 DEF Next, RunStep, Execute, Decide
-----------------------------------------------------------------------------
(***************************************************************************)
(* Refusals                                                                *)
(***************************************************************************)
LateOnes(list) == {k \in DOMAIN list : list[k].late}

\* Every refused order has been reported, except those of the bar being executed.
RefusalsReported ==
  /\ Reported \in Nat /\ Reported <= Len(refused)
  /\ \A k \in DOMAIN refused :
       step # "execute" \/ k <= Reported => \E r \in DOMAIN rejected : rejected[r].order = refused[k]

\* The count of the reported refusals, in this state and the next.
LEMMA ReportedIs == Reported = Cardinality(LateOnes(rejected)) /\ Reported' = Cardinality(LateOnes(rejected'))
BY DEF Reported, LateOnes

\* A decision of the risk manager is not late.
LEMMA LateOfAppend ==
  ASSUME NEW list \in Seq(Rejections), NEW e \in Rejections, ~e.late
  PROVE  LateOnes(Append(list, e)) = LateOnes(list)
<1> DEFINE n == Len(list)
           longer == Append(list, e)
<1>1. /\ n \in Nat /\ DOMAIN list = 1 .. n /\ DOMAIN longer = 1 .. n + 1
      /\ longer[n + 1] = e /\ \A k \in 1 .. n : longer[k] = list[k]
  OBVIOUS
<1> HIDE DEF longer, n
<1>2. QED
  BY <1>1 DEF LateOnes, longer

\* No more are late than are added.
LEMMA LateOfConcat ==
  ASSUME NEW list \in Seq(Rejections), NEW more \in Seq(Rejections)
  PROVE  /\ Cardinality(LateOnes(list)) \in Nat /\ Cardinality(LateOnes(list \o more)) \in Nat
         /\ Cardinality(LateOnes(list \o more)) <= Cardinality(LateOnes(list)) + Len(more)
<1> DEFINE n == Len(list)
           m == Len(more)
           longer == list \o more
           new == n + 1 .. n + m
<1>1. /\ n \in Nat /\ m \in Nat /\ DOMAIN list = 1 .. n /\ DOMAIN longer = 1 .. n + m
      /\ \A k \in 1 .. n : longer[k] = list[k]
  BY ConcatProperties
<1> HIDE DEF longer, n, m
<1>2. LateOnes(longer) \subseteq LateOnes(list) \cup new
  BY <1>1 DEF LateOnes
<1>3. IsFiniteSet(LateOnes(list)) /\ IsFiniteSet(new)
  <2>1. LateOnes(list) \subseteq 1 .. n /\ IsFiniteSet(1 .. n)
    BY <1>1, FS_Interval DEF LateOnes
  <2>2. IsFiniteSet(new)
    BY <1>1, FS_Interval
  <2>3. QED
    BY <2>1, <2>2, FS_Subset
<1>4. Cardinality(new) = m
  BY <1>1, FS_Interval
<1> HIDE DEF new
<1> DEFINE both == LateOnes(list) \cup new
<1>5. /\ IsFiniteSet(both) /\ Cardinality(LateOnes(list)) \in Nat
      /\ Cardinality(both) \in Nat /\ Cardinality(both) <= Cardinality(LateOnes(list)) + m
  <2>1. /\ IsFiniteSet(both)
        /\ Cardinality(both) = Cardinality(LateOnes(list)) + Cardinality(new) - Cardinality(LateOnes(list) \cap new)
    BY <1>3, FS_Union
  <2>2. IsFiniteSet(LateOnes(list) \cap new)
    BY <1>3, FS_Intersection
  <2>3. Cardinality(LateOnes(list) \cap new) \in Nat /\ Cardinality(LateOnes(list)) \in Nat
        /\ Cardinality(both) \in Nat
    BY <1>3, <2>1, <2>2, FS_CardinalityType
  <2>4. QED
    BY <1>1, <1>4, <2>1, <2>3
<1> HIDE DEF both
<1>6. IsFiniteSet(LateOnes(longer)) /\ Cardinality(LateOnes(longer)) <= Cardinality(both)
  BY <1>2, <1>5, FS_Subset DEF both
<1>7. Cardinality(LateOnes(longer)) \in Nat
  BY <1>6, FS_CardinalityType
<1>8. QED
  BY <1>1, <1>5, <1>6, <1>7 DEF longer, m

\* Reporting the orders refused since the last bar.
LEMMA RefusalsInEndExecution ==
  ASSUME TypeInvariant, RefusalsReported, EndExecution
  PROVE  /\ RefusalsReported' /\ rejected \in Seq(Rejections)
         /\ \E more \in Seq(Rejections) : rejected' = rejected \o more
<1> DEFINE news == NewlyRefused
           more == [i \in DOMAIN news |-> Refusal(news[i])]
           n == Len(refused)
           l == Len(rejected)
<1>1. /\ step = "execute" /\ rejected' = rejected \o more /\ refused' = refused /\ step' = "apply"
  BY DEF EndExecution, FinishExecution
<1>2. refused \in Seq(Orders) /\ n \in Nat /\ DOMAIN refused = 1 .. n /\ rejected \in Seq(Rejections)
      /\ l \in Nat /\ DOMAIN rejected = 1 .. l
  BY DEF TypeInvariant, ListsOK
<1>3. /\ news \in Seq(Orders) /\ Len(news) = n - Reported /\ DOMAIN news = 1 .. n - Reported
      /\ \A k \in 1 .. n - Reported : news[k] = refused[Reported + k]
  <2> DEFINE m == Reported + 1
  <2>1. m \in Int /\ m >= 1 /\ n \in Int /\ (IF m <= n THEN n - m + 1 ELSE 0) = n - Reported
    <3>1. n \in Nat /\ Reported \in Nat /\ Reported <= n
      BY <1>2 DEF RefusalsReported
    <3> HIDE DEF n
    <3>2. m \in Int /\ m >= 1 /\ n \in Int
      BY <3>1
    <3>3. CASE m <= n
      BY <3>1, <3>2, <3>3
    <3>4. CASE ~ (m <= n)
      BY <3>1, <3>2, <3>4
    <3>5. QED
      BY <3>2, <3>3, <3>4
  <2>2. n - m + 1 = n - Reported /\ \A k \in 1 .. n - Reported : m + k - 1 = Reported + k
    BY <1>2 DEF RefusalsReported
  <2>3. news = SubSeq(refused, m, n)
    BY DEF NewlyRefused
  <2> HIDE DEF m, n, news
  <2>4. \A i \in m .. n : refused[i] \in Orders
    <3>1. \A i \in m .. n : i \in 1 .. n
      BY <2>1
    <3>2. QED
      BY <1>2, <3>1
  <2>5. /\ news \in Seq(Orders) /\ Len(news) = n - Reported
        /\ \A k \in 1 .. n - m + 1 : news[k] = refused[m + k - 1]
    BY <2>1, <2>3, <2>4, SubSeqProperties
  <2>6. DOMAIN news = 1 .. Len(news)
    BY <2>5
  <2>7. QED
    BY <2>2, <2>5, <2>6
<1>4. Market.timestamp \in Nat
  BY <1>1, MarketIsABar DEF InBar
<1>5. more \in Seq(Rejections) /\ Len(more) = n - Reported /\ DOMAIN more = 1 .. n - Reported
      /\ \A k \in 1 .. n - Reported : more[k].order = refused[Reported + k]
  <2>1. \A o \in Orders : Refusal(o) \in Rejections /\ Refusal(o).order = o
    BY <1>4 DEF Refusal, Rejections, Reasons
  <2>2. n - Reported \in Nat
    BY <1>2 DEF RefusalsReported
  <2> HIDE DEF news, n
  <2>3. \A k \in 1 .. n - Reported : news[k] \in Orders
    BY <1>3
  <2>4. more \in [1 .. n - Reported -> Rejections]
    BY <1>3, <2>1, <2>3
  <2>5. more \in Seq(Rejections) /\ DOMAIN more = 1 .. n - Reported
    BY <2>2, <2>4
  <2>6. Len(more) = n - Reported
    BY <2>2, <2>5, LenProperties
  <2>7. QED
    BY <1>3, <2>1, <2>3, <2>5, <2>6
<1> HIDE DEF more, news, n, l
<1>6. /\ \A k \in 1 .. l : k \in DOMAIN rejected' /\ rejected'[k] = rejected[k]
      /\ \A k \in 1 .. n - Reported : l + k \in DOMAIN rejected' /\ rejected'[l + k] = more[k]
  <2>1. \A k \in 1 .. l : k \in 1 .. l + (n - Reported)
    BY <1>2 DEF RefusalsReported
  <2>2. \A k \in 1 .. n - Reported : l + k \in 1 .. l + (n - Reported) /\ l + k > l /\ (l + k) - l = k
    BY <1>2 DEF RefusalsReported
  <2>3. QED
    BY <1>1, <1>2, <1>5, <2>1, <2>2 DEF l
<1>7. ASSUME NEW k \in 1 .. n PROVE \E r \in DOMAIN rejected' : rejected'[r].order = refused[k]
  <2>1. CASE k <= Reported
    <3>1. PICK r \in 1 .. l : rejected[r].order = refused[k]
      BY <1>2, <2>1 DEF RefusalsReported
    <3>2. QED
      BY <1>6, <3>1
  <2>2. CASE ~ (k <= Reported)
    <3> DEFINE c == k - Reported
    <3>1. c \in 1 .. n - Reported /\ Reported + c = k
      BY <1>2, <2>2 DEF RefusalsReported
    <3> HIDE DEF c
    <3>2. rejected'[l + c].order = refused[k] /\ l + c \in DOMAIN rejected'
      BY <1>5, <1>6, <3>1
    <3>3. QED
      BY <3>2
  <2>3. QED
    BY <2>1, <2>2
<1>8. Reported' \in Nat /\ Reported' <= n
  <2>1. /\ Cardinality(LateOnes(rejected')) \in Nat
        /\ Cardinality(LateOnes(rejected')) <= Cardinality(LateOnes(rejected)) + Len(more)
    BY <1>1, <1>2, <1>5, LateOfConcat
  <2>2. Reported = Cardinality(LateOnes(rejected)) /\ Reported' = Cardinality(LateOnes(rejected'))
    BY ReportedIs
  <2>3. Reported' <= Reported + (n - Reported) /\ Reported' \in Nat
    BY <1>5, <2>1, <2>2
  <2>4. QED
    BY <1>2, <2>3 DEF RefusalsReported
<1>9. RefusalsReported'
  BY <1>1, <1>2, <1>7, <1>8 DEF RefusalsReported, n
<1>10. QED
  BY <1>1, <1>2, <1>5, <1>9

\* Steps that change neither list.
LEMMA RefusalsStay ==
  ASSUME RefusalsReported, rejected' = rejected, refused' = refused, step # "execute" \/ step' = "execute"
  PROVE  RefusalsReported'
<1>1. Reported' = Reported
  BY DEF Reported
<1>2. QED
  BY <1>1 DEF RefusalsReported
-----------------------------------------------------------------------------
(***************************************************************************)
(* Beliefs and positions                                                   *)
(***************************************************************************)
\* What is on its way to the portfolio, of all symbols and of s.
OnTheWay == Items(queue) \cup Items(pending) \cup Items(still) \cup Items(accepted)
Coming(s) == {e \in OnTheWay : e.symbol = s}

\* What an event on the way will add to the position.
Effect(e, position, size) ==
  IF IsOrder(e) THEN Signed(e.side, e.quantity)
  ELSE IF e.side = "EXIT" THEN -position ELSE Signed(e.side, size)

\* No order of s was rejected or refused that no exit has followed.
Clear(s) ==
  /\ \A r \in DOMAIN rejected :
       rejected[r].order.symbol = s => Exited(s, rejected[r].order.timestamp)
  /\ \A k \in DOMAIN refused : refused[k].symbol = s => Exited(s, refused[k].timestamp)

\* At most one event is coming, and with it the position is the intended one.
Balanced(coming, position, intended, size) ==
  /\ \A e, f \in coming : e = f
  /\ coming = {} => position = intended
  /\ \A e \in coming : position + Effect(e, position, size) = intended

InStep(s) ==
  Clear(s) =>
    Balanced(Coming(s), portfolio.positions[s].quantity, Intended(strategy.belief[s]), job.quantity)

\* Waiting orders and signals answer an earlier bar of their symbol, or this one, and
\* no order of the bar's symbol waits while there is something to decide.
AnswersBars ==
  /\ \A o \in Items(pending) \cup Items(still) \cup Items(signals) : \E k \in DOMAIN job.bars :
       /\ job.bars[k].symbol = o.symbol /\ job.bars[k].timestamp = o.timestamp
       /\ k < cursor \/ (k = cursor /\ step = "decide")
  /\ step = "warmup" => pending = <<>> /\ still = <<>> /\ signals = <<>>
  /\ step = "decide" =>
       /\ \A e \in Items(queue) : e.symbol = Market.symbol
       /\ queue # <<>> => \A o \in Items(pending) : o.symbol # Market.symbol

BeliefInvariant ==
  job.strategy.kind # "script" /\ step # "idle" =>
    RefusalsReported /\ AnswersBars /\ \A s \in Symbols : InStep(s)

\* The state that the proofs below speak of.
StepInvariant == EngineInvariant /\ WindowInvariant /\ AlternationInvariant /\ BeliefInvariant

\* Items by their head,
LEMMA ItemsOfHead ==
  ASSUME NEW S, NEW q \in Seq(S), q # <<>>
  PROVE  Items(q) = {Head(q)} \cup Items(Tail(q))
<1>1. /\ Head(q) = q[1] /\ 1 \in DOMAIN q
      /\ \A k \in DOMAIN Tail(q) : k + 1 \in DOMAIN q /\ Tail(q)[k] = q[k + 1]
      /\ \A k \in DOMAIN q : k # 1 => k - 1 \in DOMAIN Tail(q) /\ Tail(q)[k - 1] = q[k]
  BY TailFacts
<1> DEFINE rest == Tail(q)
<1> HIDE DEF rest
<1>2. Items(q) \subseteq {q[1]} \cup Items(rest)
  <2> SUFFICES ASSUME NEW k \in DOMAIN q PROVE q[k] = q[1] \/ q[k] \in Items(rest)
    BY DEF Items
  <2>1. k # 1 => k - 1 \in DOMAIN rest /\ rest[k - 1] = q[k]
    BY <1>1 DEF rest
  <2>2. QED
    BY <2>1 DEF Items
<1>3. Items(rest) \subseteq Items(q)
  <2> SUFFICES ASSUME NEW k \in DOMAIN rest PROVE rest[k] \in Items(q)
    BY DEF Items
  <2>1. k + 1 \in DOMAIN q /\ rest[k] = q[k + 1]
    BY <1>1 DEF rest
  <2>2. QED
    BY <2>1 DEF Items
<1>4. q[1] \in Items(q)
  BY <1>1 DEF Items
<1>5. QED
  BY <1>1, <1>2, <1>3, <1>4 DEF rest

\* and by their ids.
LEMMA ItemIds ==
  ASSUME NEW q, NEW e \in Items(q), IsOrder(e)
  PROVE  e.id \in EventIds(q)
BY DEF Items, EventIds

\* The head of a queue in turn is not among the others.
LEMMA HeadIsOnce ==
  ASSUME NEW q \in Seq(Events), q # <<>>, Rising(q), IsOrder(Head(q))
  PROVE  Head(q) \notin Items(Tail(q)) /\ Head(q).id \in EventIds(q)
<1>1. EventIds(q) \subseteq Nat
  BY IdsAreNumbers
<1>2. Head(q).id \in EventIds(q) /\ \A i \in EventIds(Tail(q)) : Head(q).id < i
  BY <1>1, IdsOfTail
<1>3. Head(q).id \in Nat
  BY <1>1, <1>2
<1>4. ASSUME Head(q) \in Items(Tail(q)) PROVE FALSE
  <2>1. Head(q).id \in EventIds(Tail(q))
    BY <1>4, ItemIds
  <2>2. Head(q).id < Head(q).id
    BY <1>2, <2>1
  <2>3. QED
    BY <1>3, <2>2
<1>5. QED
  BY <1>2, <1>4

\* A symbol whose account, belief and coming events stay is in step still.
LEMMA InStepStays ==
  ASSUME NEW s, InStep(s), job' = job, Clear(s)' => Clear(s), Coming(s)' = Coming(s),
         portfolio'.positions[s].quantity = portfolio.positions[s].quantity,
         strategy'.belief[s] = strategy.belief[s]
  PROVE  InStep(s)'
BY DEF InStep, Intended

\* Lists that stay leave a symbol clear.
LEMMA ClearStays ==
  ASSUME NEW s, rejected' = rejected, refused' = refused, signals' = signals
  PROVE  Clear(s)' = Clear(s)
BY DEF Clear, Exited

\* What was refused by the end of execution has been rejected.
LEMMA ClearIs ==
  ASSUME RefusalsReported, step # "execute", NEW s,
         \A r \in DOMAIN rejected : rejected[r].order.symbol = s => Exited(s, rejected[r].order.timestamp)
  PROVE  Clear(s)
BY DEF Clear, RefusalsReported
-----------------------------------------------------------------------------
\* The lists of the state, by their types.
LEMMA QueueTypes ==
  ASSUME TypeInvariant
  PROVE  /\ queue \in Seq(Events) /\ pending \in Seq(Orders) /\ still \in Seq(Orders)
         /\ accepted \in Seq(Fills) /\ refused \in Seq(Orders) /\ rejected \in Seq(Rejections)
         /\ pending \in Seq(Events) /\ still \in Seq(Events) /\ accepted \in Seq(Events)
         /\ Items(pending) \subseteq Orders /\ Items(still) \subseteq Orders /\ Items(accepted) \subseteq Fills
BY ListsAreEvents, ItemsAreOrders DEF TypeInvariant, ListsOK

\* No exit has followed an order that is being executed,
LEMMA NoExitYet ==
  ASSUME EngineInvariant, AnswersBars, step = "execute", NEW o \in Items(pending)
  PROVE  ~ Exited(o.symbol, o.timestamp)
<1>1. TypeInvariant /\ job.bars \in Seq(Bars) /\ cursor \in Nat
  BY JobFacts DEF EngineInvariant, TypeInvariant, StepOK
<1>2. SUFFICES ASSUME NEW j \in DOMAIN signals, signals[j].symbol = o.symbol, o.timestamp < signals[j].timestamp
               PROVE  FALSE
  BY DEF Exited
<1>3. PICK k \in DOMAIN job.bars :
        job.bars[k].symbol = signals[j].symbol /\ job.bars[k].timestamp = signals[j].timestamp /\ k < cursor
  BY DEF AnswersBars, Items
<1>4. k \in Later(job.bars, o) /\ k \in Nat
  <2>1. o.timestamp \in Nat /\ job.bars[k].timestamp \in Nat
    <3>1. o \in Orders /\ job.bars[k] \in Bars
      BY <1>1, <1>3, QueueTypes
    <3>2. QED
      BY <3>1 DEF Orders, Bars
  <2>2. QED
    BY <1>1, <1>2, <1>3, <2>1 DEF Later
<1>5. k > Processed /\ Processed = cursor - 1
  BY <1>1, <1>4, ProcessedIs DEF EngineInvariant, TimeInvariant, Timing, WaitingTimed, Waits
<1>6. QED
  BY <1>1, <1>3, <1>4, <1>5

\* or of the bar being processed.
LEMMA NoExitSince ==
  ASSUME TypeInvariant, AnswersBars, step = "decide", NEW s
  PROVE  ~ Exited(s, Market.timestamp)
<1>1. /\ cursor \in DOMAIN job.bars /\ job.bars \in Seq(Bars) /\ Chronological(job.bars)
      /\ DOMAIN job.bars \subseteq Nat
  BY JobFacts DEF TypeInvariant, StepOK, InBar
<1>2. SUFFICES ASSUME NEW j \in DOMAIN signals, Market.timestamp < signals[j].timestamp
               PROVE  FALSE
  BY DEF Exited
<1>3. PICK k \in DOMAIN job.bars : job.bars[k].timestamp = signals[j].timestamp /\ (k < cursor \/ k = cursor)
  BY DEF AnswersBars, Items
<1>4. job.bars[k].timestamp \in Nat /\ job.bars[cursor].timestamp \in Nat
  <2>1. job.bars[k] \in Bars /\ job.bars[cursor] \in Bars
    BY <1>1
  <2>2. QED
    BY <2>1 DEF Bars
<1>5. job.bars[k].timestamp <= job.bars[cursor].timestamp
  BY <1>1, <1>3, <1>4 DEF Chronological
<1>6. QED
  BY <1>2, <1>3, <1>4, <1>5 DEF Market
-----------------------------------------------------------------------------
\* What becomes of the next pending order.
OrderExecuted(o, fill) ==
  /\ UNCHANGED <<job, cursor, queue, portfolio, strategy, signals, rejected>>
  /\ step = "execute" /\ step' = "execute" /\ queue = <<>>
  /\ o = Head(pending) /\ pending # <<>> /\ pending' = Tail(pending)
  /\ o \in Orders /\ fill \in Fills /\ fill.symbol = o.symbol
  /\ Signed(fill.side, fill.quantity) = Signed(o.side, o.quantity)
  /\ Items(pending) = {o} \cup Items(Tail(pending))
  /\ o \notin Items(Tail(pending)) \cup Items(still) \cup Items(accepted)
  /\ \/ /\ Items(still') = Items(still) \cup {o} /\ accepted' = accepted /\ refused' = refused
     \/ /\ still' = still /\ Items(accepted') = Items(accepted) \cup {fill} /\ refused' = refused
     \/ still' = still /\ accepted' = accepted /\ refused' = Append(refused, o)

\* It is kept, filled or refused, and nowhere else.
LEMMA ExecuteOrderMeans ==
  ASSUME EngineInvariant, ExecuteOrder, step' # "idle"
  PROVE  \E o \in Orders, fill \in Fills : OrderExecuted(o, fill)
<1> DEFINE o == Head(pending)
           fill == FillOf(o, Market, job.commission, job.slippage)
<1>1. /\ UNCHANGED <<job, cursor, queue, portfolio, strategy, signals, rejected>>
      /\ step = "execute" /\ pending # <<>> /\ pending' = Tail(pending)
      /\ \/ /\ step' = "execute" /\ still' = Append(still, o)
            /\ accepted' = accepted /\ refused' = refused
         \/ /\ step' = "execute" /\ still' = still
            /\ accepted' = Append(accepted, fill) /\ refused' = refused
         \/ /\ step' = "execute" /\ still' = still
            /\ accepted' = accepted /\ refused' = Append(refused, o)
  BY Zenon DEF ExecuteOrder, Hold, Match, PriceFails, Raise
<1>2. TypeInvariant /\ Life
  BY <1>1 DEF EngineInvariant, LifeInvariant, Healthy
<1>3. o \in Orders /\ pending \in Seq(Orders) /\ pending \in Seq(Events) /\ still \in Seq(Orders) /\ accepted \in Seq(Fills)
  <2>1. pending \in Seq(Orders) /\ pending \in Seq(Events) /\ still \in Seq(Orders) /\ accepted \in Seq(Fills)
    BY <1>2, QueueTypes
  <2>2. QED
    BY <1>1, <2>1
<1>4. /\ fill \in Fills /\ fill.symbol = o.symbol /\ fill.side = o.side /\ fill.quantity = o.quantity
  BY <1>1, <1>2, <1>3, FillFacts DEF InBar
<1> HIDE DEF fill
<1>5. IsOrder(o)
  BY <1>3, EventKinds
<1>6. /\ Rising(pending) /\ Before(still, pending) /\ Before(accepted, pending) /\ queue = <<>>
  BY <1>1, <1>2 DEF Life, InTurn, EmptyQueues
<1>7. o \notin Items(Tail(pending)) /\ o.id \in EventIds(pending) /\ o.id \in Nat
  <2>1. o \notin Items(Tail(pending)) /\ o.id \in EventIds(pending)
    BY <1>1, <1>3, <1>5, <1>6, HeadIsOnce
  <2>2. QED
    BY <1>3, <2>1 DEF Orders
<1> DEFINE p == Head(pending)
<1>8. o \notin Items(still) /\ o \notin Items(accepted)
  <2>1. ASSUME NEW u, Before(u, pending), o \in Items(u) PROVE FALSE
    <3>1. o.id \in EventIds(u)
      BY <1>5, <2>1, ItemIds
    <3>2. o.id < o.id
      BY <1>7, <2>1, <3>1 DEF Before
    <3>3. QED
      BY <1>7, <3>2
  <2>2. QED
    BY <1>6, <2>1
<1>9. /\ Items(pending) = {o} \cup Items(Tail(pending))
      /\ Items(Append(still, o)) = Items(still) \cup {o}
      /\ Items(Append(accepted, fill)) = Items(accepted) \cup {fill}
  <2>1. Items(pending) = {o} \cup Items(Tail(pending))
    BY <1>1, <1>3, ItemsOfHead
  <2> HIDE DEF o
  <2>2. QED
    BY <1>3, <2>1, ItemsOfAppend
<1> HIDE DEF p
<1>10. OrderExecuted(o, fill)
  BY <1>1, <1>3, <1>4, <1>6, <1>7, <1>8, <1>9 DEF OrderExecuted
<1>11. QED
  BY <1>3, <1>4, <1>10

\* The next pending order is kept, filled or refused.
LEMMA BeliefInExecuteOrder ==
  ASSUME EngineInvariant, ExecuteOrder, step' # "idle", RefusalsReported, AnswersBars,
         \A s \in Symbols : InStep(s)
  PROVE  RefusalsReported' /\ AnswersBars' /\ \A s \in Symbols : InStep(s)'
<1>1. PICK o \in Orders, fill \in Fills : OrderExecuted(o, fill)
  BY ExecuteOrderMeans
<1>2. /\ UNCHANGED <<job, cursor, queue, portfolio, strategy, signals, rejected>>
      /\ step = "execute" /\ step' = "execute" /\ queue = <<>>
      /\ Items(pending) = {o} \cup Items(pending') /\ o \notin Items(pending') \cup Items(still) \cup Items(accepted)
      /\ fill.symbol = o.symbol /\ Signed(fill.side, fill.quantity) = Signed(o.side, o.quantity)
  BY <1>1 DEF OrderExecuted
<1>3. IsOrder(o) /\ IsOrder(fill) /\ Items(<<>>) = {} /\ o.symbol \in Symbols
  BY EventKinds, ItemsOfNothing DEF Orders
<1>4. CASE Items(still') = Items(still) \cup {o} /\ accepted' = accepted /\ refused' = refused
  <2>1. OnTheWay' = OnTheWay /\ Items(pending') \cup Items(still') = Items(pending) \cup Items(still)
    BY <1>2, <1>3, <1>4 DEF OnTheWay
  <2>2. AnswersBars'
    BY <1>2, <2>1 DEF AnswersBars
  <2>3. ASSUME NEW s \in Symbols PROVE InStep(s)'
    <3>1. Coming(s)' = Coming(s)
      BY <2>1 DEF Coming
    <3>2. Clear(s)' = Clear(s)
      BY <1>2, <1>4, ClearStays
    <3>3. QED
      BY <1>2, <3>1, <3>2, InStepStays
  <2>4. QED
    BY <1>2, <1>4, <2>2, <2>3, RefusalsStay
<1>5. CASE still' = still /\ Items(accepted') = Items(accepted) \cup {fill} /\ refused' = refused
  <2>1. OnTheWay = Items(pending') \cup Items(still) \cup Items(accepted) \cup {o}
        /\ OnTheWay' = Items(pending') \cup Items(still) \cup Items(accepted) \cup {fill}
    BY <1>2, <1>3, <1>5 DEF OnTheWay
  <2>2. AnswersBars'
    BY <1>2, <1>5 DEF AnswersBars
  <2>3. ASSUME NEW s \in Symbols, s # o.symbol PROVE InStep(s)'
    <3>1. Coming(s)' = Coming(s)
      BY <1>2, <2>1, <2>3 DEF Coming
    <3>2. Clear(s)' = Clear(s)
      BY <1>2, <1>5, ClearStays
    <3>3. QED
      BY <1>2, <3>1, <3>2, InStepStays
  <2>4. InStep(o.symbol)'
    <3> DEFINE s == o.symbol
               position == portfolio.positions[s].quantity
               intended == Intended(strategy.belief[s])
    <3>1. Clear(s)' = Clear(s)
      BY <1>2, <1>5, ClearStays
    <3>2. ASSUME Clear(s) PROVE Balanced(Coming(s)', position, intended, job.quantity)
      <4>1. Balanced(Coming(s), position, intended, job.quantity)
        BY <1>3, <3>2 DEF InStep
      <4>2. o \in Coming(s)
        BY <2>1 DEF Coming
      <4>3. Coming(s)' = {fill}
        BY <1>2, <2>1, <4>1, <4>2 DEF Coming, Balanced
      <4>4. Effect(fill, position, job.quantity) = Effect(o, position, job.quantity)
        BY <1>2, <1>3 DEF Effect
      <4> HIDE DEF position, intended, s
      <4>5. QED
        BY <4>1, <4>2, <4>3, <4>4 DEF Balanced
    <3>3. QED
      BY <1>2, <3>1, <3>2 DEF InStep, Intended
  <2>5. QED
    BY <1>2, <1>5, <2>2, <2>3, <2>4, RefusalsStay
<1>6. CASE still' = still /\ accepted' = accepted /\ refused' = Append(refused, o)
  <2>1. OnTheWay = Items(pending') \cup Items(still) \cup Items(accepted) \cup {o}
        /\ OnTheWay' = Items(pending') \cup Items(still) \cup Items(accepted)
    BY <1>2, <1>3, <1>6 DEF OnTheWay
  <2>2. AnswersBars'
    BY <1>2, <1>6 DEF AnswersBars
  <2> DEFINE n == Len(refused)
  <2>3. /\ n \in Nat /\ DOMAIN refused = 1 .. n /\ DOMAIN refused' = 1 .. n + 1 /\ Len(refused') = n + 1
        /\ refused'[n + 1] = o /\ \A k \in 1 .. n : refused'[k] = refused[k]
    <3>1. refused \in Seq(Orders)
      BY QueueTypes DEF EngineInvariant
    <3>2. QED
      BY <1>6, <3>1
  <2> HIDE DEF n
  <2>4. RefusalsReported'
    <3>1. Reported' = Reported /\ Reported \in Nat /\ Reported <= n
      BY <1>2 DEF Reported, RefusalsReported, n
    <3>2. ASSUME NEW k \in 1 .. n + 1, k <= Reported PROVE \E r \in DOMAIN rejected : rejected[r].order = refused'[k]
      <4>1. k \in 1 .. n
        BY <2>3, <3>1, <3>2
      <4>2. QED
        BY <2>3, <3>2, <4>1 DEF RefusalsReported
    <3>3. Reported' <= n + 1
      BY <2>3, <3>1
    <3>4. QED
      BY <1>2, <2>3, <3>1, <3>2, <3>3 DEF RefusalsReported
  <2>5. ASSUME NEW s \in Symbols PROVE InStep(s)'
    <3>1. CASE s = o.symbol
      <4>1. n + 1 \in 1 .. n + 1
        BY <2>3
      <4>2. ~ Clear(s)'
        <5>1. ~ Exited(o.symbol, o.timestamp)
          BY <1>2, NoExitYet
        <5>2. ~ Exited(o.symbol, o.timestamp)'
          BY <1>2, <5>1 DEF Exited
        <5>3. QED
          BY <2>3, <3>1, <4>1, <5>2 DEF Clear
      <4>3. QED
        BY <4>2 DEF InStep
    <3>2. CASE s # o.symbol
      <4>1. Coming(s)' = Coming(s)
        BY <2>1, <3>2 DEF Coming
      <4>2. Clear(s)' => Clear(s)
        <5>1. \A k \in 1 .. n : k \in 1 .. n + 1
          BY <2>3
        <5>2. QED
          BY <1>2, <2>3, <5>1 DEF Clear, Exited
      <4>3. QED
        BY <1>2, <4>1, <4>2, InStepStays
    <3>3. QED
      BY <3>1, <3>2
  <2>6. QED
    BY <2>2, <2>4, <2>5
<1>7. QED
  BY <1>1, <1>4, <1>5, <1>6 DEF OrderExecuted

\* The accepted fills are queued.
LEMMA BeliefInEndExecution ==
  ASSUME EngineInvariant, EndExecution, RefusalsReported, AnswersBars, \A s \in Symbols : InStep(s)
  PROVE  RefusalsReported' /\ AnswersBars' /\ \A s \in Symbols : InStep(s)'
<1>1. /\ UNCHANGED <<job, cursor, portfolio, strategy, signals>> /\ refused' = refused
      /\ step = "execute" /\ step' = "apply" /\ pending = <<>>
      /\ queue' = accepted /\ pending' = still /\ still' = <<>> /\ accepted' = <<>>
  BY DEF EndExecution, FinishExecution
<1>2. TypeInvariant /\ queue = <<>>
  BY <1>1 DEF EngineInvariant, LifeInvariant, Healthy, Life, EmptyQueues
<1>3. RefusalsReported' /\ rejected \in Seq(Rejections) /\ \E more \in Seq(Rejections) : rejected' = rejected \o more
  BY <1>2, RefusalsInEndExecution
<1>4. OnTheWay' = OnTheWay /\ Items(pending') \cup Items(still') = Items(pending) \cup Items(still)
  BY <1>1, <1>2, ItemsOfNothing DEF OnTheWay
<1>5. AnswersBars'
  BY <1>1, <1>4 DEF AnswersBars
<1>6. ASSUME NEW s \in Symbols PROVE InStep(s)'
  <2>1. Coming(s)' = Coming(s)
    BY <1>4 DEF Coming
  <2>2. Clear(s)' => Clear(s)
    <3>1. PICK more \in Seq(Rejections) : rejected' = rejected \o more
      BY <1>3
    <3>2. \A r \in DOMAIN rejected : r \in DOMAIN rejected' /\ rejected'[r] = rejected[r]
      BY <1>3, <3>1
    <3>3. QED
      BY <1>1, <3>2 DEF Clear, Exited
  <2>3. QED
    BY <1>1, <2>1, <2>2, InStepStays
<1>7. QED
  BY <1>3, <1>5, <1>6

\* A fill arrives.
LEMMA BeliefInApplyNext ==
  ASSUME EngineInvariant, ApplyNext, step' # "idle", RefusalsReported, AnswersBars, \A s \in Symbols : InStep(s)
  PROVE  RefusalsReported' /\ AnswersBars' /\ \A s \in Symbols : InStep(s)'
<1>0. PICK f \in Fills : f = Head(queue) /\ queue # <<>>
  <2>1. queue # <<>> /\ queue \in Seq(Fills)
    BY DEF ApplyNext, EngineInvariant, TypeInvariant, StepOK
  <2>2. Head(queue) \in Fills
    BY <2>1
  <2>3. QED
    BY <2>1, <2>2
<1>1. /\ UNCHANGED <<job, cursor, strategy, signals, rejected, pending, refused, still, accepted>>
      /\ step = "apply" /\ step' = "apply" /\ queue # <<>> /\ queue' = Tail(queue)
      /\ portfolio' = ProcessFill(portfolio, f)
  <2>1. /\ UNCHANGED <<job, cursor, strategy, signals, rejected, pending, refused, still, accepted>>
        /\ step = "apply" /\ step' = "apply" /\ queue # <<>> /\ queue' = Tail(queue)
        /\ portfolio' = ProcessFill(portfolio, Head(queue))
    BY Zenon DEF ApplyNext, Raise, simulatorVars
  <2>2. QED
    BY <1>0, <2>1
<1>2. TypeInvariant /\ Life
  BY <1>1 DEF EngineInvariant, LifeInvariant, Healthy
<1>3. queue \in Seq(Fills) /\ queue \in Seq(Events) /\ f \in Fills /\ AccountOK(portfolio)
  BY <1>1, <1>2, QueueTypes DEF TypeInvariant, StepOK
<1>4. still = <<>> /\ accepted = <<>> /\ Rising(queue) /\ IsOrder(f)
  BY <1>1, <1>2, <1>3, EventKinds DEF Life, EmptyQueues, InTurn
<1>5. f \notin Items(Tail(queue)) /\ f.id \in EventIds(queue) /\ Items(queue) = {f} \cup Items(Tail(queue))
  BY <1>0, <1>3, <1>4, HeadIsOnce, ItemsOfHead
<1>6. f \notin Items(pending)
  <2>1. f.id \notin EventIds(pending)
    <3>1. Places["queued"] \cap Places["pending"] = {}
      BY <1>2 DEF Life, OnePlace, PlaceNames
    <3>2. QED
      BY <1>5, <3>1, PlacesAre
  <2>2. QED
    BY <1>4, <2>1, ItemIds
<1>7. f.symbol \in Symbols /\ \A s \in Symbols :
        portfolio'.positions[s].quantity
          = portfolio.positions[s].quantity + (IF s = f.symbol THEN Signed(f.side, f.quantity) ELSE 0)
  <2>1. f.symbol \in Symbols
    BY <1>3 DEF Fills
  <2>2. QED
    BY <1>1, <1>3, <2>1, QuantityAfter
<1>8. \A s \in Symbols : portfolio.positions[s].quantity \in Int
  BY <1>3 DEF AccountOK, Positions
<1>9. OnTheWay = {f} \cup Items(Tail(queue)) \cup Items(pending) /\ OnTheWay' = Items(Tail(queue)) \cup Items(pending)
  BY <1>1, <1>4, <1>5, ItemsOfNothing DEF OnTheWay
<1>10. RefusalsReported'
  BY <1>1, RefusalsStay
<1>11. AnswersBars'
  BY <1>1 DEF AnswersBars
<1>12. ASSUME NEW s \in Symbols, s # f.symbol PROVE InStep(s)'
  <2>1. Coming(s)' = Coming(s)
    BY <1>9, <1>12 DEF Coming
  <2>2. Clear(s)' = Clear(s)
    BY <1>1, ClearStays
  <2>3. portfolio'.positions[s].quantity = portfolio.positions[s].quantity
    BY <1>7, <1>8, <1>12
  <2>4. QED
    BY <1>1, <2>1, <2>2, <2>3, InStepStays
<1>13. InStep(f.symbol)'
  <2> DEFINE s == f.symbol
             position == portfolio.positions[s].quantity
             after == portfolio'.positions[s].quantity
             intended == Intended(strategy.belief[s])
  <2>1. Clear(s)' = Clear(s)
    BY <1>1, ClearStays
  <2>2. after = position + Signed(f.side, f.quantity)
    BY <1>7
  <2>3. ASSUME Clear(s) PROVE Balanced(Coming(s)', after, intended, job.quantity)
    <3>1. Balanced(Coming(s), position, intended, job.quantity)
      BY <1>7, <2>3 DEF InStep
    <3>2. f \in Coming(s)
      BY <1>9 DEF Coming
    <3>3. Coming(s)' = {}
      BY <1>5, <1>6, <1>9, <3>1, <3>2 DEF Coming, Balanced
    <3>4. Effect(f, position, job.quantity) = Signed(f.side, f.quantity)
      BY <1>4 DEF Effect
    <3>5. after = intended
      BY <2>2, <3>1, <3>2, <3>4 DEF Balanced
    <3> HIDE DEF position, intended, s, after
    <3>6. QED
      BY <3>3, <3>5 DEF Balanced
  <2>4. QED
    BY <1>1, <2>1, <2>3 DEF InStep, Intended
<1>14. QED
  BY <1>10, <1>11, <1>12, <1>13

\* The next order of the queue is rejected or submitted.
LEMMA BeliefInTakeOrder ==
  ASSUME EngineInvariant, TakeOrder, step' # "idle", Tail(queue) = <<>>,
         RefusalsReported, AnswersBars, \A s \in Symbols : InStep(s)
  PROVE  RefusalsReported' /\ AnswersBars' /\ \A s \in Symbols : InStep(s)'
<1> DEFINE o == Head(queue)
           entry(reason) == [order |-> o, timestamp |-> Market.timestamp, reason |-> reason, late |-> FALSE]
<1>1. TakeOrderFacts /\ TypeInvariant
  BY TakeOrderMeans DEF EngineInvariant
<1>2. /\ UNCHANGED <<job, cursor, portfolio, strategy, signals>>
      /\ step = "decide" /\ queue # <<>> /\ o \in Orders /\ queue' = <<>>
      /\ step' = "decide" /\ refused' = refused /\ still' = still /\ accepted' = accepted
      /\ \/ /\ \E reason \in Reasons : rejected' = Append(rejected, entry(reason))
            /\ pending' = pending
         \/ pending' = Append(pending, o) /\ rejected' = rejected
  BY <1>1, Zenon DEF TakeOrderFacts, Raise, Submit, simulatorVars
<1>3. /\ queue \in Seq(Events) /\ pending \in Seq(Orders) /\ rejected \in Seq(Rejections)
      /\ Items(queue) = {o} /\ Items(queue') = {}
  <2>1. queue \in Seq(Events) /\ pending \in Seq(Orders) /\ rejected \in Seq(Rejections)
    BY <1>1, QueueTypes
  <2>2. Items(queue) = {o} \cup Items(<<>>)
    BY <1>2, <2>1, ItemsOfHead
  <2>3. QED
    BY <1>2, <2>1, <2>2, ItemsOfNothing
<1>4. /\ o.symbol = Market.symbol /\ o.timestamp = Market.timestamp
      /\ cursor \in DOMAIN job.bars /\ Market.timestamp \in Nat
  <2>1. o \in Items(queue)
    BY <1>3
  <2>2. o.symbol = Market.symbol
    BY <1>2, <2>1 DEF AnswersBars
  <2>3. o.timestamp = Market.timestamp
    BY <1>2, <2>1 DEF EngineInvariant, TimeInvariant, Timing, OrdersTimed
  <2>4. QED
    BY <1>1, <1>2, <2>2, <2>3, MarketIsABar DEF TypeInvariant, StepOK, InBar
<1> HIDE DEF o
<1>5. CASE /\ \E reason \in Reasons : rejected' = Append(rejected, entry(reason))
           /\ pending' = pending
  <2>1. PICK reason \in Reasons : rejected' = Append(rejected, entry(reason))
    BY <1>5
  <2> DEFINE n == Len(rejected)
             e == entry(reason)
  <2>2. e \in Rejections /\ ~e.late /\ e.order = o
    BY <1>2, <1>4 DEF Rejections
  <2> HIDE DEF e
  <2>3. /\ n \in Nat /\ DOMAIN rejected = 1 .. n /\ DOMAIN rejected' = 1 .. n + 1
        /\ rejected' = Append(rejected, e)
        /\ rejected'[n + 1] = e /\ \A k \in 1 .. n : rejected'[k] = rejected[k] /\ k \in 1 .. n + 1
    <3>1. rejected' = Append(rejected, e)
      BY <2>1 DEF e
    <3>2. QED
      BY <1>3, <2>2, <3>1
  <2> HIDE DEF n, entry
  <2>4. RefusalsReported'
    <3>1. LateOnes(rejected') = LateOnes(rejected)
      BY <1>3, <2>2, <2>3, LateOfAppend
    <3>2. Reported' = Reported
      BY <3>1, ReportedIs
    <3>3. QED
      BY <1>2, <2>3, <3>2 DEF RefusalsReported
  <2>5. AnswersBars'
    BY <1>2, <1>3, <1>5 DEF AnswersBars
  <2>6. OnTheWay = OnTheWay' \cup {o}
    BY <1>2, <1>3, <1>5 DEF OnTheWay
  <2>7. ASSUME NEW s \in Symbols PROVE InStep(s)'
    <3>1. CASE s = o.symbol
      <4>1. n + 1 \in 1 .. n + 1
        BY <2>3
      <4>2. ~ Clear(s)'
        <5>1. PICK t : t = o.timestamp
          OBVIOUS
        <5>2. ~ Exited(s, t)
          BY <1>1, <1>2, <1>4, <5>1, NoExitSince
        <5>3. ~ Exited(s, t)'
          BY <1>2, <5>2 DEF Exited
        <5>4. rejected'[n + 1].order.symbol = s /\ rejected'[n + 1].order.timestamp = t
          BY <2>2, <2>3, <3>1, <5>1
        <5>5. QED
          BY <2>3, <4>1, <5>3, <5>4 DEF Clear
      <4>3. QED
        BY <4>2 DEF InStep
    <3>2. CASE s # o.symbol
      <4>1. Coming(s)' = Coming(s)
        BY <2>6, <3>2 DEF Coming
      <4>2. Clear(s)' => Clear(s)
        BY <1>2, <2>3 DEF Clear, Exited
      <4>3. QED
        BY <1>2, <4>1, <4>2, InStepStays
    <3>3. QED
      BY <3>1, <3>2
  <2>8. QED
    BY <2>4, <2>5, <2>7
<1>6. CASE pending' = Append(pending, o) /\ rejected' = rejected
  <2>1. Items(pending') = Items(pending) \cup {o}
    BY <1>3, <1>6, ItemsOfAppend
  <2>2. OnTheWay' = OnTheWay
    BY <1>2, <1>3, <2>1 DEF OnTheWay
  <2>3. AnswersBars'
    <3>1. \E k \in DOMAIN job.bars :
             /\ job.bars[k].symbol = o.symbol /\ job.bars[k].timestamp = o.timestamp
             /\ k < cursor \/ k = cursor
      BY <1>4 DEF Market
    <3>2. QED
      BY <1>2, <1>3, <2>1, <3>1 DEF AnswersBars
  <2>4. ASSUME NEW s \in Symbols PROVE InStep(s)'
    <3>1. Coming(s)' = Coming(s) /\ Clear(s)' = Clear(s)
      BY <1>2, <1>6, <2>2, ClearStays DEF Coming
    <3>2. QED
      BY <1>2, <3>1, InStepStays
  <2>5. QED
    BY <1>2, <1>6, <2>3, <2>4, RefusalsStay
<1>7. QED
  BY <1>2, <1>5, <1>6

\* An order asks for what its signal means.
LEMMA GeneratedMeans ==
  ASSUME TypeInvariant, NEW e \in Signals
  PROVE  LET position == portfolio.positions[e.symbol].quantity IN
         \/ Generated(e) = <<>> /\ Effect(e, position, job.quantity) = 0
         \/ \E o \in Orders :
              /\ Generated(e) = <<o>> /\ o.symbol = e.symbol
              /\ Effect(o, position, job.quantity) = Effect(e, position, job.quantity)
<1> DEFINE position == portfolio.positions[e.symbol].quantity
           order(side, quantity) ==
             [id |-> nextOrder, timestamp |-> e.timestamp, symbol |-> e.symbol,
              side |-> side, quantity |-> quantity]
<1>1. /\ e.timestamp \in Nat /\ e.symbol \in Symbols /\ e.side \in {"BUY", "SELL", "EXIT"}
      /\ nextOrder \in Nat \ {0} /\ job.quantity \in Nat \ {0} /\ ~IsOrder(e)
  BY JobFacts, EventKinds DEF TypeInvariant, StepOK, Signals
<1>2. position \in Int
  BY <1>1 DEF TypeInvariant, AccountOK, Positions
<1>3. \A side \in Sides, quantity \in Nat \ {0} :
        /\ order(side, quantity) \in Orders /\ order(side, quantity).symbol = e.symbol
        /\ Effect(order(side, quantity), position, job.quantity) = Signed(side, quantity)
  <2>1. \A side \in Sides, quantity \in Nat \ {0} : order(side, quantity) \in Orders
    BY <1>1 DEF Orders
  <2>2. \A side \in Sides, quantity \in Nat \ {0} : IsOrder(order(side, quantity))
    BY <2>1, EventKinds
  <2>3. QED
    BY <2>1, <2>2 DEF Effect
<1>4. Effect(e, position, job.quantity) = IF e.side = "EXIT" THEN -position ELSE Signed(e.side, job.quantity)
  BY <1>1 DEF Effect
<1>5. CASE e.side # "EXIT"
  <2>1. Generated(e) = <<order(e.side, job.quantity)>>
    BY <1>5, Zenon DEF Generated
  <2>2. e.side \in Sides
    BY <1>1, <1>5 DEF Sides
  <2> HIDE DEF order, position
  <2>3. QED
    BY <1>1, <1>3, <1>4, <1>5, <2>1, <2>2 DEF position
<1>6. CASE e.side = "EXIT" /\ position > 0
  <2>1. ~ (position < 0) /\ position \in Nat \ {0} /\ Signed("SELL", position) = -position
    BY <1>2, <1>6 DEF Signed
  <2>2. Generated(e) = <<order("SELL", position)>>
    BY <1>6, <2>1, Zenon DEF Generated
  <2>3. "SELL" \in Sides
    BY DEF Sides
  <2> HIDE DEF order, position
  <2>4. QED
    BY <1>3, <1>4, <1>6, <2>1, <2>2, <2>3 DEF position
<1>7. CASE e.side = "EXIT" /\ position < 0
  <2>1. ~ (position > 0) /\ -position \in Nat \ {0} /\ Signed("BUY", -position) = -position
    BY <1>2, <1>7 DEF Signed
  <2>2. Generated(e) = <<order("BUY", -position)>>
    BY <1>7, <2>1, Zenon DEF Generated
  <2>3. "BUY" \in Sides
    BY DEF Sides
  <2> HIDE DEF order, position
  <2>4. QED
    BY <1>3, <1>4, <1>7, <2>1, <2>2, <2>3 DEF position
<1>8. CASE e.side = "EXIT" /\ ~ (position > 0) /\ ~ (position < 0)
  <2>1. Generated(e) = <<>>
    BY <1>8, Zenon DEF Generated
  <2>2. -position = 0
    BY <1>2, <1>8
  <2>3. QED
    BY <1>4, <1>8, <2>1, <2>2
<1>9. QED
  BY <1>5, <1>6, <1>7, <1>8

\* A signal becomes its order.
LEMMA BeliefInTakeSignal ==
  ASSUME EngineInvariant, AlternationInvariant, job.strategy.kind # "script", TakeSignal,
         Tail(queue) = <<>>, RefusalsReported, AnswersBars, \A s \in Symbols : InStep(s)
  PROVE  RefusalsReported' /\ AnswersBars' /\ \A s \in Symbols : InStep(s)'
<1>1. /\ UNCHANGED <<job, step, cursor, portfolio, strategy, rejected, pending, refused, still, accepted>>
      /\ step = "decide" /\ queue # <<>> /\ ~IsOrder(Head(queue))
      /\ queue' = Tail(queue) \o Generated(Head(queue)) /\ signals' = Append(signals, Head(queue))
  BY DEF TakeSignal, simulatorVars
<1>2. TypeInvariant /\ Life
  BY <1>1 DEF EngineInvariant, LifeInvariant, Healthy
<1>3. queue \in Seq(Events) /\ Head(queue) \in Signals /\ Items(pending) \subseteq Orders
  BY <1>2, TakeSignalMeans, QueueTypes DEF TakeSignalFacts
<1>4. PICK e \in Signals : e = Head(queue)
  BY <1>3
<1>5. Items(queue) = {e}
  <2>1. Items(queue) = {Head(queue)} \cup Items(Tail(queue))
    BY <1>1, <1>3, ItemsOfHead
  <2>2. QED
    BY <1>4, <2>1, ItemsOfNothing
<1>6. /\ e.symbol = Market.symbol /\ e.symbol \in Symbols /\ ~IsOrder(e) /\ e.timestamp = Market.timestamp
      /\ \A x \in Items(pending) : x.symbol # e.symbol
  <2>1. e.timestamp = Market.timestamp
    BY <1>1, <1>5 DEF EngineInvariant, TimeInvariant, Timing, OrdersTimed
  <2>2. QED
    BY <1>1, <1>4, <1>5, <2>1 DEF AnswersBars, Signals
<1>7. still = <<>> /\ accepted = <<>> /\ e \notin Items(pending)
  BY <1>1, <1>2, <1>3, <1>6, EventKinds DEF Life, EmptyQueues
<1>8. OnTheWay = Items(pending) \cup {e} /\ OnTheWay' = Items(pending) \cup Items(queue')
  BY <1>1, <1>5, <1>7, ItemsOfNothing DEF OnTheWay
<1>9. queue' = Generated(e)
  <2>1. PICK S : Generated(e) \in Seq(S)
    <3>1. Generated(e) = <<>> \/ \E o \in Orders : Generated(e) = <<o>>
      BY <1>2, GeneratedMeans
    <3>2. \A o \in Orders : <<o>> \in Seq(Orders)
      OBVIOUS
    <3>3. <<>> \in Seq(Orders)
      OBVIOUS
    <3>4. Generated(e) \in Seq(Orders)
      BY <3>1, <3>2, <3>3, Zenon
    <3>5. QED
      BY <3>4
  <2>2. <<>> \o Generated(e) = Generated(e)
    BY <2>1
  <2>3. queue' = <<>> \o Generated(e)
    BY <1>1, <1>4
  <2>4. QED
    BY <2>2, <2>3
<1> DEFINE n == Len(signals)
<1>10. /\ signals' = Append(signals, e) /\ signals \in Seq(Signals) /\ Items(signals') = Items(signals) \cup {e}
       /\ n \in Nat /\ DOMAIN signals = 1 .. n /\ DOMAIN signals' = 1 .. n + 1
       /\ signals'[n + 1] = e /\ \A k \in 1 .. n : signals'[k] = signals[k] /\ k \in 1 .. n + 1
  <2>1. signals' = Append(signals, e) /\ signals \in Seq(Signals)
    BY <1>1, <1>2, <1>4 DEF TypeInvariant, ListsOK
  <2>2. Items(signals') = Items(signals) \cup {e}
    BY <2>1, ItemsOfAppend
  <2>3. QED
    BY <2>1, <2>2
<1> HIDE DEF n
<1>11. ASSUME NEW s, e.symbol # s \/ e.side # "EXIT"
       PROVE  Clear(s)' = Clear(s)
  <2>1. \A t : Exited(s, t)' <=> Exited(s, t)
    <3>1. ASSUME NEW t, Exited(s, t) PROVE Exited(s, t)'
      BY <1>10, <3>1 DEF Exited
    <3>2. ASSUME NEW t, Exited(s, t)' PROVE Exited(s, t)
      <4>1. PICK k \in 1 .. n + 1 :
              signals'[k].symbol = s /\ signals'[k].side = "EXIT" /\ t < signals'[k].timestamp
        BY <1>10, <3>2 DEF Exited
      <4>2. k # n + 1
        BY <1>10, <1>11, <4>1
      <4>3. k \in 1 .. n
        BY <1>10, <4>2
      <4>4. QED
        BY <1>10, <4>1, <4>3 DEF Exited
    <3>3. QED
      BY <3>1, <3>2
  <2>2. QED
    BY <1>1, <2>1 DEF Clear
<1>12. ASSUME NEW s \in Symbols, \A x \in Items(queue') : x.symbol = e.symbol, s # e.symbol
       PROVE  InStep(s)'
  <2>1. Coming(s)' = Coming(s)
    BY <1>8, <1>12 DEF Coming
  <2>2. Clear(s)' = Clear(s)
    BY <1>12, <1>11
  <2>3. QED
    BY <1>1, <2>1, <2>2, InStepStays
<1>13. RefusalsReported'
  BY <1>1, RefusalsStay
<1>14. (\A x \in Items(queue') : x.symbol = Market.symbol) => AnswersBars'
  <2>1. Market' = Market /\ cursor \in DOMAIN job.bars
    BY <1>1, <1>2 DEF Market, TypeInvariant, StepOK, InBar
  <2>2. job.bars[cursor].symbol = e.symbol /\ job.bars[cursor].timestamp = e.timestamp
    BY <1>6 DEF Market
  <2>3. QED
    BY <1>1, <1>6, <1>10, <2>1, <2>2 DEF AnswersBars
<1> DEFINE position == portfolio.positions[e.symbol].quantity
           intended == Intended(strategy.belief[e.symbol])
<1>15. e.side = "EXIT" => intended = 0
  <2>1. Told = Append(signals, e) /\ Remembers(strategy.belief, Told)
    BY <1>1, <1>4, ToldIs DEF AlternationInvariant
  <2>2. Len(Append(signals, e)) = n + 1
    BY <1>10 DEF n
  <2>3. Entered(Append(signals, e), e.symbol, n + 1) <=> e.side # "EXIT"
    BY <1>10, EnteredAfter DEF n
  <2>4. strategy.belief[e.symbol] # "FLAT" <=> e.side # "EXIT"
    BY <1>6, <2>1, <2>2, <2>3 DEF Remembers
  <2>5. QED
    BY <2>4 DEF Intended
<1>16. ASSUME Clear(e.symbol)'
       PROVE  position + Effect(e, position, job.quantity) = intended
  <2>1. CASE e.side = "EXIT"
    <3>1. position \in Int /\ Effect(e, position, job.quantity) = -position
      BY <1>2, <1>6, <2>1 DEF Effect, TypeInvariant, AccountOK, Positions
    <3> HIDE DEF position, intended
    <3>2. QED
      BY <1>15, <2>1, <3>1
  <2>2. CASE e.side # "EXIT"
    <3>1. Balanced(Coming(e.symbol), position, intended, job.quantity) /\ e \in Coming(e.symbol)
      BY <1>6, <1>8, <1>16, <1>11, <2>2 DEF InStep, Coming
    <3> HIDE DEF position, intended
    <3>2. QED
      BY <3>1 DEF Balanced
  <2>3. QED
    BY <2>1, <2>2
<1>17. CASE Generated(e) = <<>> /\ Effect(e, position, job.quantity) = 0
  <2>1. Items(queue') = {}
    BY <1>9, <1>17, ItemsOfNothing
  <2>2. AnswersBars' /\ \A s \in Symbols : s # e.symbol => InStep(s)'
    BY <1>12, <1>14, <2>1
  <2>3. ASSUME Clear(e.symbol)' PROVE Balanced(Coming(e.symbol)', position, intended, job.quantity)
    <3>1. Coming(e.symbol)' = {}
      BY <1>6, <1>8, <2>1 DEF Coming
    <3>2. position \in Int
      BY <1>2, <1>6 DEF TypeInvariant, AccountOK, Positions
    <3> HIDE DEF position, intended
    <3>3. position = intended
      BY <1>16, <1>17, <2>3, <3>2
    <3>4. QED
      BY <3>1, <3>3 DEF Balanced
  <2>4. InStep(e.symbol)'
    BY <1>1, <2>3 DEF InStep, Intended
  <2>5. QED
    BY <1>13, <2>2, <2>4
<1>18. ASSUME NEW o \in Orders, Generated(e) = <<o>>, o.symbol = e.symbol,
              Effect(o, position, job.quantity) = Effect(e, position, job.quantity)
       PROVE  RefusalsReported' /\ AnswersBars' /\ \A s \in Symbols : InStep(s)'
  <2>1. Items(queue') = {o}
    <3>1. queue' = <<o>>
      BY <1>9, <1>18
    <3>2. DOMAIN <<o>> = {1} /\ <<o>>[1] = o
      OBVIOUS
    <3>3. Items(<<o>>) = {o}
      BY <3>2 DEF Items
    <3>4. QED
      BY <3>1, <3>3
  <2>2. AnswersBars' /\ \A s \in Symbols : s # e.symbol => InStep(s)'
    BY <1>6, <1>12, <1>14, <1>18, <2>1
  <2>3. ASSUME Clear(e.symbol)' PROVE Balanced(Coming(e.symbol)', position, intended, job.quantity)
    <3>1. Coming(e.symbol)' = {o}
      BY <1>6, <1>8, <1>18, <2>1 DEF Coming
    <3> HIDE DEF position, intended
    <3>2. position + Effect(o, position, job.quantity) = intended
      BY <1>16, <1>18, <2>3
    <3>3. QED
      BY <3>1, <3>2 DEF Balanced
  <2>4. InStep(e.symbol)'
    BY <1>1, <2>3 DEF InStep, Intended
  <2>5. QED
    BY <1>13, <2>2, <2>4
<1>19. QED
  BY <1>2, <1>17, <1>18, GeneratedMeans

\* Of the bar's symbol no order waits when the strategy is called.
LEMMA NothingComes ==
  ASSUME EngineInvariant, step = "strategy", AnswersBars
  PROVE  Coming(Market.symbol) = {} /\ still = <<>> /\ accepted = <<>> /\ queue = <<>>
<1>1. TypeInvariant /\ Life
  BY DEF EngineInvariant, LifeInvariant, Healthy
<1>2. queue = <<>> /\ still = <<>> /\ accepted = <<>>
  BY <1>1 DEF Life, EmptyQueues
<1>3. OnTheWay = Items(pending)
  BY <1>2, ItemsOfNothing DEF OnTheWay
<1>4. ASSUME NEW o \in Items(pending), o.symbol = Market.symbol PROVE FALSE
  <2>1. PICK k \in DOMAIN job.bars :
          job.bars[k].symbol = o.symbol /\ job.bars[k].timestamp = o.timestamp /\ k < cursor
    BY DEF AnswersBars
  <2>2. /\ cursor \in DOMAIN job.bars /\ job.bars \in Seq(Bars) /\ Chronological(job.bars)
        /\ DOMAIN job.bars \subseteq Nat
    BY <1>1, JobFacts, BarsInOrder DEF TypeInvariant, InBar
  <2>3. o.timestamp <= Market.timestamp /\ o.timestamp # Market.timestamp
    <3>1. /\ job.bars[k].timestamp <= job.bars[cursor].timestamp
          /\ job.bars[k].timestamp = job.bars[cursor].timestamp => job.bars[k].symbol # job.bars[cursor].symbol
      BY <2>1, <2>2 DEF Chronological
    <3>2. QED
      BY <1>4, <2>1, <3>1 DEF Market
  <2>4. o.timestamp \in Nat /\ Market.timestamp \in Nat
    <3>1. job.bars[k] \in Bars /\ job.bars[cursor] \in Bars
      BY <2>2
    <3>2. QED
      BY <2>1, <3>1 DEF Bars, Market
  <2>5. cursor \in Later(job.bars, o)
    BY <1>4, <2>2, <2>3, <2>4 DEF Later, Market
  <2>6. cursor > Processed
    BY <2>5 DEF EngineInvariant, TimeInvariant, Timing, WaitingTimed, Waits
  <2>7. Processed = cursor /\ cursor \in Nat
    BY <2>2, ProcessedIs
  <2>8. QED
    BY <2>6, <2>7
<1>5. QED
  BY <1>2, <1>3, <1>4 DEF Coming

\* What the strategy asks for is what it then believes.
LEMMA BeliefInCallStrategy ==
  ASSUME EngineInvariant, WindowInvariant, CallStrategy, step' # "idle", job.strategy.kind # "script",
         RefusalsReported, AnswersBars, \A s \in Symbols : InStep(s)
  PROVE  RefusalsReported' /\ AnswersBars' /\ \A s \in Symbols : InStep(s)'
<1>1. CallStrategyFacts /\ Replies /\ TypeInvariant
  BY CallStrategyMeans, StrategyReplies DEF EngineInvariant
<1>2. /\ UNCHANGED <<job, cursor, portfolio, signals, rejected, pending, refused, still, accepted>>
      /\ step = "strategy" /\ step' = "decide" /\ queue' = Answer.signals
  BY <1>1, Zenon DEF CallStrategyFacts, Raise, simulatorVars
<1>3. /\ Coming(Market.symbol) = {} /\ still = <<>> /\ accepted = <<>> /\ queue = <<>>
      /\ Market.symbol \in Symbols
  BY <1>1, <1>2, NothingComes, MarketIsABar DEF InBar
<1>4. OnTheWay = Items(pending) /\ OnTheWay' = Items(pending) \cup Items(queue')
  BY <1>2, <1>3, ItemsOfNothing DEF OnTheWay
<1>5. RefusalsReported' /\ \A s : Clear(s)' = Clear(s)
  BY <1>2, RefusalsStay, ClearStays
<1>6. Market' = Market
  BY <1>2 DEF Market
<1>7. (\A x \in Items(queue') : x.symbol = Market.symbol) => AnswersBars'
  <2>1. \A o \in Items(pending) : o.symbol # Market.symbol
    BY <1>3, <1>4 DEF Coming
  <2>2. QED
    BY <1>2, <1>6, <2>1 DEF AnswersBars
<1>8. CASE Answer.signals = <<>> /\ strategy'.belief = strategy.belief
  <2>1. Items(queue') = {}
    BY <1>2, <1>8, ItemsOfNothing
  <2>2. ASSUME NEW s \in Symbols PROVE InStep(s)'
    <3>1. Coming(s)' = Coming(s)
      BY <1>4, <2>1 DEF Coming
    <3>2. QED
      BY <1>2, <1>5, <1>8, <3>1, InStepStays
  <2>3. QED
    BY <1>5, <1>7, <2>1, <2>2
<1>9. ASSUME NEW e \in Signals, Answer.signals = <<e>>, e.symbol = Market.symbol,
             e.side = "EXIT" <=> strategy.belief[e.symbol] # "FLAT",
             strategy'.belief = [strategy.belief EXCEPT ![e.symbol] = Strat!BeliefAfter(e.side)]
      PROVE  RefusalsReported' /\ AnswersBars' /\ \A s \in Symbols : InStep(s)'
  <2>1. Items(queue') = {e}
    <3>1. DOMAIN <<e>> = {1} /\ <<e>>[1] = e
      OBVIOUS
    <3>2. Items(<<e>>) = {e}
      BY <3>1 DEF Items
    <3>3. QED
      BY <1>2, <1>9, <3>2
  <2>2. strategy.belief \in [Symbols -> Strat!Beliefs]
    BY DEF WindowInvariant, StrategyStates
  <2>3. ASSUME NEW s \in Symbols, s # e.symbol PROVE InStep(s)'
    <3>1. Coming(s)' = Coming(s)
      BY <1>4, <2>1, <2>3 DEF Coming
    <3>2. strategy'.belief[s] = strategy.belief[s]
      BY <1>9, <2>2, <2>3
    <3>3. QED
      BY <1>2, <1>5, <3>1, <3>2, InStepStays
  <2>4. InStep(e.symbol)'
    <3> DEFINE position == portfolio.positions[e.symbol].quantity
               before == strategy.belief[e.symbol]
    <3>1. ASSUME Clear(e.symbol) PROVE position = Intended(before)
      BY <1>3, <1>9, <3>1 DEF InStep, Balanced
    <3>2. Coming(e.symbol)' = {e}
      BY <1>3, <1>4, <1>9, <2>1 DEF Coming
    <3>3. strategy'.belief[e.symbol] = Strat!BeliefAfter(e.side)
      BY <1>3, <1>9, <2>2
    <3>4. position \in Int /\ job.quantity \in Nat
      BY <1>1, <1>3, <1>9, JobFacts DEF TypeInvariant, AccountOK, Positions
    <3>5. ASSUME position = Intended(before)
          PROVE  position + Effect(e, position, job.quantity) = Intended(Strat!BeliefAfter(e.side))
      <4>1. ~IsOrder(e) /\ e.side \in {"BUY", "SELL", "EXIT"}
        BY EventKinds DEF Signals
      <4>2. CASE e.side = "EXIT"
        BY <3>4, <4>1, <4>2 DEF Effect, Intended, Strat!BeliefAfter
      <4>3. CASE e.side # "EXIT"
        <5>1. before = "FLAT" /\ position = 0
          BY <1>9, <3>5, <4>3 DEF Intended
        <5>2. Effect(e, position, job.quantity) = Signed(e.side, job.quantity)
          BY <4>1, <4>3 DEF Effect
        <5>3. Signed(e.side, job.quantity) = Intended(Strat!BeliefAfter(e.side))
          BY <4>1, <4>3 DEF Signed, Intended, Strat!BeliefAfter
        <5>4. Signed(e.side, job.quantity) \in Int
          BY <3>4 DEF Signed
        <5> HIDE DEF position
        <5>5. QED
          BY <5>1, <5>2, <5>3, <5>4
      <4>4. QED
        BY <4>2, <4>3
    <3> DEFINE after == Intended(Strat!BeliefAfter(e.side))
    <3>6. ASSUME Clear(e.symbol) PROVE Balanced({e}, position, after, job.quantity)
      <4>1. position + Effect(e, position, job.quantity) = after
        BY <3>1, <3>5, <3>6
      <4> HIDE DEF position, after
      <4>2. QED
        BY <4>1 DEF Balanced
    <3>7. Intended(Strat!BeliefAfter(e.side))' = after
      BY <1>2 DEF Intended
    <3>8. QED
      BY <1>2, <1>5, <3>2, <3>3, <3>6, <3>7 DEF InStep, Intended
  <2>5. QED
    BY <1>5, <1>7, <1>9, <2>1, <2>3, <2>4
<1>10. QED
  BY <1>1, <1>8, <1>9 DEF Replies

\* A run begins flat, with nothing on the way.
LEMMA BeliefInStartRun ==
  ASSUME TypeInvariant, StartRun
  PROVE  RefusalsReported' /\ AnswersBars' /\ \A s \in Symbols : InStep(s)'
<1>1. /\ job' = job /\ step' = "warmup" /\ queue' = <<>> /\ signals' = <<>> /\ rejected' = <<>>
      /\ portfolio' = NewPortfolio(job.capital, job.allowShort) /\ strategy' = Strat!FreshStrategy
      /\ pending' = <<>> /\ refused' = <<>> /\ still' = <<>> /\ accepted' = <<>>
  BY DEF StartRun, ResetParts, ResetSimulator
<1>2. OnTheWay' = {} /\ Items(<<>>) = {}
  BY <1>1, ItemsOfNothing DEF OnTheWay
<1>3. RefusalsReported'
  <2>1. LateOnes(<<>>) = {} /\ Len(<<>>) = 0 /\ DOMAIN <<>> = {}
    BY DEF LateOnes
  <2>2. Reported' = 0
    BY <1>1, <2>1, ReportedIs, FS_EmptySet
  <2>3. QED
    BY <1>1, <2>1, <2>2 DEF RefusalsReported
<1>4. AnswersBars'
  BY <1>1, <1>2 DEF AnswersBars
<1>5. ASSUME NEW s \in Symbols PROVE InStep(s)'
  <2>1. Coming(s)' = {}
    BY <1>2 DEF Coming
  <2>2. portfolio'.positions[s].quantity = 0
    BY <1>1 DEF NewPortfolio, FlatPosition
  <2>3. Intended(strategy.belief[s])' = 0
    BY <1>1 DEF Intended, Strat!FreshStrategy
  <2>4. Balanced(Coming(s)', portfolio'.positions[s].quantity, Intended(strategy.belief[s])', job'.quantity)
    BY <2>1, <2>2, <2>3 DEF Balanced
  <2>5. QED
    BY <2>4 DEF InStep
<1>6. QED
  BY <1>3, <1>4, <1>5

\* Steps that move nothing.
LEMMA BeliefStays ==
  ASSUME UNCHANGED <<job, queue, signals, rejected, pending, refused, still, accepted>>,
         portfolio'.positions = portfolio.positions, strategy'.belief = strategy.belief,
         RefusalsReported, \A s \in Symbols : InStep(s), step # "execute"
  PROVE  RefusalsReported' /\ \A s \in Symbols : InStep(s)'
<1>1. RefusalsReported'
  BY RefusalsStay
<1>2. ASSUME NEW s \in Symbols PROVE InStep(s)'
  <2>1. Coming(s)' = Coming(s)
    BY DEF Coming, OnTheWay
  <2>2. Clear(s)' = Clear(s)
    BY ClearStays
  <2>3. QED
    BY <2>1, <2>2, InStepStays
<1>3. QED
  BY <1>1, <1>2

\* Every step keeps the beliefs.
LEMMA BeliefIsKept == StepInvariant /\ [Next]_vars => BeliefInvariant'
<1> SUFFICES ASSUME StepInvariant, [Next]_vars, job'.strategy.kind # "script", step' # "idle"
             PROVE  RefusalsReported' /\ AnswersBars' /\ \A s \in Symbols : InStep(s)'
  BY DEF BeliefInvariant
<1>1. EngineInvariant /\ TypeInvariant /\ WindowInvariant /\ AlternationInvariant
  BY DEF StepInvariant, EngineInvariant
<1>2. job' = job /\ job.strategy.kind # "script"
  BY JobIsKept
<1>3. step # "idle" => RefusalsReported /\ AnswersBars /\ \A s \in Symbols : InStep(s)
  BY <1>2 DEF StepInvariant, BeliefInvariant
<1>4. step = "decide" => queue = <<>> \/ Tail(queue) = <<>>
  BY <1>1, <1>2 DEF AlternationInvariant
<1>5. CASE UNCHANGED vars
  <2>1. Reported' = Reported /\ Market' = Market /\ OnTheWay' = OnTheWay
    BY <1>5 DEF Reported, Market, OnTheWay, vars, runVars, simulatorVars
  <2>2. RefusalsReported' /\ AnswersBars'
    BY <1>3, <1>5, <2>1 DEF RefusalsReported, AnswersBars, vars, runVars, simulatorVars
  <2>3. ASSUME NEW s \in Symbols PROVE InStep(s)'
    <3>1. InStep(s) /\ Coming(s)' = Coming(s) /\ Clear(s)' = Clear(s)
      BY <1>3, <1>5, <2>1 DEF Coming, Clear, Exited, vars, runVars, simulatorVars
    <3>2. QED
      BY <1>5, <3>1, InStepStays DEF vars, runVars
  <2>4. QED
    BY <2>2, <2>3
<1>6. CASE StartRun
  BY <1>1, <1>6, BeliefInStartRun
<1>7. CASE ExecuteOrder
  BY <1>1, <1>3, <1>7, BeliefInExecuteOrder DEF ExecuteOrder
<1>8. CASE EndExecution
  BY <1>1, <1>3, <1>8, BeliefInEndExecution DEF EndExecution
<1>9. CASE ApplyNext
  BY <1>1, <1>3, <1>9, BeliefInApplyNext DEF ApplyNext
<1>10. CASE CallStrategy
  BY <1>1, <1>2, <1>3, <1>10, BeliefInCallStrategy DEF CallStrategy
<1>11. CASE TakeSignal
  <2>1. step = "decide" /\ queue # <<>>
    BY <1>11 DEF TakeSignal
  <2>2. QED
    BY <1>1, <1>2, <1>3, <1>4, <1>11, <2>1, BeliefInTakeSignal
<1>12. CASE TakeOrder
  <2>1. step = "decide" /\ queue # <<>>
    BY <1>12 DEF TakeOrder
  <2>2. QED
    BY <1>1, <1>3, <1>4, <1>12, <2>1, BeliefInTakeOrder
<1>13. CASE FinishRun
  BY <1>13, Zenon DEF FinishRun, Raise
<1>14. CASE WarmUp \/ BeginEvaluation
  <2>1. /\ UNCHANGED <<queue, signals, rejected, pending, refused, still, accepted>> /\ portfolio' = portfolio
        /\ step = "warmup"
    BY <1>14 DEF WarmUp, BeginEvaluation, simulatorVars
  <2>2. strategy'.belief = strategy.belief
    BY <1>1, <1>2, <1>14, WarmUpIsSilent DEF BeginEvaluation
  <2>3. pending = <<>> /\ still = <<>> /\ signals = <<>> /\ step' # "decide"
    <3>1. step' # "decide"
      BY <1>14, Zenon DEF WarmUp, BeginEvaluation, Raise
    <3>2. QED
      BY <1>3, <2>1, <3>1 DEF AnswersBars
  <2>4. AnswersBars'
    BY <2>1, <2>3, ItemsOfNothing DEF AnswersBars
  <2>5. QED
    BY <1>2, <1>3, <2>1, <2>2, <2>4, BeliefStays
<1>15. CASE NextBar \/ MarkBar \/ EndBar
  <2>1. /\ UNCHANGED <<queue, signals, rejected, pending, refused, still, accepted>>
        /\ strategy' = strategy /\ step' \notin {"decide", "warmup"} /\ step \in {"bar", "apply", "decide"}
        /\ (cursor' = cursor /\ step # "decide") \/ (step = "decide" /\ cursor' = cursor + 1)
    BY <1>15 DEF NextBar, MarkBar, EndBar, simulatorVars
  <2>2. portfolio'.positions = portfolio.positions
    <3>1. CASE MarkBar
      <4>1. Market \in Bars
        BY <1>1, <3>1, MarketIsABar DEF MarkBar, InBar
      <4>2. QED
        BY <1>1, <3>1, <4>1, MarkKeepsAccount DEF MarkBar, TypeInvariant
    <3>2. CASE NextBar \/ EndBar
      BY <3>2 DEF NextBar, EndBar
    <3>3. QED
      BY <1>15, <3>1, <3>2
  <2>3. AnswersBars'
    <3> SUFFICES ASSUME NEW o \in Items(pending) \cup Items(still) \cup Items(signals)
                 PROVE  \E k \in DOMAIN job.bars :
                          /\ job.bars[k].symbol = o.symbol /\ job.bars[k].timestamp = o.timestamp
                          /\ k < cursor'
      BY <1>2, <2>1 DEF AnswersBars
    <3>1. PICK k \in DOMAIN job.bars :
            /\ job.bars[k].symbol = o.symbol /\ job.bars[k].timestamp = o.timestamp
            /\ k < cursor \/ (k = cursor /\ step = "decide")
      BY <1>3, <2>1 DEF AnswersBars
    <3>2. k \in Nat /\ cursor \in Nat
      BY <1>1, JobFacts DEF TypeInvariant, StepOK
    <3>3. k < cursor'
      BY <2>1, <3>1, <3>2
    <3>4. QED
      BY <3>1, <3>3
  <2>4. step # "idle" /\ step # "execute"
    BY <2>1
  <2>5. QED
    BY <1>2, <1>3, <2>1, <2>2, <2>3, <2>4, BeliefStays
<1>16. QED
  BY <1>5, <1>6, <1>7, <1>8, <1>9, <1>10, <1>11, <1>12, <1>13, <1>14, <1>15
     DEF Next, RunStep, Execute, Decide

\* Nothing has been told, seen or asked for before the first run.
LEMMA StepsInitially == Init => WindowInvariant /\ AlternationInvariant /\ BeliefInvariant
<1> SUFFICES ASSUME Init PROVE WindowInvariant /\ AlternationInvariant /\ BeliefInvariant
  OBVIOUS
<1>1. step = "idle" /\ strategy = Strat!FreshStrategy /\ signals = <<>>
  BY DEF Init
<1>2. Alternate(<<>>)
  BY DEF Alternate
<1>3. QED
  BY <1>1, <1>2, FreshIsAState DEF WindowInvariant, AlternationInvariant, BeliefInvariant

\* What the properties say of a state.
LEMMA StepsMean == StepInvariant => StrategiesAreInStep
<1> SUFFICES ASSUME StepInvariant PROVE StrategiesAreInStep
  OBVIOUS
<1>1. WindowIsRecent
  BY WindowsMean DEF StepInvariant
<1>2. ASSUME job.strategy.kind # "script", step = "strategy",
             \A r \in DOMAIN rejected : rejected[r].order.symbol = Market.symbol =>
               Exited(Market.symbol, rejected[r].order.timestamp)
      PROVE  portfolio.positions[Market.symbol].quantity = Intended(strategy.belief[Market.symbol])
  <2>1. RefusalsReported /\ AnswersBars /\ \A s \in Symbols : InStep(s)
    BY <1>2 DEF StepInvariant, BeliefInvariant
  <2>2. Market.symbol \in Symbols
    BY <1>2, MarketIsABar DEF StepInvariant, EngineInvariant, InBar
  <2>3. Clear(Market.symbol)
    BY <1>2, <2>1, ClearIs
  <2>4. Coming(Market.symbol) = {}
    BY <1>2, <2>1, NothingComes DEF StepInvariant
  <2>5. QED
    BY <2>1, <2>2, <2>3, <2>4 DEF InStep, Balanced
<1>3. job.strategy.kind # "script" => Alternate(signals)
  BY DEF StepInvariant, AlternationInvariant
<1>4. BeliefIsPosition
  BY <1>2, <1>3 DEF BeliefIsPosition, Alternate
<1>5. QED
  BY <1>1, <1>4 DEF StrategiesAreInStep

\* Through warm-up, evaluation, reruns and rejected orders, a strategy of the package
\* decides from the last closes of the symbol, asks for entries and exits in turn, and
\* holds what it believes to hold unless an order of the symbol was rejected and no exit
\* of it was signalled since.
THEOREM StrategiesStayInStep == Spec => []StrategiesAreInStep
<1>1. Init => WindowInvariant /\ AlternationInvariant /\ BeliefInvariant
  BY StepsInitially
<1>2. EngineInvariant /\ EngineInvariant' /\ (WindowInvariant /\ AlternationInvariant /\ BeliefInvariant) /\ [Next]_vars
        => (WindowInvariant /\ AlternationInvariant /\ BeliefInvariant)'
  BY WindowsAreKept, AlternationIsKept, BeliefIsKept DEF StepInvariant, EngineInvariant
<1>3. EngineInvariant /\ WindowInvariant /\ AlternationInvariant /\ BeliefInvariant => StrategiesAreInStep
  BY StepsMean DEF StepInvariant
<1>4. QED
  BY <1>1, <1>2, <1>3, EngineInvariantHolds, PTL DEF Spec

-----------------------------------------------------------------------------
(***************************************************************************)
(* Exposures at prices that stand still                                    *)
(***************************************************************************)
\* The price of a symbol, when it has one.
PriceOf(s) ==
  IF \E k \in DOMAIN job.bars : job.bars[k].symbol = s
  THEN job.bars[CHOOSE k \in DOMAIN job.bars : job.bars[k].symbol = s].close ELSE 0

\* What the positions are worth at it, as they are and with o added.
Worth(p) == [s \in Symbols |-> Whole(p.positions[s].quantity * PriceOf(s))]
WorthWith(p, o) ==
  [Worth(p) EXCEPT ![o.symbol] =
     Whole((p.positions[o.symbol].quantity + Signed(o.side, o.quantity)) * PriceOf(o.symbol))]

Sizes(values) == [s \in Symbols |-> Absolute(values[s])]

\* Positions of these values are within the limits, of a portfolio worth the capital.
Fits(values) ==
  /\ Within(Total(Sizes(values)), job.limits.gross)
  /\ Within(Absolute(Total(values)), job.limits.net)
  /\ job.limits.grossPct # None =>
       Total(Sizes(values)) \preceq (job.limits.grossPct ** Whole(job.capital))

\* Prices are integers, and the worth of positions a fraction.
LEMMA PriceType == ASSUME job \in Jobs, NEW s PROVE PriceOf(s) \in Int
<1>1. \A k \in DOMAIN job.bars : job.bars[k].close \in Int
  <2>1. \A k \in DOMAIN job.bars : job.bars[k] \in Bars
    BY JobFacts
  <2>2. QED
    BY <2>1 DEF Bars
<1> DEFINE c == CHOOSE k \in DOMAIN job.bars : job.bars[k].symbol = s
<1>2. (\E k \in DOMAIN job.bars : job.bars[k].symbol = s) => c \in DOMAIN job.bars
  BY Zenon
<1>3. PriceOf(s) = IF \E k \in DOMAIN job.bars : job.bars[k].symbol = s THEN job.bars[c].close ELSE 0
  BY Zenon DEF PriceOf
<1> HIDE DEF c
<1>4. QED
  BY <1>1, <1>2, <1>3

\* When prices stand still, every bar has its symbol's price.
LEMMA PriceIs ==
  ASSUME job \in Jobs, SteadyPrices, NEW k \in DOMAIN job.bars
  PROVE  job.bars[k].open = PriceOf(job.bars[k].symbol) /\ job.bars[k].close = PriceOf(job.bars[k].symbol)
<1> DEFINE c == CHOOSE l \in DOMAIN job.bars : job.bars[l].symbol = job.bars[k].symbol
<1>1. c \in DOMAIN job.bars /\ job.bars[c].symbol = job.bars[k].symbol
  OBVIOUS
<1>2. PriceOf(job.bars[k].symbol) = job.bars[c].close
  BY Zenon DEF PriceOf
<1> HIDE DEF c
<1>3. job.bars[k].open = job.bars[c].close /\ job.bars[k].close = job.bars[c].close
  BY <1>1 DEF SteadyPrices
<1>4. QED
  BY <1>2, <1>3

LEMMA WorthType ==
  ASSUME job \in Jobs, NEW p, AccountOK(p)
  PROVE  /\ DOMAIN Worth(p) = Symbols
         /\ \A s \in Symbols :
              /\ p.positions[s].quantity * PriceOf(s) \in Int
              /\ Worth(p)[s] = Whole(p.positions[s].quantity * PriceOf(s)) /\ Worth(p)[s] \in Fractions
<1> SUFFICES ASSUME NEW s \in Symbols
             PROVE  /\ p.positions[s].quantity * PriceOf(s) \in Int
                    /\ Worth(p)[s] = Whole(p.positions[s].quantity * PriceOf(s)) /\ Worth(p)[s] \in Fractions
  BY DEF Worth
<1>1. p.positions[s].quantity \in Int /\ PriceOf(s) \in Int
  BY PriceType DEF AccountOK, Positions
<1>2. p.positions[s].quantity * PriceOf(s) \in Int
  BY <1>1
<1>3. QED
  BY <1>2, WholeIsFraction DEF Worth

\* The worth with an order added, place by place.
LEMMA WorthWithType ==
  ASSUME job \in Jobs, NEW p, AccountOK(p), NEW o, o.symbol \in Symbols, Signed(o.side, o.quantity) \in Int
  PROVE  LET new == p.positions[o.symbol].quantity + Signed(o.side, o.quantity)
         IN  /\ new \in Int /\ new * PriceOf(o.symbol) \in Int
             /\ DOMAIN WorthWith(p, o) = Symbols
             /\ WorthWith(p, o)[o.symbol] = Whole(new * PriceOf(o.symbol))
             /\ \A s \in Symbols \ {o.symbol} : WorthWith(p, o)[s] = Worth(p)[s]
             /\ \A s \in Symbols : WorthWith(p, o)[s] \in Fractions
<1> DEFINE new == p.positions[o.symbol].quantity + Signed(o.side, o.quantity)
<1>1. new \in Int /\ PriceOf(o.symbol) \in Int
  BY PriceType DEF AccountOK, Positions
<1>2. new * PriceOf(o.symbol) \in Int
  BY <1>1
<1> HIDE DEF new
<1>3. WorthWith(p, o) = [Worth(p) EXCEPT ![o.symbol] = Whole(new * PriceOf(o.symbol))]
  BY DEF WorthWith, new
<1>4. /\ DOMAIN WorthWith(p, o) = Symbols
      /\ WorthWith(p, o)[o.symbol] = Whole(new * PriceOf(o.symbol))
      /\ \A s \in Symbols \ {o.symbol} : WorthWith(p, o)[s] = Worth(p)[s]
  BY <1>3 DEF Worth
<1>5. \A s \in Symbols : WorthWith(p, o)[s] \in Fractions
  BY <1>2, <1>4, WorthType, WholeIsFraction
<1>6. QED
  BY <1>1, <1>2, <1>4, <1>5 DEF new

\* Held positions marked at the price are worth what the portfolio says.
LEMMA ValuesAreWorth ==
  ASSUME job \in Jobs, SteadyPrices, NEW p, AccountOK(p),
         \A s \in Symbols : p.positions[s].quantity # 0 =>
           \E k \in DOMAIN job.bars : job.bars[k].symbol = s /\ p.marks[s] = job.bars[k].close
  PROVE  MarketValues(p) = Worth(p)
<1>1. ASSUME NEW s \in Symbols
      PROVE  p.positions[s].quantity * p.marks[s] = p.positions[s].quantity * PriceOf(s)
  <2>1. p.positions[s].quantity \in Int /\ PriceOf(s) \in Int /\ p.marks[s] \in Int
    BY PriceType DEF AccountOK, Positions
  <2>2. CASE p.positions[s].quantity = 0
    <3>1. \A m \in Int : 0 * m = 0
      OBVIOUS
    <3>2. QED
      BY <2>1, <2>2, <3>1
  <2>3. CASE p.positions[s].quantity # 0
    BY <2>3, PriceIs
  <2>4. QED
    BY <2>2, <2>3
<1>2. QED
  BY <1>1, Zenon DEF MarketValues, Worth

\* The order of fractions.
LEMMA FractionsOrdered ==
  ASSUME NEW a \in Fractions, NEW b \in Fractions, NEW c \in Fractions
  PROVE  /\ a \preceq b /\ b \preceq c => a \preceq c
         /\ ~(a \prec b) <=> b \preceq a
         /\ a \prec b => a \preceq b
<1>1. PICK d \in Nat \ {0} : a \in Grid(d) /\ b \in Grid(d) /\ c \in Grid(d)
  <2>1. PICK e \in Nat \ {0} : a \in Grid(e)
    BY FractionOnGrid
  <2>2. PICK f \in Nat \ {0} : a \in Grid(f) /\ b \in Grid(f)
    BY <2>1, TwoOnGrid
  <2>3. QED
    BY <2>2, TwoOnGrid
<1>2. Units(a, d) \in Int /\ Units(b, d) \in Int /\ Units(c, d) \in Int
  BY <1>1, GridFacts
<1>3. /\ a \preceq b <=> Units(a, d) <= Units(b, d)
      /\ b \preceq c <=> Units(b, d) <= Units(c, d)
      /\ a \preceq c <=> Units(a, d) <= Units(c, d)
      /\ b \preceq a <=> Units(b, d) <= Units(a, d)
      /\ a \prec b <=> Units(a, d) < Units(b, d)
  BY <1>1, GridOrders
<1>4. QED
  BY <1>2, <1>3

\* A share of a positive whole is within a limit as what it is a share of is.
LEMMA ShareIs ==
  ASSUME NEW g \in Fractions, NEW l \in Fractions, NEW c \in Nat \ {0}
  PROVE  /\ g // Whole(c) \in Fractions /\ l ** Whole(c) \in Fractions
         /\ g // Whole(c) \preceq l <=> g \preceq (l ** Whole(c))
<1>1. /\ Whole(c) \in Fractions /\ Whole(c) \in Quotients /\ Whole(c).n = c /\ Whole(c).d = 1
      /\ g \in Quotients /\ l \in Quotients
  BY WholeIsFraction, WholeType, FractionsAreQuotients
<1>2. g.n \in Int /\ g.d \in Nat \ {0} /\ l.n \in Int /\ l.d \in Nat \ {0}
  BY <1>1, Typing
<1>3. g // Whole(c) = Ratio(g.n, g.d * c)
  <2>1. g // Whole(c) = Ratio(g.n * 1, g.d * c)
    BY <1>1, QuotientIsRatio
  <2>2. g.n * 1 = g.n
    BY <1>2
  <2>3. QED
    BY <2>1, <2>2
<1>4. l ** Whole(c) = Ratio(l.n * c, l.d)
  <2>1. l ** Whole(c) = Ratio(l.n * c, l.d * 1)
    BY <1>1, OperationsAreRatios
  <2>2. l.d * 1 = l.d
    BY <1>2
  <2>3. QED
    BY <2>1, <2>2
<1>5. g.d * c \in Nat \ {0} /\ l.n * c \in Int
  <2>1. \A x \in Nat \ {0}, y \in Nat \ {0} : x * y \in Nat \ {0}
    OBVIOUS
  <2>2. QED
    BY <1>2, <2>1
<1>6. Ratio(g.n, g.d * c) \preceq l <=> g.n * l.d <= l.n * (g.d * c)
  BY <1>1, <1>2, <1>5, RatioIsOrdered
<1>7. g \preceq Ratio(l.n * c, l.d) <=> g.n * l.d <= (l.n * c) * g.d
  BY <1>1, <1>2, <1>5, RatioIsOrdered
<1>8. l.n * (g.d * c) = (l.n * c) * g.d
  BY <1>2
<1>9. QED
  BY <1>1, <1>2, <1>3, <1>4, <1>5, <1>6, <1>7, <1>8, RatioFacts

\* What a decision approves passes each limit.
LEMMA ApprovedPasses ==
  ASSUME NEW o, NEW p, NEW price, NEW limits, Decision(o, p, price, limits) = Approved,
         NEW k \in {"position", "gross", "net", "positionPct", "grossPct"}, limits[k] # None
  PROVE  LET current == p.positions[o.symbol].quantity
             before == Exposure(p, o.symbol, current, price)
             after == Exposure(p, o.symbol, current + Signed(o.side, o.quantity), price)
         IN  ~Exceeds(before[k], after[k], limits[k])
<1> DEFINE current == p.positions[o.symbol].quantity
           before == Exposure(p, o.symbol, current, price)
           after == Exposure(p, o.symbol, current + Signed(o.side, o.quantity), price)
<1>1. Approved # "SHORT_SELLING_DISABLED" /\ Approved # "INSUFFICIENT_CASH"
  BY DEF Approved
<1>2. LimitDecision(before, after, limits) = Approved
  BY <1>1, Zenon DEF Decision
<1> HIDE DEF before, after
<1> DEFINE undefined(x) == before[x] = None \/ after[x] = None
           refuses(i) == LET x == Checks[i][1] IN
             limits[x] # None /\ (undefined(x) \/ Exceeds(before[x], after[x], limits[x]))
           first(i) == refuses(i) /\ \A j \in 1 .. i - 1 : ~refuses(j)
           chosen == CHOOSE i \in DOMAIN Checks : first(i)
<1>3. LimitDecision(before, after, limits)
        = IF \E i \in DOMAIN Checks : refuses(i)
          THEN IF undefined(Checks[chosen][1]) THEN "NON_POSITIVE_EQUITY" ELSE Checks[chosen][2]
          ELSE Approved
  BY Zenon DEF LimitDecision
<1>4. DOMAIN Checks = 1 .. 5
  BY DEF Checks
<1> HIDE DEF refuses
<1>5. ASSUME \E i \in DOMAIN Checks : refuses(i) PROVE FALSE
  <2>1. \E i \in DOMAIN Checks : first(i)
    <3>1. CASE refuses(1)
      BY <1>4, <3>1
    <3>2. CASE ~refuses(1) /\ refuses(2)
      BY <1>4, <3>2
    <3>3. CASE ~refuses(1) /\ ~refuses(2) /\ refuses(3)
      BY <1>4, <3>3
    <3>4. CASE ~refuses(1) /\ ~refuses(2) /\ ~refuses(3) /\ refuses(4)
      BY <1>4, <3>4
    <3>5. CASE ~refuses(1) /\ ~refuses(2) /\ ~refuses(3) /\ ~refuses(4) /\ refuses(5)
      BY <1>4, <3>5
    <3>6. QED
      BY <1>4, <1>5, <3>1, <3>2, <3>3, <3>4, <3>5
  <2>2. chosen \in 1 .. 5
    BY <1>4, <2>1, Zenon
  <2> HIDE DEF chosen
  <2>3. \A i \in 1 .. 5 : Checks[i][2] # Approved
    BY DEF Checks, Approved
  <2>4. "NON_POSITIVE_EQUITY" # Approved
    BY DEF Approved
  <2>5. LimitDecision(before, after, limits) # Approved
    BY <1>3, <1>5, <2>2, <2>3, <2>4
  <2>6. QED
    BY <1>2, <2>5
<1>6. PICK i \in 1 .. 5 : Checks[i][1] = k
  <2>1. /\ Checks[1][1] = "position" /\ Checks[2][1] = "gross" /\ Checks[3][1] = "net"
        /\ Checks[4][1] = "positionPct" /\ Checks[5][1] = "grossPct"
    BY DEF Checks
  <2>2. 1 \in 1 .. 5 /\ 2 \in 1 .. 5 /\ 3 \in 1 .. 5 /\ 4 \in 1 .. 5 /\ 5 \in 1 .. 5
    OBVIOUS
  <2>3. QED
    BY <2>1, <2>2
<1>7. ~refuses(i)
  BY <1>4, <1>5
<1>8. ~Exceeds(before[k], after[k], limits[k])
  BY <1>6, <1>7 DEF refuses
<1>9. QED
  BY <1>8 DEF before, after

\* Totals of values and of their sizes are fractions.
LEMMA TotalsType ==
  ASSUME NEW v, DOMAIN v = Symbols, \A s \in Symbols : v[s] \in Fractions
  PROVE  Total(v) \in Fractions /\ Absolute(Total(v)) \in Fractions /\ Total(Sizes(v)) \in Fractions
<1>1. IsFiniteSet(Symbols) /\ DOMAIN Sizes(v) = Symbols
  BY BacktestAssumption DEF Sizes
<1>2. \A a \in Fractions : Absolute(a) \in Fractions
  BY FractionOnGrid, GridMagnitude, GridFacts
<1>3. \A s \in Symbols : Sizes(v)[s] \in Fractions
  BY <1>2 DEF Sizes
<1>4. QED
  BY <1>1, <1>2, <1>3, TotalIsFraction

\* Limits are absent or fractions that are not negative.
LEMMA LimitIs ==
  ASSUME job \in Jobs, NEW k \in {"gross", "net", "grossPct"}, job.limits[k] # None
  PROVE  job.limits[k] \in Fractions /\ Zero \preceq job.limits[k]
<1>1. k \in DOMAIN NoLimits
  BY DEF NoLimits
<1>2. QED
  BY <1>1, LimitsAssumption

\* An empty portfolio is within any limits.
LEMMA NothingFits ==
  ASSUME job \in Jobs, NEW p, AccountOK(p), \A s \in Symbols : p.positions[s].quantity = 0
  PROVE  Fits(Worth(p)) /\ Total(Worth(p)) = Zero
<1>1. Absolute(Zero) = Zero /\ IsFiniteSet(Symbols) /\ Zero \in Fractions
  BY ZeroType, BacktestAssumption DEF Absolute, Zero, Whole, Magnitude
<1>2. \A s \in Symbols : Worth(p)[s] = Zero
  <2> SUFFICES ASSUME NEW s \in Symbols PROVE Worth(p)[s] = Zero
    OBVIOUS
  <2>1. PriceOf(s) \in Int
    BY PriceType
  <2>2. \A m \in Int : 0 * m = 0
    OBVIOUS
  <2>3. p.positions[s].quantity * PriceOf(s) = 0
    BY <2>1, <2>2
  <2>4. QED
    BY <2>3 DEF Worth, Zero
<1>3. Worth(p) = [s \in Symbols |-> Zero] /\ Sizes(Worth(p)) = [s \in Symbols |-> Zero]
  BY <1>1, <1>2 DEF Worth, Sizes
<1>4. Total(Worth(p)) = Zero /\ Total(Sizes(Worth(p))) = Zero
  BY <1>1, <1>3, TotalOfNothing
<1>5. job.limits.gross # None => Zero \preceq job.limits.gross
  BY LimitIs
<1>6. job.limits.net # None => Zero \preceq job.limits.net
  BY LimitIs
<1>7. job.limits.grossPct # None => Zero \preceq (job.limits.grossPct ** Whole(job.capital))
  <2> SUFFICES ASSUME job.limits.grossPct # None
               PROVE  Zero \preceq (job.limits.grossPct ** Whole(job.capital))
    OBVIOUS
  <2> DEFINE l == job.limits.grossPct
             c == job.capital
  <2>1. l \in Fractions /\ Zero \preceq l /\ c \in Nat \ {0}
    BY LimitIs, JobFacts
  <2> HIDE DEF l, c
  <2>2. l \in Quotients /\ l.n \in Int /\ l.d \in Nat \ {0} /\ Zero \in Quotients
        /\ Whole(c) \in Quotients /\ Whole(c).n = c /\ Whole(c).d = 1 /\ Zero.n = 0 /\ Zero.d = 1
    BY <2>1, FractionsAreQuotients, Typing, ZeroType, WholeType
  <2>3. 0 * l.d <= l.n * 1
    BY <2>1, <2>2, OperationsAreRatios
  <2>4. l ** Whole(c) = Ratio(l.n * c, l.d * 1)
    BY <2>2, OperationsAreRatios
  <2>5. 0 * (l.d * 1) <= (l.n * c) * 1 /\ l.n * c \in Int /\ l.d * 1 \in Nat \ {0}
    <3>1. l.n >= 0
      BY <2>2, <2>3
    <3>2. \A x \in Nat, y \in Nat : x * y \in Nat
      OBVIOUS
    <3>3. l.n * c \in Nat
      BY <2>1, <2>2, <3>1, <3>2
    <3>4. QED
      BY <2>2, <3>3
  <2>6. Zero \preceq Ratio(l.n * c, l.d * 1)
    BY <2>2, <2>5, RatioIsOrdered
  <2>7. QED
    BY <2>4, <2>6 DEF l, c
<1>8. QED
  BY <1>1, <1>4, <1>5, <1>6, <1>7 DEF Fits, Within

\* With an approved order the positions are within the limits, if they were without it.
LEMMA ApprovalFits ==
  ASSUME job \in Jobs, NEW p, AccountOK(p), NEW o \in Orders, Fits(Worth(p)),
         MarketValues(p) = Worth(p), Equity(p) = Whole(job.capital),
         Decision(o, p, PriceOf(o.symbol), job.limits) = Approved
  PROVE  Fits(WorthWith(p, o))
<1> DEFINE x == o.symbol
           price == PriceOf(x)
           current == p.positions[x].quantity
           new == current + Signed(o.side, o.quantity)
           before == Exposure(p, x, current, price)
           after == Exposure(p, x, new, price)
           e == Whole(job.capital)
           w == Worth(p)
           v == WorthWith(p, o)
<1>1. x \in Symbols /\ Signed(o.side, o.quantity) \in Int /\ job.capital \in Nat \ {0}
  <2>1. x \in Symbols /\ o.quantity \in Nat
    BY DEF Orders
  <2>2. Signed(o.side, o.quantity) \in Int
    BY <2>1 DEF Signed
  <2>3. QED
    BY <2>1, <2>2, JobFacts
<1>2. ~(Equity(p) \preceq Zero)
  <2> DEFINE c == job.capital
  <2>1. c \in Nat \ {0} /\ Whole(c) \in Quotients /\ Whole(c).n = c /\ Whole(c).d = 1
        /\ Zero \in Quotients /\ Zero.n = 0 /\ Zero.d = 1
    BY <1>1, WholeType, ZeroType
  <2> HIDE DEF c
  <2>2. Whole(c) \preceq Zero <=> c * 1 <= 0 * 1
    BY <2>1, OperationsAreRatios
  <2>3. ~(Whole(c) \preceq Zero)
    BY <2>1, <2>2
  <2>4. QED
    BY <2>3 DEF c
<1>3. [MarketValues(p) EXCEPT ![x] = Whole(current * price)] = w
  <2>1. w[x] = Whole(current * price) /\ DOMAIN w = Symbols /\ w = [s \in Symbols |-> w[s]]
    BY <1>1 DEF Worth
  <2> HIDE DEF w
  <2>2. [w EXCEPT ![x] = Whole(current * price)] = w
    <3> DEFINE h == Whole(current * price)
    <3> HIDE DEF h, x
    <3>1. [w EXCEPT ![x] = h] = w
      BY <2>1 DEF h
    <3>2. QED
      BY <3>1 DEF h
  <2>3. QED
    BY <2>2 DEF w
<1>4. [MarketValues(p) EXCEPT ![x] = Whole(new * price)] = v
  BY DEF WorthWith
<1>5. /\ before.gross = Total(Sizes(w)) /\ before.net = Absolute(Total(w))
      /\ before.grossPct = Total(Sizes(w)) // e
  <2> DEFINE values == [MarketValues(p) EXCEPT ![x] = Whole(current * price)]
             gross == Total([s \in Symbols |-> Absolute(values[s])])
             pct(value) == IF Equity(p) \preceq Zero THEN None ELSE value // Equity(p)
  <2>1. before = [position |-> Absolute(values[x]), gross |-> gross, net |-> Absolute(Total(values)),
                  positionPct |-> pct(Absolute(values[x])), grossPct |-> pct(gross)]
    BY Zenon DEF Exposure
  <2>2. pct(gross) = gross // e
    BY <1>2
  <2>3. gross = Total(Sizes(w)) /\ Absolute(Total(values)) = Absolute(Total(w))
    <3>1. values = w
      BY <1>3
    <3> HIDE DEF values, w
    <3>2. QED
      BY <3>1 DEF Sizes
  <2> HIDE DEF before, values, gross, pct
  <2>4. before.gross = gross /\ before.net = Absolute(Total(values)) /\ before.grossPct = pct(gross)
    BY <2>1
  <2>5. QED
    BY <2>2, <2>3, <2>4, Zenon
<1>6. /\ after.gross = Total(Sizes(v)) /\ after.net = Absolute(Total(v))
      /\ after.grossPct = Total(Sizes(v)) // e
  <2> DEFINE values == [MarketValues(p) EXCEPT ![x] = Whole(new * price)]
             gross == Total([s \in Symbols |-> Absolute(values[s])])
             pct(value) == IF Equity(p) \preceq Zero THEN None ELSE value // Equity(p)
  <2>1. after = [position |-> Absolute(values[x]), gross |-> gross, net |-> Absolute(Total(values)),
                  positionPct |-> pct(Absolute(values[x])), grossPct |-> pct(gross)]
    BY Zenon DEF Exposure
  <2>2. pct(gross) = gross // e
    BY <1>2
  <2>3. gross = Total(Sizes(v)) /\ Absolute(Total(values)) = Absolute(Total(v))
    <3>1. values = v
      BY <1>4
    <3> HIDE DEF values, v
    <3>2. QED
      BY <3>1 DEF Sizes
  <2> HIDE DEF after, values, gross, pct
  <2>4. after.gross = gross /\ after.net = Absolute(Total(values)) /\ after.grossPct = pct(gross)
    BY <2>1
  <2>5. QED
    BY <2>2, <2>3, <2>4, Zenon
<1>7. \A k \in {"gross", "net", "grossPct"} :
        job.limits[k] # None => ~Exceeds(before[k], after[k], job.limits[k])
  <2>1. \A k \in {"position", "gross", "net", "positionPct", "grossPct"} :
        job.limits[k] # None => ~Exceeds(before[k], after[k], job.limits[k])
    BY ApprovedPasses
  <2> HIDE DEF before, after
  <2>2. QED
    BY <2>1
<1>8. /\ \A s \in Symbols : w[s] \in Fractions /\ v[s] \in Fractions
      /\ DOMAIN w = Symbols /\ DOMAIN v = Symbols
  BY <1>1, WorthType, WorthWithType
<1> DEFINE gw == Total(Sizes(w))
           gv == Total(Sizes(v))
           nw == Absolute(Total(w))
           nv == Absolute(Total(v))
<1> HIDE DEF w, v, before, after
<1>9. gw \in Fractions /\ gv \in Fractions /\ nw \in Fractions /\ nv \in Fractions
  BY <1>8, TotalsType
<1>10. /\ Within(gw, job.limits.gross) /\ Within(nw, job.limits.net)
       /\ job.limits.grossPct # None => gw \preceq (job.limits.grossPct ** e)
  BY DEF Fits, w
<1>11. /\ before.gross = gw /\ before.net = nw /\ before.grossPct = gw // e
       /\ after.gross = gv /\ after.net = nv /\ after.grossPct = gv // e
  BY <1>5, <1>6
<1>12. \A a \in Fractions, b \in Fractions, l \in Fractions : a \preceq l /\ ~Exceeds(a, b, l) => b \preceq l
  BY FractionsOrdered DEF Exceeds
<1> HIDE DEF gw, gv, nw, nv, e
<1>13. Within(gv, job.limits.gross)
  BY <1>7, <1>9, <1>10, <1>11, <1>12, LimitIs DEF Within
<1>14. Within(nv, job.limits.net)
  BY <1>7, <1>9, <1>10, <1>11, <1>12, LimitIs DEF Within
<1>15. ASSUME job.limits.grossPct # None PROVE gv \preceq (job.limits.grossPct ** e)
  <2> DEFINE l == job.limits.grossPct
  <2>1. l \in Fractions
    BY <1>15, LimitIs
  <2>2. /\ gw // e \in Fractions /\ gv // e \in Fractions
        /\ gw // e \preceq l <=> gw \preceq (l ** e)
        /\ gv // e \preceq l <=> gv \preceq (l ** e)
    <3> HIDE DEF l
    <3>1. QED
      BY <1>1, <1>9, <2>1, ShareIs DEF e
  <2>3. ~Exceeds(gw // e, gv // e, l)
    BY <1>7, <1>11, <1>15
  <2> HIDE DEF l
  <2>4. QED
    BY <1>10, <1>12, <1>15, <2>1, <2>2, <2>3 DEF l
<1>16. QED
  BY <1>13, <1>14, <1>15 DEF Fits, gv, nv, v, e

\* A fill at the price makes the positions the promised ones and the account worth the same.
LEMMA FillKeepsWorth ==
  ASSUME job \in Jobs, NEW p, AccountOK(p), NEW f \in Fills,
         f.price = Whole(PriceOf(f.symbol)), f.commission = Zero
  PROVE  LET q == ProcessFill(p, f)
         IN  Worth(q) = WorthWith(p, f) /\ q.cash ++ Total(Worth(q)) = p.cash ++ Total(Worth(p))
<1> DEFINE q == ProcessFill(p, f)
           x == f.symbol
           a == p.positions[x].quantity
           c == Signed(f.side, f.quantity)
           m == PriceOf(x)
<1>1. /\ x \in Symbols /\ c \in Int /\ m \in Int /\ a \in Int
      /\ p.cash \in Fractions /\ AccountOK(q)
      /\ q.cash = (p.cash -- Whole(c) ** Whole(m)) -- Zero
  <2>1. x \in Symbols /\ f.quantity \in Nat
    BY DEF Fills
  <2>2. c \in Int
    BY <2>1 DEF Signed
  <2>3. a \in Int /\ p.cash \in Fractions
    BY <2>1 DEF AccountOK, Positions
  <2>4. AccountOK(q) /\ q.cash = CashAfter(p, f)
    BY FillKeepsAccount
  <2>5. CashAfter(p, f) = (p.cash -- Whole(c) ** Whole(m)) -- Zero
    BY DEF CashAfter
  <2>6. QED
    BY <2>1, <2>2, <2>3, <2>4, <2>5, PriceType
<1>2. \A s \in Symbols : q.positions[s].quantity = p.positions[s].quantity + (IF s = x THEN c ELSE 0)
  BY QuantityAfter
<1>3. \A s \in Symbols : p.positions[s].quantity \in Int
  BY DEF AccountOK, Positions
<1>4. /\ DOMAIN WorthWith(p, f) = Symbols /\ WorthWith(p, f)[x] = Whole((a + c) * m)
      /\ \A s \in Symbols \ {x} : WorthWith(p, f)[s] = Worth(p)[s]
      /\ \A s \in Symbols : WorthWith(p, f)[s] \in Fractions
      /\ a + c \in Int /\ (a + c) * m \in Int
  BY <1>1, WorthWithType
<1>5. /\ DOMAIN Worth(q) = Symbols /\ Worth(q)[x] = Whole((a + c) * m)
      /\ \A s \in Symbols \ {x} : Worth(q)[s] = Worth(p)[s]
  <2> HIDE DEF q
  <2>1. q.positions[x].quantity = a + c /\ \A s \in Symbols \ {x} : q.positions[s].quantity = p.positions[s].quantity
    BY <1>1, <1>2, <1>3
  <2> HIDE DEF a, c, x, m
  <2>2. Worth(q)[x] = Whole(q.positions[x].quantity * PriceOf(x))
    BY <1>1 DEF Worth
  <2>3. QED
    BY <2>1, <2>2 DEF Worth, m
<1>6. Worth(q) = WorthWith(p, f)
  <2>1. \A s \in Symbols : Worth(q)[s] = WorthWith(p, f)[s]
    BY <1>4, <1>5
  <2>2. Worth(q) = [s \in Symbols |-> Worth(q)[s]] /\ WorthWith(p, f) = [s \in Symbols |-> WorthWith(p, f)[s]]
    BY DEF Worth, WorthWith
  <2>3. QED
    BY <2>1, <2>2
<1>7. /\ DOMAIN Worth(p) = Symbols /\ Worth(p)[x] = Whole(a * m) /\ a * m \in Int /\ c * m \in Int
      /\ \A s \in Symbols : Worth(p)[s] \in Fractions
  <2>1. c * m \in Int
    BY <1>1
  <2>2. QED
    BY <1>1, <2>1, WorthType
<1> DEFINE v == WorthWith(p, f)
           w == Worth(p)
<1>8. Total(v) = Total(w) ++ (Whole((a + c) * m) -- Whole(a * m)) /\ Total(w) \in Fractions
  <2>1. \A s \in Symbols : w[s] \in Fractions /\ v[s] \in Fractions
    BY <1>4, <1>7
  <2>2. v[x] = Whole((a + c) * m) /\ w[x] = Whole(a * m) /\ DOMAIN v = Symbols /\ DOMAIN w = Symbols
    BY <1>4, <1>7
  <2>3. \A s \in Symbols \ {x} : v[s] = w[s]
    BY <1>4
  <2> HIDE DEF v, w, x, a, c, m
  <2>4. Total(v) = Total(w) ++ (v[x] -- w[x])
    BY <1>1, <2>1, <2>2, <2>3, TotalChangesOne, BacktestAssumption
  <2>5. Total(w) \in Fractions
    BY <2>1, <2>2, TotalsType
  <2>6. QED
    BY <2>2, <2>4, <2>5
<1> DEFINE t == Total(w)
           r == p.cash
<1>9. t \in Fractions /\ r \in Fractions /\ Total(v) = t ++ (Whole((a + c) * m) -- Whole(a * m))
  BY <1>1, <1>8
<1>10. Whole(c) ** Whole(m) = Whole(c * m)
  <2> HIDE DEF c, m
  <2>1. 1 \in Nat \ {0} /\ Whole(c) \in Grid(1) /\ Units(Whole(c), 1) = c * 1
        /\ Whole(c * m) \in Grid(1) /\ Units(Whole(c * m), 1) = (c * m) * 1
    BY <1>1, <1>7, WholeOnGrid
  <2>2. Whole(c) ** Whole(m) \in Grid(1) /\ Units(Whole(c) ** Whole(m), 1) = (c * 1) * m
    BY <1>1, <2>1, GridScales
  <2>3. (c * 1) * m = (c * m) * 1
    BY <1>1
  <2>4. QED
    BY <2>1, <2>2, <2>3, GridIsUnique
<1>11. ((r -- Whole(c * m)) -- Zero) ++ (t ++ (Whole((a + c) * m) -- Whole(a * m))) = r ++ t
  <2> HIDE DEF r, t, a, c, m
  <2>1. PICK d \in Nat \ {0} : r \in Grid(d) /\ t \in Grid(d)
    BY <1>9, FractionOnGrid, TwoOnGrid
  <2> DEFINE i == c * m
             j == (a + c) * m
             k == a * m
  <2>2. i \in Int /\ j \in Int /\ k \in Int /\ j = k + i
    <3>1. (a + c) * m = a * m + c * m
      BY <1>1
    <3>2. QED
      BY <1>4, <1>7, <3>1
  <2> HIDE DEF i, j, k
  <2>3. /\ Whole(i) \in Grid(d) /\ Units(Whole(i), d) = i * d
        /\ Whole(j) \in Grid(d) /\ Units(Whole(j), d) = j * d
        /\ Whole(k) \in Grid(d) /\ Units(Whole(k), d) = k * d
        /\ Zero \in Grid(d) /\ Units(Zero, d) = 0
    BY <2>2, WholeOnGrid, ZeroOnGrid
  <2> DEFINE u == Units(r, d)
             z == Units(t, d)
  <2>4. u \in Int /\ z \in Int
    BY <2>1, GridFacts
  <2>5. r -- Whole(i) \in Grid(d) /\ Units(r -- Whole(i), d) = u - i * d
    BY <2>1, <2>3, GridAdds
  <2>6. (r -- Whole(i)) -- Zero \in Grid(d) /\ Units((r -- Whole(i)) -- Zero, d) = (u - i * d) - 0
    BY <2>3, <2>5, GridAdds
  <2>7. Whole(j) -- Whole(k) \in Grid(d) /\ Units(Whole(j) -- Whole(k), d) = j * d - k * d
    BY <2>3, GridAdds
  <2>8. t ++ (Whole(j) -- Whole(k)) \in Grid(d) /\ Units(t ++ (Whole(j) -- Whole(k)), d) = z + (j * d - k * d)
    BY <2>1, <2>7, GridAdds
  <2>9. /\ ((r -- Whole(i)) -- Zero) ++ (t ++ (Whole(j) -- Whole(k))) \in Grid(d)
        /\ Units(((r -- Whole(i)) -- Zero) ++ (t ++ (Whole(j) -- Whole(k))), d)
             = ((u - i * d) - 0) + (z + (j * d - k * d))
    BY <2>6, <2>8, GridAdds
  <2>10. r ++ t \in Grid(d) /\ Units(r ++ t, d) = u + z
    BY <2>1, GridAdds
  <2>11. ((u - i * d) - 0) + (z + (j * d - k * d)) = u + z
    <3>1. j * d = k * d + i * d /\ i * d \in Int /\ k * d \in Int /\ j * d \in Int
      BY <2>2
    <3>2. \A u1, z1, i1, j1, k1 \in Int : j1 = k1 + i1 => ((u1 - i1) - 0) + (z1 + (j1 - k1)) = u1 + z1
      OBVIOUS
    <3>3. QED
      BY <2>4, <3>1, <3>2
  <2>12. QED
    BY <2>9, <2>10, <2>11, GridIsUnique DEF i, j, k
<1>12. q.cash ++ Total(v) = r ++ t
  BY <1>1, <1>9, <1>10, <1>11
<1>13. QED
  BY <1>6, <1>12

-----------------------------------------------------------------------------
(***************************************************************************)
(* The bars of orders and fills                                            *)
(***************************************************************************)
\* A signal, order or fill of a bar has its symbol and time.
AnswersAt(e, k) ==
  k \in DOMAIN job.bars /\ job.bars[k].symbol = e.symbol /\ job.bars[k].timestamp = e.timestamp

BarOf(e) == CHOOSE k \in DOMAIN job.bars : AnswersAt(e, k)

\* The ids of the orders reported as rejected.
RejectedIds == {rejected[r].order.id : r \in DOMAIN rejected}

\* They were denied or refused, and are not those of fills.
Settled == RejectedIds \subseteq Denied \cup EventIds(refused) /\ RejectedIds \cap EventIds(fills) = {}

\* Fills are recorded in the order of their bars, of an order each.
FillsInOrder ==
  /\ step \notin {"warmup", "idle"} => \A f \in Items(fills) : BarOf(f) <= cursor
  /\ \A i, j \in DOMAIN fills :
       i < j => BarOf(fills[i]) <= BarOf(fills[j]) /\ fills[i].id # fills[j].id

\* Orders are decided at bars of their symbols.
OwnBars ==
  /\ step = "decide" => \A e \in Items(queue) : e.symbol = Market.symbol
  /\ \A o \in Items(orders) :
       /\ AnswersAt(o, BarOf(o))
       /\ step \in {"bar", "execute", "apply", "strategy"} => BarOf(o) < cursor
       /\ step = "decide" => BarOf(o) <= cursor

\* Fills on their way are at the price, and cost nothing.
AtPrice(f) == f.price = Whole(PriceOf(f.symbol)) /\ f.commission = Zero
Priced ==
  /\ step = "execute" => \A f \in Items(accepted) : AtPrice(f)
  /\ step = "apply" => \A f \in Items(queue) : AtPrice(f)

\* Every order that was filled was decided after the fills before its own.
FilledApart ==
  \A i, j \in DOMAIN fills : \A o \in Items(orders) :
    i < j /\ o.id = fills[j].id => BarOf(fills[i]) <= BarOf(o)

\* What was checked: with an order that may be filled next the positions are within the limits.
Promised(o) ==
  o.id \notin EventIds(fills) \cup RejectedIds /\ (\A f \in Items(fills) : BarOf(f) <= BarOf(o)) =>
    Fits(WorthWith(portfolio, o))

\* The account is worth the capital and within the limits, and will be.
Kept ==
  /\ portfolio.cash ++ Total(Worth(portfolio)) = Whole(job.capital)
  /\ Fits(Worth(portfolio)) /\ LimitsKept
  /\ \A o \in Items(orders) : Promised(o)

LimitInvariant ==
  /\ Settled /\ FillsInOrder
  /\ TradesOwnBars => OwnBars
  /\ SteadyPrices => Priced
  /\ SteadyPrices /\ TradesOwnBars => (FilledApart => Kept)

\* Bars are apart by symbol and time, and later bars have larger indices.
LEMMA BarsApart ==
  ASSUME job \in Jobs, NEW k \in DOMAIN job.bars, NEW l \in DOMAIN job.bars
  PROVE  /\ k \in Nat /\ l \in Nat
         /\ job.bars[k].timestamp > job.bars[l].timestamp => l < k
         /\ job.bars[k].symbol = job.bars[l].symbol /\ job.bars[k].timestamp = job.bars[l].timestamp => k = l
<1>1. /\ k \in Nat /\ l \in Nat /\ job.bars \in Seq(Bars) /\ Chronological(job.bars)
  BY JobFacts
<1>2. job.bars[k].timestamp \in Nat /\ job.bars[l].timestamp \in Nat
  <2>1. \A i \in DOMAIN job.bars : job.bars[i] \in Bars
    BY <1>1
  <2>2. QED
    BY <2>1 DEF Bars
<1>3. k < l => job.bars[k].timestamp <= job.bars[l].timestamp
              /\ (job.bars[k].timestamp = job.bars[l].timestamp => job.bars[k].symbol # job.bars[l].symbol)
  BY <1>1 DEF Chronological
<1>4. l < k => job.bars[l].timestamp <= job.bars[k].timestamp
              /\ (job.bars[l].timestamp = job.bars[k].timestamp => job.bars[l].symbol # job.bars[k].symbol)
  BY <1>1 DEF Chronological
<1>5. QED
  BY <1>1, <1>2, <1>3, <1>4

\* So what is of a bar is of one.
LEMMA BarIs ==
  ASSUME job \in Jobs, NEW e, NEW k, AnswersAt(e, k)
  PROVE  BarOf(e) = k /\ AnswersAt(e, BarOf(e))
<1>1. \A l \in DOMAIN job.bars : AnswersAt(e, l) => l = k
  BY BarsApart DEF AnswersAt
<1>2. k \in DOMAIN job.bars
  BY DEF AnswersAt
<1>3. QED
  BY <1>1, <1>2 DEF BarOf

LEMMA BarsStay ==
  ASSUME job' = job
  PROVE  /\ \A e : BarOf(e)' = BarOf(e) /\ \A k : AnswersAt(e, k)' <=> AnswersAt(e, k)
         /\ \A s : PriceOf(s)' = PriceOf(s)
         /\ \A v : Fits(v)' <=> Fits(v)
         /\ (SteadyPrices' <=> SteadyPrices) /\ (TradesOwnBars' <=> TradesOwnBars)
BY DEF BarOf, AnswersAt, PriceOf, Fits, SteadyPrices, TradesOwnBars

\* A fill's bar, and that of the fill's order.
LEMMA FillBar ==
  ASSUME job \in Jobs, NEW f, NEW k, FillsAt(job.bars, orders, f, k)
  PROVE  /\ BarOf(f) = k /\ k \in DOMAIN job.bars
         /\ \E o \in Items(orders) :
              /\ k \in Later(job.bars, o) /\ \A l \in Later(job.bars, o) : k <= l
              /\ o.id = f.id /\ o.symbol = f.symbol /\ Signed(o.side, o.quantity) = Signed(f.side, f.quantity)
<1>1. PICK o \in Items(orders) :
        k \in Later(job.bars, o) /\ (\A l \in Later(job.bars, o) : k <= l) /\ FillsWith(f, o, job.bars[k])
  BY DEF FillsAt
<1>2. AnswersAt(f, k)
  BY <1>1 DEF AnswersAt, Later, FillsWith
<1>3. QED
  BY <1>1, <1>2, BarIs DEF FillsWith, Later

\* In the warm-up nothing has been ordered or filled.
LEMMA NothingInWarmUp ==
  ASSUME TypeInvariant, Timing, step = "warmup"
  PROVE  orders = <<>> /\ fills = <<>> /\ Items(orders) = {} /\ Items(fills) = {}
<1>1. orders = <<>> /\ Items(orders) = {}
  BY ItemsOfNothing DEF Timing, OrdersTimed
<1>2. Items(fills) = {}
  BY <1>1, FillBar DEF Timing, FillsTimed, FillsAt
<1>3. fills \in Seq(Fills)
  BY DEF TypeInvariant, ListsOK
<1>4. fills = <<>>
  <2>1. fills # <<>> => 1 \in DOMAIN fills
    BY <1>3
  <2>2. QED
    BY <1>2, <2>1 DEF Items
<1>5. QED
  BY <1>1, <1>2, <1>4

\* Orders that do not overlap are filled apart.
LEMMA NoOverlapMeansApart ==
  ASSUME TypeInvariant, Timing, Settled, FillsInOrder, OwnBars, OrdersDoNotOverlap
  PROVE  FilledApart
<1> SUFFICES ASSUME NEW i \in DOMAIN fills, NEW j \in DOMAIN fills, NEW o \in Items(orders),
                    i < j, o.id = fills[j].id
             PROVE  BarOf(fills[i]) <= BarOf(o)
  BY DEF FilledApart
<1>1. /\ job \in Jobs /\ orders \in Seq(Orders) /\ fills \in Seq(Fills)
      /\ DOMAIN orders \subseteq Nat
      /\ \A a \in DOMAIN orders : orders[a] \in Orders /\ IsOrder(orders[a]) /\ orders[a].id \in Nat
  <2>1. job \in Jobs /\ orders \in Seq(Orders) /\ fills \in Seq(Fills)
    BY DEF TypeInvariant, ListsOK
  <2>2. DOMAIN orders \subseteq Nat /\ \A a \in DOMAIN orders : orders[a] \in Orders
    BY <2>1
  <2>3. QED
    BY <2>1, <2>2, EventKinds
<1>2. \A n \in DOMAIN fills : /\ fills[n] \in Items(fills) /\ fills[n].id \in EventIds(fills)
                              /\ \E k \in DOMAIN job.bars : FillsAt(job.bars, orders, fills[n], k)
  <2>1. \A n \in DOMAIN fills : fills[n] \in Items(fills) /\ IsOrder(fills[n])
    BY <1>1, EventKinds DEF Items
  <2>2. QED
    BY <2>1, ItemIds DEF Timing, FillsTimed
<1> DEFINE k == BarOf(fills[i])
           m == BarOf(fills[j])
<1>3. PICK x \in Items(orders) :
        k \in Later(job.bars, x) /\ (\A l \in Later(job.bars, x) : k <= l) /\ x.id = fills[i].id
  BY <1>1, <1>2, FillBar
<1>4. m \in Later(job.bars, o) /\ \A l \in Later(job.bars, o) : m <= l
  <2>1. PICK y \in Items(orders) :
          m \in Later(job.bars, y) /\ (\A l \in Later(job.bars, y) : m <= l) /\ y.id = fills[j].id
    BY <1>1, <1>2, FillBar
  <2>2. OrderOf(y.id) = y /\ OrderOf(o.id) = o
    BY OrderOfId DEF Timing
  <2>3. y = o
    BY <2>1, <2>2
  <2>4. QED
    BY <2>1, <2>3
<1>5. k <= m /\ x.id # o.id
  BY <1>3 DEF FillsInOrder
<1> HIDE DEF k, m
<1>6. PICK a \in DOMAIN orders, b \in DOMAIN orders : orders[a] = x /\ orders[b] = o
  BY <1>3 DEF Items
<1>7. \A r \in DOMAIN rejected : rejected[r].order # x /\ rejected[r].order # o
  <2>1. x.id \in EventIds(fills) /\ o.id \in EventIds(fills)
    BY <1>2, <1>3
  <2>2. QED
    BY <2>1 DEF Settled, RejectedIds
<1>8. AnswersAt(x, BarOf(x)) /\ AnswersAt(o, BarOf(o))
  BY <1>3 DEF OwnBars
<1>9. CASE a < b
  <2>1. PICK c \in LaterBars(x), l \in DOMAIN job.bars :
          c <= l /\ job.bars[l].symbol = o.symbol /\ job.bars[l].timestamp = o.timestamp
    BY <1>6, <1>7, <1>9 DEF OrdersDoNotOverlap
  <2>2. BarOf(o) = l
    BY <1>1, <2>1, BarIs DEF AnswersAt
  <2>3. k <= c /\ c \in DOMAIN job.bars /\ k \in DOMAIN job.bars
    BY <1>3, <2>1, LaterBarsAre DEF Later
  <2>4. QED
    <3>1. k \in Nat /\ c \in Nat /\ l \in Nat
      BY <1>1, <2>1, <2>3, BarsApart
    <3>2. QED
      BY <2>1, <2>2, <2>3, <3>1 DEF k
<1>10. CASE b < a
  <2>1. PICK c \in LaterBars(o), l \in DOMAIN job.bars :
          c <= l /\ job.bars[l].symbol = x.symbol /\ job.bars[l].timestamp = x.timestamp
    BY <1>6, <1>7, <1>10 DEF OrdersDoNotOverlap
  <2>2. m <= c /\ c \in DOMAIN job.bars /\ m \in DOMAIN job.bars /\ k \in DOMAIN job.bars
        /\ job.bars[k].timestamp > job.bars[l].timestamp
    BY <1>3, <1>4, <2>1, LaterBarsAre DEF Later
  <2>3. l < k /\ k \in Nat /\ l \in Nat /\ c \in Nat /\ m \in Nat
    BY <1>1, <2>1, <2>2, BarsApart
  <2>4. QED
    BY <1>5, <2>1, <2>2, <2>3
<1>11. a # b
  BY <1>5, <1>6
<1>12. QED
  BY <1>1, <1>9, <1>10, <1>11

\* Reporting one more rejection,
LEMMA RejectedByAppend ==
  ASSUME rejected \in Seq(Rejections), NEW e \in Rejections, rejected' = Append(rejected, e)
  PROVE  RejectedIds' = RejectedIds \cup {e.order.id}
<1> DEFINE n == Len(rejected)
<1>1. /\ n \in Nat /\ DOMAIN rejected = 1 .. n /\ DOMAIN rejected' = 1 .. n + 1
      /\ rejected'[n + 1] = e /\ \A k \in 1 .. n : rejected'[k] = rejected[k]
  OBVIOUS
<1> HIDE DEF n
<1>2. RejectedIds' = {rejected'[r].order.id : r \in 1 .. n + 1}
  BY <1>1 DEF RejectedIds
<1>3. RejectedIds = {rejected[r].order.id : r \in 1 .. n}
  BY <1>1 DEF RejectedIds
<1>4. QED
  BY <1>1, <1>2, <1>3

\* or several.
LEMMA RejectedByConcat ==
  ASSUME rejected \in Seq(Rejections), NEW l \in Seq(Rejections), rejected' = rejected \o l
  PROVE  RejectedIds' = RejectedIds \cup {l[k].order.id : k \in DOMAIN l}
<1> DEFINE n == Len(rejected)
           m == Len(l)
<1>1. /\ n \in Nat /\ m \in Nat /\ DOMAIN rejected = 1 .. n /\ DOMAIN l = 1 .. m
      /\ DOMAIN rejected' = 1 .. n + m
      /\ \A k \in 1 .. n : rejected'[k] = rejected[k]
      /\ \A k \in 1 .. m : rejected'[k + n] = l[k]
  BY ConcatProperties
<1> HIDE DEF n, m
<1>2. RejectedIds = {rejected[r].order.id : r \in 1 .. n}
  BY <1>1 DEF RejectedIds
<1>3. RejectedIds' = {rejected'[r].order.id : r \in 1 .. n + m}
  BY <1>1 DEF RejectedIds
<1>4. \A k \in 1 .. m : k + n \in 1 .. n + m
  BY <1>1
<1>5. \A k \in 1 .. n + m : k \notin 1 .. n => k - n \in 1 .. m /\ (k - n) + n = k
  BY <1>1
<1>6. ASSUME NEW k \in 1 .. n + m, k \notin 1 .. n
      PROVE  rejected'[k].order.id \in {l[i].order.id : i \in 1 .. m}
  <2> DEFINE i == k - n
  <2>1. i \in 1 .. m /\ i + n = k
    BY <1>5, <1>6
  <2> HIDE DEF i
  <2>2. rejected'[k] = l[i]
    BY <1>1, <2>1
  <2>3. QED
    BY <2>1, <2>2
<1>7. \A k \in 1 .. n : k \in 1 .. n + m
  BY <1>1
<1>8. ASSUME NEW k \in 1 .. n + m
      PROVE  rejected'[k].order.id \in RejectedIds \cup {l[i].order.id : i \in 1 .. m}
  <2>1. CASE k \in 1 .. n
    BY <1>1, <1>2, <2>1
  <2>2. CASE k \notin 1 .. n
    BY <1>6, <2>2
  <2>3. QED
    BY <2>1, <2>2
<1>9. \A k \in 1 .. n : rejected[k].order.id \in RejectedIds'
  BY <1>1, <1>3, <1>7
<1>10. \A i \in 1 .. m : l[i].order.id \in RejectedIds'
  <2> SUFFICES ASSUME NEW i \in 1 .. m PROVE l[i].order.id \in RejectedIds'
    OBVIOUS
  <2>1. rejected'[i + n] = l[i] /\ i + n \in 1 .. n + m
    BY <1>1, <1>4
  <2>2. QED
    BY <1>3, <2>1
<1>11. RejectedIds' \subseteq RejectedIds \cup {l[i].order.id : i \in 1 .. m}
  BY <1>3, <1>8
<1>12. RejectedIds \cup {l[i].order.id : i \in 1 .. m} \subseteq RejectedIds'
  BY <1>2, <1>9, <1>10
<1>13. RejectedIds' = RejectedIds \cup {l[i].order.id : i \in 1 .. m}
  BY <1>11, <1>12
<1>14. QED
  BY <1>1, <1>13

\* What is newly refused was refused.
LEMMA NewlyRefusedAre ==
  ASSUME refused \in Seq(Orders), rejected \in Seq(Rejections)
  PROVE  NewlyRefused \in Seq(Orders) /\ Items(NewlyRefused) \subseteq Items(refused)
<1>1. NewlyRefused \in Seq(Orders)
  BY NewlyRefusedType
<1>2. Reported \in Nat
  <2>1. Len(rejected) \in Nat /\ DOMAIN rejected = 1 .. Len(rejected)
    OBVIOUS
  <2>2. IsFiniteSet(1 .. Len(rejected))
    BY <2>1, FS_Interval
  <2>3. IsFiniteSet({k \in DOMAIN rejected : rejected[k].late})
    BY <2>1, <2>2, FS_Subset
  <2>4. QED
    BY <2>3, FS_CardinalityType DEF Reported
<1> DEFINE m == Reported + 1
           S == Items(refused)
<1>3. m \in Int /\ m >= 1 /\ Len(refused) \in Nat
  BY <1>2
<1>4. NewlyRefused = SubSeq(refused, m, Len(refused))
  BY DEF NewlyRefused
<1> HIDE DEF m, S
<1>5. \A i \in m .. Len(refused) : refused[i] \in S
  <2>1. \A i \in m .. Len(refused) : i \in DOMAIN refused
    BY <1>3
  <2>2. QED
    BY <2>1 DEF S, Items
<1>6. SubSeq(refused, m, Len(refused)) \in Seq(S)
  <2>1. CASE m <= Len(refused)
    BY <1>3, <1>5, <2>1, SubSeqProperties
  <2>2. CASE ~ (m <= Len(refused))
    <3>1. SubSeq(refused, m, Len(refused)) = <<>>
      BY <1>3, <2>2, SubSeqEmpty
    <3>2. <<>> \in Seq(S)
      OBVIOUS
    <3>3. QED
      BY <3>1, <3>2, Zenon
  <2>3. QED
    BY <2>1, <2>2
<1>7. Items(NewlyRefused) \subseteq S
  BY <1>4, <1>6, ItemsAreOrders
<1>8. QED
  BY <1>1, <1>7 DEF S

\* Lists that are rejected from are settled while the run goes on.
LEMMA SettledInProgress ==
  ASSUME EngineInvariant', step' # "idle", RejectedIds' \subseteq Denied' \cup EventIds(refused')
  PROVE  Settled'
<1>1. OnePlace(Places', nextOrder')
  BY DEF EngineInvariant, LifeInvariant, Healthy, Life
<1>2. /\ Places'["filled"] \cap Places'["refused"] = {}
      /\ Places'["filled"] \cap Places'["denied"] = {}
  <2>1. /\ "filled" \in PlaceNames /\ "refused" \in PlaceNames /\ "denied" \in PlaceNames
        /\ "filled" # "refused" /\ "filled" # "denied"
    BY DEF PlaceNames
  <2>2. QED
    BY <1>1, <2>1 DEF OnePlace
<1>3. EventIds(fills') \cap EventIds(refused') = {} /\ EventIds(fills') \cap Denied' = {}
  BY <1>2, PlacesWillBe
<1>4. QED
  BY <1>3 DEF Settled

\* How the rejections change.
RejectionsMove ==
  \/ rejected' = <<>> /\ step' = "warmup"
  \/ /\ rejected' = rejected /\ EventIds(refused) \subseteq EventIds(refused')
     /\ step' = "idle" => fills' = fills
  \/ /\ step' # "idle" /\ refused' = refused
     /\ \E e \in Rejections : ~e.late /\ rejected' = Append(rejected, e)
  \/ /\ step' # "idle" /\ refused' = refused
     /\ \E l \in Seq(Rejections) :
          /\ rejected' = rejected \o l
          /\ \A k \in DOMAIN l : l[k].late /\ l[k].order.id \in EventIds(refused)

LEMMA StepsOfRejections ==
  ASSUME TypeInvariant, [Next]_vars
  PROVE  RejectionsMove
<1>1. /\ rejected \in Seq(Rejections) /\ refused \in Seq(Orders) /\ refused \in Seq(Events)
      /\ pending \in Seq(Orders)
  BY ListsAreEvents DEF TypeInvariant, ListsOK
<1>2. CASE UNCHANGED vars
  BY <1>2 DEF vars, runVars, simulatorVars, RejectionsMove
<1>3. CASE StartRun
  BY <1>3 DEF StartRun, RejectionsMove
<1>4. CASE WarmUp \/ BeginEvaluation \/ NextBar \/ MarkBar \/ EndBar \/ FinishRun \/ TakeSignal \/ CallStrategy
  <2>1. rejected' = rejected /\ refused' = refused /\ fills' = fills
    BY <1>4, Zenon DEF WarmUp, BeginEvaluation, NextBar, MarkBar, EndBar, FinishRun, TakeSignal,
                       CallStrategy, simulatorVars
  <2>2. QED
    BY <2>1 DEF RejectionsMove
<1>5. CASE ApplyNext
  <2>1. rejected' = rejected /\ refused' = refused /\ (step' = step \/ fills' = fills) /\ step = "apply"
    BY <1>5, Zenon DEF ApplyNext, simulatorVars
  <2>2. QED
    BY <2>1 DEF RejectionsMove
<1>6. CASE ExecuteOrder
  <2>1. /\ rejected' = rejected /\ fills' = fills /\ pending # <<>>
        /\ refused' = refused \/ refused' = Append(refused, Head(pending))
    BY <1>6, Zenon DEF ExecuteOrder, Hold, Match, PriceFails
  <2>2. EventIds(refused) \subseteq EventIds(refused')
    <3>1. Head(pending) \in Orders
      BY <1>1, <2>1
    <3>2. Head(pending) \in Events
      BY <3>1 DEF Events
    <3>3. \A e \in Events : EventIds(refused) \subseteq EventIds(Append(refused, e))
      BY <1>1, IdsOfAppend
    <3>4. QED
      BY <2>1, <3>2, <3>3
  <2>3. QED
    BY <2>1, <2>2 DEF RejectionsMove
<1>7. CASE EndExecution
  <2> DEFINE l == [i \in DOMAIN NewlyRefused |-> Refusal(NewlyRefused[i])]
  <2>1. /\ step = "execute" /\ step' = "apply" /\ refused' = refused /\ rejected' = rejected \o l
    BY <1>7 DEF EndExecution, FinishExecution
  <2>2. NewlyRefused \in Seq(Orders) /\ Items(NewlyRefused) \subseteq Items(refused)
    BY <1>1, NewlyRefusedAre
  <2>3. \A o \in Orders : Refusal(o) \in Rejections /\ Refusal(o).order = o /\ Refusal(o).late
    BY <2>1, MarketIsABar DEF Refusal, Rejections, Reasons, InBar
  <2>4. l \in Seq(Rejections) /\ DOMAIN l = DOMAIN NewlyRefused
    BY <2>2, <2>3
  <2>5. ASSUME NEW k \in DOMAIN l PROVE l[k].late /\ l[k].order.id \in EventIds(refused)
    <3>1. NewlyRefused[k] \in Orders /\ NewlyRefused[k] \in Items(refused)
      BY <2>2, <2>5 DEF Items
    <3>2. l[k].late /\ l[k].order = NewlyRefused[k]
      BY <2>3, <2>5, <3>1
    <3>3. NewlyRefused[k].id \in EventIds(refused)
      BY <3>1, ItemIds, EventKinds
    <3>4. QED
      BY <3>2, <3>3
  <2> HIDE DEF l
  <2>6. QED
    BY <2>1, <2>4, <2>5 DEF RejectionsMove
<1>8. CASE TakeOrder
  <2> DEFINE entry(reason) == [order |-> Head(queue), timestamp |-> Market.timestamp,
                               reason |-> reason, late |-> FALSE]
  <2>1. TakeOrderFacts
    BY <1>8, TakeOrderMeans
  <2>2. /\ fills' = fills /\ Head(queue) \in Orders /\ step = "decide"
        /\ \/ /\ \E reason \in Reasons : rejected' = Append(rejected, entry(reason))
              /\ step' = step /\ refused' = refused
           \/ rejected' = rejected /\ refused' = refused
    BY <2>1, Zenon DEF TakeOrderFacts, simulatorVars, Submit
  <2>3. \A reason \in Reasons : entry(reason) \in Rejections /\ ~entry(reason).late
    BY <2>2, MarketIsABar DEF Rejections, InBar
  <2> HIDE DEF entry
  <2>4. QED
    BY <2>2, <2>3 DEF RejectionsMove
<1>9. QED
  BY <1>2, <1>3, <1>4, <1>5, <1>6, <1>7, <1>8 DEF Next, RunStep, Execute, Decide

\* What is settled stays so.
LEMMA SettledIsKept ==
  ASSUME EngineInvariant, EngineInvariant', Settled, [Next]_vars
  PROVE  Settled'
<1>1. RejectionsMove /\ rejected \in Seq(Rejections)
  BY StepsOfRejections DEF EngineInvariant, TypeInvariant, ListsOK
<1>2. CASE rejected' = <<>>
  BY <1>2 DEF Settled, RejectedIds
<1>3. CASE /\ rejected' = rejected /\ EventIds(refused) \subseteq EventIds(refused')
           /\ step' = "idle" => fills' = fills
  <2>1. RejectedIds' = RejectedIds /\ Denied' = Denied
    BY <1>3 DEF RejectedIds, Denied
  <2>2. RejectedIds' \subseteq Denied' \cup EventIds(refused')
    BY <1>3, <2>1 DEF Settled
  <2>3. CASE step' = "idle"
    BY <1>3, <2>1, <2>2, <2>3 DEF Settled
  <2>4. QED
    BY <2>2, <2>3, SettledInProgress
<1>4. ASSUME step' # "idle", refused' = refused, NEW e \in Rejections, ~e.late, rejected' = Append(rejected, e)
      PROVE  Settled'
  <2>1. RejectedIds' = RejectedIds \cup {e.order.id} /\ Denied' = Denied \cup {e.order.id}
    BY <1>1, <1>4, RejectedByAppend, DeniedByAppend
  <2>2. QED
    BY <1>4, <2>1, SettledInProgress DEF Settled
<1>5. ASSUME step' # "idle", refused' = refused, NEW l \in Seq(Rejections), rejected' = rejected \o l,
             \A k \in DOMAIN l : l[k].late /\ l[k].order.id \in EventIds(refused)
      PROVE  Settled'
  <2>1. RejectedIds' = RejectedIds \cup {l[k].order.id : k \in DOMAIN l} /\ Denied' = Denied
    BY <1>1, <1>5, RejectedByConcat, DeniedByLate
  <2>2. QED
    BY <1>5, <2>1, SettledInProgress DEF Settled
<1>6. QED
  BY <1>1, <1>2, <1>3, <1>4, <1>5 DEF RejectionsMove

\* Rejections are never withdrawn in a run.
LEMMA RejectedGrow ==
  ASSUME TypeInvariant, [Next]_vars, step' # "warmup" \/ rejected' # <<>>
  PROVE  RejectedIds \subseteq RejectedIds'
<1>1. RejectionsMove /\ rejected \in Seq(Rejections)
  BY StepsOfRejections DEF TypeInvariant, ListsOK
<1>2. rejected' = rejected => RejectedIds' = RejectedIds
  BY DEF RejectedIds
<1>3. QED
  BY <1>1, <1>2, RejectedByAppend, RejectedByConcat DEF RejectionsMove

\* A fill that is applied is of the bar, and the first of its order.
LEMMA FillAppliedMeans ==
  ASSUME EngineInvariant, FillApplied, [Next]_vars
  PROVE  LET h == Head(queue) IN
         /\ step = "apply" /\ step' = "apply" /\ cursor' = cursor /\ h \in Fills /\ h \in Items(queue)
         /\ UNCHANGED <<job, orders, rejected>>
         /\ portfolio' = ProcessFill(portfolio, h) /\ fills' = Append(fills, h)
         /\ FillsAt(job.bars, orders, h, cursor) /\ BarOf(h) = cursor
         /\ h.id \in EventIds(queue) /\ h.id \notin EventIds(fills)
<1> DEFINE h == Head(queue)
<1>1. /\ step = "apply" /\ step' = "apply" /\ cursor' = cursor /\ job' = job /\ h \in Fills
      /\ portfolio' = ProcessFill(portfolio, h) /\ fills' = Append(fills, h) /\ fills \in Seq(Fills)
  BY DEF FillApplied, EngineInvariant, TypeInvariant, ListsOK
<1>2. fills' # fills
  <2>1. Len(fills') = Len(fills) + 1 /\ Len(fills) \in Nat
    BY <1>1
  <2>2. QED
    BY <2>1
<1>3. ApplyNext
  BY <1>1, <1>2 DEF Next, RunStep, Execute, Decide, vars, runVars, StartRun, WarmUp, BeginEvaluation, NextBar,
     ExecuteOrder, EndExecution, MarkBar, CallStrategy, TakeSignal, TakeOrder, EndBar, FinishRun
<1>4. queue # <<>> /\ queue \in Seq(Fills) /\ h \in Items(queue) /\ orders' = orders /\ rejected' = rejected
  BY <1>1, <1>3, ItemsOfTail DEF ApplyNext, EngineInvariant, TypeInvariant, StepOK
<1>5. FillsAt(job.bars, orders, h, cursor)
  BY <1>1, <1>4 DEF EngineInvariant, TimeInvariant, Timing, FillsTimed
<1>6. BarOf(h) = cursor
  BY <1>5, FillBar DEF EngineInvariant, TypeInvariant
<1>7. h.id \in EventIds(queue)
  BY <1>1, <1>4, ItemIds, EventKinds
<1>8. h.id \notin EventIds(fills)
  <2>1. OnePlace(Places, nextOrder)
    BY <1>1 DEF EngineInvariant, LifeInvariant, Healthy, Life
  <2>2. Places["filled"] \cap Places["queued"] = {}
    BY <2>1 DEF OnePlace, PlaceNames
  <2>3. QED
    BY <1>7, <2>2, PlacesAre
<1>9. QED
  BY <1>1, <1>4, <1>5, <1>6, <1>7, <1>8

\* Fills keep the order of their bars.
LEMMA FillsInOrderIsKept ==
  ASSUME EngineInvariant, FillsInOrder, [Next]_vars
  PROVE  FillsInOrder'
<1>1. TypeInvariant /\ Timing /\ job \in Jobs /\ fills \in Seq(Fills)
  BY DEF EngineInvariant, TimeInvariant, TypeInvariant, ListsOK
<1>2. job' = job /\ \A e : BarOf(e)' = BarOf(e)
  BY JobIsKept, BarsStay
<1>3. \A f \in Items(fills) : BarOf(f) \in Nat
  <2>1. \A f \in Items(fills) : BarOf(f) \in DOMAIN job.bars
    BY <1>1, FillBar DEF Timing, FillsTimed
  <2>2. QED
    BY <1>1, <2>1, BarsApart
<1>4. cursor \in Nat
  BY DEF EngineInvariant, TypeInvariant, StepOK
<1>5. QuietMove \/ NewAccount \/ FillApplied \/ BarMarked
  BY StepsOfAccounts DEF EngineInvariant
<1>6. CASE QuietMove
  <2>1. fills' = fills
    BY <1>6 DEF QuietMove
  <2>2. \A i, j \in DOMAIN fills' :
          i < j => BarOf(fills[i])' <= BarOf(fills[j])' /\ fills'[i].id # fills'[j].id
    BY <1>2, <2>1 DEF FillsInOrder
  <2>3. ASSUME step' \notin {"warmup", "idle"}, NEW f \in Items(fills) PROVE BarOf(f) <= cursor'
    <3>1. CASE step = "warmup"
      BY <1>1, <2>3, <3>1, NothingInWarmUp
    <3>2. CASE step # "warmup"
      <4>1. step # "idle" /\ (cursor' = cursor \/ cursor' = cursor + 1)
        BY <1>6, <2>3, <3>2 DEF QuietMove
      <4>2. BarOf(f) <= cursor
        BY <2>3, <3>2, <4>1 DEF FillsInOrder
      <4>3. QED
        BY <1>3, <1>4, <2>3, <4>1, <4>2
    <3>3. QED
      BY <3>1, <3>2
  <2>4. QED
    BY <1>2, <2>1, <2>2, <2>3 DEF FillsInOrder
<1>7. CASE NewAccount
  <2>1. fills' = <<>> /\ step' = "warmup"
    BY <1>7 DEF NewAccount
  <2>2. QED
    BY <2>1 DEF FillsInOrder
<1>8. CASE BarMarked
  <2>1. fills' = fills /\ cursor' = cursor /\ step = "apply"
    BY <1>8 DEF BarMarked
  <2>2. QED
    BY <1>2, <2>1 DEF FillsInOrder
<1>9. CASE FillApplied
  <2> DEFINE h == Head(queue)
             n == Len(fills)
  <2>1. /\ step = "apply" /\ cursor' = cursor /\ h \in Fills /\ fills' = Append(fills, h)
        /\ BarOf(h) = cursor /\ h.id \notin EventIds(fills)
    BY <1>9, FillAppliedMeans
  <2> HIDE DEF h
  <2>2. /\ n \in Nat /\ DOMAIN fills = 1 .. n /\ DOMAIN fills' = 1 .. n + 1
        /\ fills'[n + 1] = h /\ \A k \in 1 .. n : fills'[k] = fills[k]
    BY <1>1, <2>1
  <2> HIDE DEF n
  <2>3. \A k \in 1 .. n : BarOf(fills[k]) <= cursor /\ fills[k].id # h.id
    <3>1. \A k \in 1 .. n : fills[k] \in Items(fills) /\ IsOrder(fills[k])
      BY <1>1, <2>2, EventKinds DEF Items
    <3>2. \A k \in 1 .. n : fills[k].id \in EventIds(fills)
      BY <3>1, ItemIds
    <3>3. QED
      BY <2>1, <3>1, <3>2 DEF FillsInOrder
  <2>4. ASSUME NEW i \in 1 .. n + 1, NEW j \in 1 .. n + 1, i < j
        PROVE  BarOf(fills'[i]) <= BarOf(fills'[j]) /\ fills'[i].id # fills'[j].id
    <3>1. i \in 1 .. n
      BY <2>2, <2>4
    <3>2. CASE j \in 1 .. n
      BY <2>2, <2>4, <3>1, <3>2 DEF FillsInOrder
    <3>3. CASE j \notin 1 .. n
      <4>1. j = n + 1
        BY <2>2, <3>3
      <4>2. QED
        BY <2>1, <2>2, <2>3, <3>1, <4>1
    <3>4. QED
      BY <3>2, <3>3
  <2>5. \A f \in Items(fills') : BarOf(f) <= cursor
    <3>1. \A k \in 1 .. n + 1 : k \in 1 .. n \/ k = n + 1
      BY <2>2
    <3>2. \A k \in 1 .. n + 1 : BarOf(fills'[k]) <= cursor
      BY <1>4, <2>1, <2>2, <2>3, <3>1
    <3>3. QED
      BY <2>2, <3>2 DEF Items
  <2>6. QED
    BY <1>2, <2>1, <2>2, <2>4, <2>5 DEF FillsInOrder
<1>10. QED
  BY <1>5, <1>6, <1>7, <1>8, <1>9

\* A strategy whose script trades the bars' symbols answers a bar with signals of its symbol.
LEMMA AnswersOwnBar ==
  ASSUME TypeInvariant, InBar, TradesOwnBars, NEW i \in DOMAIN Answer.signals
  PROVE  Answer.signals[i].symbol = Market.symbol
<1>1. job \in Jobs /\ Market \in Bars
  BY MarketIsABar DEF TypeInvariant
<1>2. CASE job.strategy.kind = "script"
  <2> DEFINE key == <<Market.symbol, Market.timestamp>>
  <2>1. Answer.signals = Strat!Scripted(job.strategy, Market)
    BY <1>2 DEF Strat!Observe, Answer
  <2>2. Strat!Scripted(job.strategy, Market)
          = IF key \in DOMAIN job.strategy.script THEN job.strategy.script[key] ELSE <<>>
    BY Zenon DEF Strat!Scripted
  <2>3. key[1] = Market.symbol
    OBVIOUS
  <2> HIDE DEF key
  <2>4. CASE key \in DOMAIN job.strategy.script
    BY <1>2, <2>1, <2>2, <2>3, <2>4 DEF TradesOwnBars
  <2>5. CASE key \notin DOMAIN job.strategy.script
    <3>1. Answer.signals = <<>>
      BY <2>1, <2>2, <2>5
    <3>2. QED
      BY <3>1
  <2>6. QED
    BY <2>4, <2>5
<1>3. CASE job.strategy.kind # "script"
  <2> DEFINE closes == Strat!Recent(strategy.history[Market.symbol], Market.close, Strat!WindowSize(job.strategy))
             cues == Strat!Cues(job.strategy, closes, strategy.previous[Market.symbol])
             reaction == Strat!Reaction(strategy.belief[Market.symbol], cues)
             side == IF Strat!Decides(job.strategy, closes, TRUE) THEN reaction ELSE None
             signal == [timestamp |-> Market.timestamp, symbol |-> Market.symbol, side |-> side]
  <2>1. Answer.signals = IF side = None THEN <<>> ELSE <<signal>>
    BY <1>3, Zenon DEF Strat!Observe, Answer
  <2>2. signal.symbol = Market.symbol
    OBVIOUS
  <2> HIDE DEF signal, side
  <2>3. Answer.signals = <<>> \/ Answer.signals = <<signal>>
    BY <2>1
  <2>4. CASE Answer.signals = <<>>
    BY <2>4
  <2>5. CASE Answer.signals = <<signal>>
    <3>1. i = 1 /\ Answer.signals[1] = signal
      BY <2>5
    <3>2. QED
      BY <2>2, <3>1
  <2>6. QED
    BY <2>3, <2>4, <2>5
<1>4. QED
  BY <1>2, <1>3

\* Orders stay decided at their bars.
LEMMA OrdersStayDecided ==
  ASSUME TypeInvariant, Timing, OwnBars, QuietMove \/ FillApplied \/ BarMarked, NEW o \in Items(orders)
  PROVE  /\ AnswersAt(o, BarOf(o))'
         /\ step' \in {"bar", "execute", "apply", "strategy"} => BarOf(o)' < cursor'
         /\ step' = "decide" => BarOf(o)' <= cursor'
<1>1. job' = job
  BY DEF QuietMove, FillApplied, BarMarked
<1>2. BarOf(o)' = BarOf(o) /\ (AnswersAt(o, BarOf(o))' <=> AnswersAt(o, BarOf(o)))
  BY <1>1 DEF BarOf, AnswersAt
<1>3. AnswersAt(o, BarOf(o)) /\ BarOf(o) \in Nat /\ cursor \in Nat
  <2>1. AnswersAt(o, BarOf(o)) /\ BarOf(o) \in DOMAIN job.bars
    BY DEF OwnBars, AnswersAt
  <2>2. QED
    BY <2>1, BarsApart DEF TypeInvariant, StepOK
<1>4. step # "warmup"
  BY NothingInWarmUp
<1>5. /\ step \in {"bar", "execute", "apply", "strategy"} => BarOf(o) < cursor
      /\ step = "decide" => BarOf(o) <= cursor
  BY DEF OwnBars
<1>6. CASE QuietMove
  BY <1>2, <1>3, <1>4, <1>5, <1>6 DEF QuietMove
<1>7. CASE FillApplied \/ BarMarked
  BY <1>2, <1>3, <1>5, <1>7 DEF FillApplied, BarMarked
<1>8. QED
  BY <1>6, <1>7

\* How the orders change.
LEMMA StepsOfOrders ==
  ASSUME TypeInvariant, [Next]_vars
  PROVE  orders' = orders \/ (orders' = <<>> /\ step' = "warmup") \/ TakeOrder
<1>1. StartRun => orders' = <<>> /\ step' = "warmup"
  BY DEF StartRun
<1>2. WarmUp \/ BeginEvaluation \/ NextBar \/ MarkBar \/ EndBar \/ FinishRun \/ TakeSignal \/ CallStrategy
        \/ ApplyNext \/ ExecuteOrder \/ EndExecution => orders' = orders
  BY Zenon DEF WarmUp, BeginEvaluation, NextBar, MarkBar, EndBar, FinishRun, TakeSignal, CallStrategy,
               ApplyNext, ExecuteOrder, EndExecution
<1>3. UNCHANGED vars => orders' = orders
  BY DEF vars, runVars
<1>4. QED
  BY <1>1, <1>2, <1>3 DEF Next, RunStep, Execute, Decide

\* Orders are created and decided at bars of their symbols.
LEMMA OwnBarsAreKept ==
  ASSUME EngineInvariant, TradesOwnBars, OwnBars, [Next]_vars
  PROVE  OwnBars'
<1>1. TypeInvariant /\ Timing /\ job \in Jobs /\ orders \in Seq(Orders) /\ queue \in Seq(Events)
  BY DEF EngineInvariant, TimeInvariant, TypeInvariant, ListsOK
<1>2. job' = job
  BY JobIsKept
<1>3. QuietMove \/ NewAccount \/ FillApplied \/ BarMarked
  BY StepsOfAccounts DEF EngineInvariant
<1>4. CASE orders' = <<>> /\ step' = "warmup"
  <2>1. Items(orders') = {}
    BY <1>4 DEF Items
  <2>2. QED
    BY <1>4, <2>1 DEF OwnBars
<1>5. CASE TakeOrder
  <2>1. TakeOrderFacts
    BY <1>1, <1>5, TakeOrderMeans
  <2>2. PICK h \in Orders :
          /\ step = "decide" /\ queue # <<>> /\ h = Head(queue) /\ queue' = Tail(queue) /\ cursor' = cursor
          /\ orders' = Append(orders, h)
    BY <2>1 DEF TakeOrderFacts
  <2>3. h \in Items(queue) /\ Items(Tail(queue)) \subseteq Items(queue)
    BY <1>1, <2>2, ItemsOfTail
  <2>4. h.symbol = Market.symbol /\ h.timestamp = Market.timestamp
    BY <1>1, <2>2, <2>3 DEF OwnBars, Timing, OrdersTimed
  <2>5. cursor \in DOMAIN job.bars
    BY <1>1, <2>2 DEF TypeInvariant, StepOK, InBar
  <2>6. AnswersAt(h, cursor)
    BY <2>4, <2>5 DEF AnswersAt, Market
  <2>7. BarOf(h) = cursor /\ AnswersAt(h, BarOf(h)) /\ cursor \in Nat
    BY <1>1, <2>5, <2>6, BarIs, BarsApart
  <2>8. Items(orders') = Items(orders) \cup {h}
    BY <1>1, <2>2, ItemsOfAppend
  <2>9. step' \in {"decide", "idle"} /\ ~NewAccount
    <3>1. step' = step \/ step' = "idle"
      BY <2>1, Zenon DEF TakeOrderFacts, Raise
    <3>2. QED
      BY <2>2, <3>1 DEF NewAccount
  <2>10. Market' = Market
    BY <1>2, <2>2 DEF Market
  <2>11. BarOf(h)' = BarOf(h) /\ (AnswersAt(h, BarOf(h))' <=> AnswersAt(h, BarOf(h)))
    BY <1>2 DEF BarOf, AnswersAt
  <2>12. \A e \in Items(queue') : e.symbol = Market'.symbol
    BY <2>2, <2>3, <2>10 DEF OwnBars
  <2>13. \A o \in Items(orders) : /\ AnswersAt(o, BarOf(o))'
                                  /\ step' = "decide" => BarOf(o)' <= cursor'
    BY <1>1, <1>3, <2>9, OrdersStayDecided
  <2>14. AnswersAt(h, BarOf(h))' /\ BarOf(h)' <= cursor'
    BY <2>2, <2>7, <2>11
  <2>15. QED
    BY <2>8, <2>9, <2>12, <2>13, <2>14 DEF OwnBars
<1>6. CASE orders' = orders /\ ~TakeOrder /\ ~(orders' = <<>> /\ step' = "warmup")
  <2>1. QuietMove \/ FillApplied \/ BarMarked
    <3>1. CASE NewAccount
      <4>1. step' = "warmup" /\ fills' = <<>> /\ portfolio' = NewPortfolio(job.capital, job.allowShort)
        BY <3>1 DEF NewAccount
      <4>2. UNCHANGED vars \/ WarmUp \/ StartRun
        BY <1>6, <4>1, Zenon DEF Next, RunStep, Execute, Decide, BeginEvaluation, NextBar, ExecuteOrder,
           EndExecution, ApplyNext, MarkBar, CallStrategy, TakeSignal, EndBar, FinishRun, Raise
      <4>3. StartRun => orders' = <<>>
        BY DEF StartRun
      <4>4. QuietMove
        BY <1>6, <4>1, <4>2, <4>3 DEF WarmUp, QuietMove, vars, runVars
      <4>5. QED
        BY <4>4
    <3>2. QED
      BY <1>3, <3>1
  <2>2. \A o \in Items(orders) : /\ AnswersAt(o, BarOf(o))'
                                 /\ step' \in {"bar", "execute", "apply", "strategy"} => BarOf(o)' < cursor'
                                 /\ step' = "decide" => BarOf(o)' <= cursor'
    BY <1>1, <2>1, OrdersStayDecided
  <2>3. ASSUME step' = "decide", NEW e \in Items(queue') PROVE e.symbol = Market'.symbol
    <3>1. CallStrategy \/ TakeSignal \/ UNCHANGED vars
      BY <1>6, <2>3, Zenon DEF Next, RunStep, Execute, Decide, StartRun, WarmUp, BeginEvaluation, NextBar,
         ExecuteOrder, EndExecution, ApplyNext, MarkBar, EndBar, FinishRun, Raise
    <3>2. CASE UNCHANGED vars
      <4>1. queue' = queue /\ step = "decide" /\ Market' = Market
        BY <1>2, <2>3, <3>2 DEF vars, runVars, Market
      <4>2. QED
        BY <2>3, <4>1 DEF OwnBars
    <3>3. CASE CallStrategy
      <4>1. CallStrategyFacts
        BY <1>1, <3>3, CallStrategyMeans
      <4>2. queue' = Answer.signals /\ cursor' = cursor /\ step = "strategy"
        BY <2>3, <4>1 DEF CallStrategyFacts, Raise
      <4>3. PICK i \in DOMAIN Answer.signals : e = Answer.signals[i]
        BY <2>3, <4>2 DEF Items
      <4>4. Market' = Market
        BY <1>2, <4>2 DEF Market
      <4>5. QED
        BY <1>1, <4>2, <4>3, <4>4, AnswersOwnBar DEF InBar
    <3>4. CASE TakeSignal
      <4> DEFINE h == Head(queue)
      <4>1. TakeSignalFacts
        BY <1>1, <3>4, TakeSignalMeans
      <4>2. /\ step = "decide" /\ queue # <<>> /\ h \in Signals /\ Tail(queue) \in Seq(Signals \cup Orders)
            /\ cursor' = cursor /\ queue' = Tail(queue) \o Generated(h)
        BY <3>4, <4>1 DEF TakeSignalFacts, TakeSignal
      <4>3. h \in Items(queue) /\ Items(Tail(queue)) \subseteq Items(queue)
        BY <1>1, <4>2, ItemsOfTail
      <4>4. Market' = Market /\ \A x \in Items(queue) : x.symbol = Market.symbol
        BY <1>2, <4>2 DEF Market, OwnBars
      <4>5. Generated(h) = <<>> \/ \E o \in Orders : Generated(h) = <<o>> /\ o.symbol = h.symbol
        BY <1>1, <4>2, GeneratedMeans, Zenon
      <4> HIDE DEF h
      <4> DEFINE rest == Tail(queue)
      <4> HIDE DEF rest
      <4>6. rest \in Seq(Signals \cup Orders) /\ queue' = rest \o Generated(h) /\ Items(rest) \subseteq Items(queue)
        BY <4>2, <4>3 DEF rest
      <4>7. CASE Generated(h) = <<>>
        <5>1. queue' = rest
          BY <4>6, <4>7
        <5>2. QED
          BY <2>3, <4>4, <4>6, <5>1
      <4>8. ASSUME NEW o \in Orders, Generated(h) = <<o>>, o.symbol = h.symbol
            PROVE  e.symbol = Market'.symbol
        <5>1. queue' = Append(rest, o)
          BY <4>6, <4>8
        <5>2. Items(queue') = Items(rest) \cup {o}
          BY <4>6, <5>1, ItemsOfAppend
        <5>3. QED
          BY <2>3, <4>3, <4>4, <4>6, <4>8, <5>2
      <4>9. QED
        BY <4>5, <4>7, <4>8
    <3>5. QED
      BY <3>1, <3>2, <3>3, <3>4
  <2>4. QED
    BY <1>6, <2>2, <2>3 DEF OwnBars
<1>7. QED
  BY <1>1, <1>4, <1>5, <1>6, StepsOfOrders

\* Without costs a fill is at the open.
LEMMA FreeFills ==
  ASSUME TypeInvariant, InBar, SteadyPrices, NEW o \in Orders, o.symbol = Market.symbol
  PROVE  AtPrice(FillOf(o, Market, job.commission, job.slippage))
<1> DEFINE fill == FillOf(o, Market, job.commission, job.slippage)
           price == Slipped(job.slippage, Market.open, o.side)
<1>1. /\ Market.open \in Int /\ Market.open = PriceOf(Market.symbol)
      /\ job.slippage.amount = Zero /\ job.commission.amount = Zero
  BY MarketIsABar, PriceIs DEF SteadyPrices, TypeInvariant, StepOK, Market
<1>2. ASSUME NEW i \in Int
      PROVE  Whole(i) ** Zero = Zero /\ Whole(i) ++ Zero = Whole(i) /\ Whole(i) -- Zero = Whole(i)
  <2>1. /\ 1 \in Nat \ {0} /\ Whole(i) \in Grid(1) /\ Units(Whole(i), 1) = i * 1
        /\ Zero \in Grid(1) /\ Units(Zero, 1) = 0 /\ Zero = Whole(0)
    BY WholeOnGrid, ZeroOnGrid DEF Zero
  <2>2. /\ Whole(i) ** Zero \in Grid(1) /\ Units(Whole(i) ** Zero, 1) = (i * 1) * 0
        /\ Whole(i) ++ Zero \in Grid(1) /\ Units(Whole(i) ++ Zero, 1) = (i * 1) + 0
        /\ Whole(i) -- Zero \in Grid(1) /\ Units(Whole(i) -- Zero, 1) = (i * 1) - 0
    <3>1. 0 \in Int
      OBVIOUS
    <3>2. Whole(i) ** Whole(0) \in Grid(1) /\ Units(Whole(i) ** Whole(0), 1) = (i * 1) * 0
      BY <2>1, <3>1, GridScales
    <3>3. QED
      BY <2>1, <3>2, GridAdds
  <2>3. (i * 1) * 0 = 0 /\ (i * 1) + 0 = i * 1 /\ (i * 1) - 0 = i * 1
    OBVIOUS
  <2>4. QED
    BY <2>1, <2>2, <2>3, GridIsUnique
<1>3. price = Whole(Market.open)
  <2> DEFINE move == IF job.slippage.kind = "fixed" THEN job.slippage.amount
                     ELSE Whole(Market.open) ** job.slippage.amount
  <2>1. price = IF o.side = "BUY" THEN Whole(Market.open) ++ move ELSE Whole(Market.open) -- move
    BY DEF Slipped
  <2>2. move = Zero
    BY <1>1, <1>2
  <2> HIDE DEF move, price
  <2>3. QED
    BY <1>1, <1>2, <2>1, <2>2
<1>4. CommissionOn(job.commission, o.quantity, price) = Zero
  <2>1. o.quantity \in Int /\ o.quantity * Market.open \in Int
    BY <1>1 DEF Orders
  <2>2. Whole(o.quantity) ** Whole(Market.open) = Whole(o.quantity * Market.open)
    <3> DEFINE c == o.quantity
               m == Market.open
    <3>1. c \in Int /\ m \in Int /\ c * m \in Int
      BY <1>1, <2>1
    <3> HIDE DEF c, m
    <3>2. 1 \in Nat \ {0} /\ Whole(c) \in Grid(1) /\ Units(Whole(c), 1) = c * 1
          /\ Whole(c * m) \in Grid(1) /\ Units(Whole(c * m), 1) = (c * m) * 1
      BY <3>1, WholeOnGrid
    <3>3. Whole(c) ** Whole(m) \in Grid(1) /\ Units(Whole(c) ** Whole(m), 1) = (c * 1) * m
      BY <3>1, <3>2, GridScales
    <3>4. (c * 1) * m = (c * m) * 1
      BY <3>1
    <3>5. QED
      BY <3>2, <3>3, <3>4, GridIsUnique DEF c, m
  <2>3. (Whole(o.quantity) ** price) ** Zero = Zero
    BY <1>2, <1>3, <2>1, <2>2
  <2>4. CommissionOn(job.commission, o.quantity, price)
          = IF job.commission.kind = "fixed" THEN job.commission.amount
            ELSE (Whole(o.quantity) ** price) ** job.commission.amount
    BY DEF CommissionOn
  <2> HIDE DEF price
  <2>5. QED
    BY <1>1, <2>3, <2>4
<1>5. fill.price = price /\ fill.commission = CommissionOn(job.commission, o.quantity, price) /\ fill.symbol = o.symbol
  BY DEF FillOf
<1> HIDE DEF fill, price
<1>6. QED
  BY <1>1, <1>3, <1>4, <1>5 DEF AtPrice, fill

\* Fills on their way keep their prices.
LEMMA PricedIsKept ==
  ASSUME EngineInvariant, EngineInvariant', SteadyPrices, Priced, [Next]_vars
  PROVE  Priced'
<1>1. /\ TypeInvariant /\ job' = job /\ \A f : AtPrice(f)' <=> AtPrice(f)
  BY JobIsKept DEF EngineInvariant, AtPrice, PriceOf
<1>2. ASSUME step' = "execute", NEW f \in Items(accepted') PROVE AtPrice(f)
  <2>1. UNCHANGED vars \/ NextBar \/ ExecuteOrder
    BY <1>2, Zenon DEF Next, RunStep, Execute, Decide, StartRun, WarmUp, BeginEvaluation, EndExecution,
       ApplyNext, MarkBar, CallStrategy, TakeSignal, TakeOrder, EndBar, FinishRun, Raise
  <2>2. CASE UNCHANGED vars
    BY <1>2, <2>2 DEF vars, runVars, simulatorVars, Priced
  <2>3. CASE NextBar
    <3>1. accepted' = accepted /\ step = "bar"
      BY <2>3 DEF NextBar, simulatorVars
    <3>2. accepted = <<>>
      BY <3>1 DEF EngineInvariant, LifeInvariant, Healthy, Life, EmptyQueues
    <3>3. QED
      BY <1>2, <3>1, <3>2, ItemsOfNothing
  <2>4. CASE ExecuteOrder
    <3> DEFINE o == Head(pending)
               fill == FillOf(o, Market, job.commission, job.slippage)
    <3>1. /\ step = "execute" /\ pending # <<>>
          /\ \/ Hold(Market)
             \/ Eligible(o, Market) /\ Match(fill, Accepts(fill))
             \/ PriceFails(fill)
      BY <2>4, Zenon DEF ExecuteOrder
    <3>2. o \in Orders /\ accepted \in Seq(Fills)
      BY <1>1, <3>1 DEF TypeInvariant, ListsOK
    <3>3. Eligible(o, Market) => AtPrice(fill)
      BY <1>1, <3>1, <3>2, FreeFills DEF Eligible, InBar
    <3> HIDE DEF fill, o
    <3>4. \A x \in Items(accepted) : AtPrice(x)
      BY <3>1 DEF Priced
    <3>5. accepted' = Append(accepted, fill) => Items(accepted') = Items(accepted) \cup {fill}
      BY <3>2, ItemsOfAppend
    <3>6. accepted' = accepted \/ (accepted' = Append(accepted, fill) /\ Eligible(o, Market))
      <4>1. Hold(Market) \/ PriceFails(fill) => accepted' = accepted
        BY DEF Hold, PriceFails
      <4>2. Match(fill, Accepts(fill)) => accepted' = accepted \/ accepted' = Append(accepted, fill)
        BY DEF Match
      <4>3. QED
        BY <3>1, <4>1, <4>2
    <3>7. QED
      BY <1>2, <3>3, <3>4, <3>5, <3>6
  <2>5. QED
    BY <2>1, <2>2, <2>3, <2>4
<1>3. ASSUME step' = "apply", NEW f \in Items(queue') PROVE AtPrice(f)
  <2>1. UNCHANGED vars \/ EndExecution \/ ApplyNext
    BY <1>3, Zenon DEF Next, RunStep, Execute, Decide, StartRun, WarmUp, BeginEvaluation, NextBar, ExecuteOrder,
       MarkBar, CallStrategy, TakeSignal, TakeOrder, EndBar, FinishRun, Raise
  <2>2. CASE UNCHANGED vars
    BY <1>3, <2>2 DEF vars, runVars, Priced
  <2>3. CASE EndExecution
    BY <1>3, <2>3 DEF EndExecution, Priced
  <2>4. CASE ApplyNext
    <3>1. queue # <<>> /\ queue' = Tail(queue) /\ step = "apply" /\ queue \in Seq(Events)
      BY <1>1, <2>4 DEF ApplyNext, TypeInvariant, ListsOK
    <3>2. f \in Items(queue)
      BY <1>3, <3>1, ItemsOfTail
    <3>3. QED
      BY <3>1, <3>2 DEF Priced
  <2>5. QED
    BY <2>1, <2>2, <2>3, <2>4
<1>4. QED
  BY <1>1, <1>2, <1>3 DEF Priced

\* A symbol whose bars were marked is marked at one of its closes.
LEMMA MarkedAtAClose ==
  ASSUME job \in Jobs, MarksTaken, NEW s \in Symbols, Known(s) # {}
  PROVE  \E k \in DOMAIN job.bars : job.bars[k].symbol = s /\ portfolio.marks[s] = job.bars[k].close
<1> DEFINE S == Known(s)
           c == CHOOSE k \in S : \A l \in S : l <= k
<1>1. S # {} /\ portfolio.marks[s] = job.bars[c].close
  BY DEF MarksTaken
<1>2. S \subseteq DOMAIN job.bars /\ \A k \in S : job.bars[k].symbol = s
  BY DEF Known
<1>3. IsFiniteSet(S) /\ \A k \in S : k \in Int
  <2>1. DOMAIN job.bars = 1 .. Len(job.bars) /\ Len(job.bars) \in Nat
    BY JobFacts
  <2>2. IsFiniteSet(1 .. Len(job.bars)) /\ S \subseteq 1 .. Len(job.bars)
    BY <1>2, <2>1, FS_Interval
  <2>3. QED
    BY <2>1, <2>2, FS_Subset
<1> HIDE DEF S
<1>4. c \in S
  <2>1. \E x \in S : \A y \in S : x >= y
    BY <1>1, <1>3, GreatestExists
  <2>2. \E x \in S : \A y \in S : y <= x
    BY <1>3, <2>1
  <2>3. QED
    BY <2>2, Zenon
<1> HIDE DEF c
<1>5. QED
  BY <1>1, <1>2, <1>4

\* Promises stand while the positions do.
LEMMA PromiseStays ==
  ASSUME NEW o, Promised(o), job' = job, portfolio'.positions = portfolio.positions, fills' = fills,
         RejectedIds \subseteq RejectedIds'
  PROVE  Promised(o)'
<1>1. /\ Fits(WorthWith(portfolio, o))' <=> Fits(WorthWith(portfolio, o))
      /\ \A f : BarOf(f)' = BarOf(f)
  BY DEF Fits, WorthWith, Worth, PriceOf, BarOf, AnswersAt
<1>2. BarOf(o)' = BarOf(o)
  BY <1>1
<1> USE DEF Promised
<1>3. SUFFICES ASSUME o.id \notin EventIds(fills') \cup RejectedIds', \A f \in Items(fills') : BarOf(f)' <= BarOf(o)'
               PROVE  Fits(WorthWith(portfolio, o))'
  OBVIOUS
<1>4. \A f \in Items(fills) : BarOf(f) <= BarOf(o)
  BY <1>1, <1>2, <1>3
<1>5. o.id \notin EventIds(fills) \cup RejectedIds
  BY <1>3
<1>6. QED
  BY <1>1, <1>4, <1>5

\* Snapshots that stay are within the limits still.
LEMMA SnapshotsStay ==
  ASSUME LimitsKept, job' = job, portfolio'.snapshots = portfolio.snapshots
  PROVE  LimitsKept'
BY DEF LimitsKept

\* What makes the account right after a step.
LEMMA KeptBy ==
  ASSUME job' = job, NEW q, portfolio' = q, q.cash ++ Total(Worth(q)) = Whole(job.capital),
         Fits(Worth(q)), LimitsKept', \A o \in Items(orders') : Promised(o)'
  PROVE  Kept'
<1>1. Worth(portfolio)' = Worth(q) /\ (Fits(Worth(portfolio))' <=> Fits(Worth(q)))
  BY DEF Worth, Fits, PriceOf
<1>2. (portfolio.cash ++ Total(Worth(portfolio)))' = q.cash ++ Total(Worth(q))
  BY <1>1
<1>3. QED
  BY <1>1, <1>2 DEF Kept

\* How fills are apart after a step.
LEMMA ApartAfter ==
  ASSUME job' = job, FilledApart', NEW i \in DOMAIN fills', NEW j \in DOMAIN fills', NEW o \in Items(orders'),
         NEW f, f = fills'[i], i < j, o.id = fills'[j].id
  PROVE  BarOf(f) <= BarOf(o)
<1>1. \A e : BarOf(e)' = BarOf(e)
  BY BarsStay
<1>2. \A k, l \in DOMAIN fills' : \A x \in Items(orders') : k < l /\ x.id = fills'[l].id => BarOf(fills[k])' <= BarOf(x)'
  BY DEF FilledApart
<1>3. BarOf(fills[i])' <= BarOf(o)'
  BY <1>2
<1>4. BarOf(fills[i])' = BarOf(f)
  BY BarsStay DEF BarOf, AnswersAt
<1>5. QED
  BY <1>1, <1>3, <1>4

\* Fills are apart if they are when there are more of them.
LEMMA ApartBefore ==
  ASSUME job' = job, FilledApart', Items(orders) \subseteq Items(orders'), fills \in Seq(Fills),
         fills' = fills \/ \E f \in Fills : fills' = Append(fills, f)
  PROVE  FilledApart
<1>1. \A i \in DOMAIN fills : i \in DOMAIN fills' /\ fills'[i] = fills[i]
  OBVIOUS
<1>2. SUFFICES ASSUME NEW i \in DOMAIN fills, NEW j \in DOMAIN fills, NEW o \in Items(orders),
                      i < j, o.id = fills[j].id
               PROVE  BarOf(fills[i]) <= BarOf(o)
  BY DEF FilledApart
<1>3. PICK f : f = fills[i]
  OBVIOUS
<1>4. BarOf(f) <= BarOf(o)
  BY <1>1, <1>2, <1>3, ApartAfter
<1>5. QED
  BY <1>3, <1>4

\* A new account is worth its capital, with nothing held.
LEMMA NewIsKept ==
  ASSUME job \in Jobs, NEW q, q = NewPortfolio(job.capital, job.allowShort)
  PROVE  q.cash ++ Total(Worth(q)) = Whole(job.capital) /\ Fits(Worth(q)) /\ q.snapshots = <<>>
<1>1. job.capital \in Int
  BY JobFacts
<1>2. AccountOK(q)
  BY <1>1, NewAccountOK
<1>3. q.snapshots = <<>> /\ q.cash = Whole(job.capital) /\ \A s \in Symbols : q.positions[s].quantity = 0
  BY DEF NewPortfolio, FlatPosition
<1>4. Fits(Worth(q)) /\ Total(Worth(q)) = Zero
  BY <1>2, <1>3, NothingFits
<1>5. Whole(job.capital) ++ Zero = Whole(job.capital)
  <2>1. /\ 1 \in Nat \ {0} /\ Whole(job.capital) \in Grid(1) /\ Zero \in Grid(1)
        /\ Units(Zero, 1) = 0
    BY <1>1, WholeOnGrid, ZeroOnGrid
  <2>2. /\ Whole(job.capital) ++ Zero \in Grid(1)
        /\ Units(Whole(job.capital) ++ Zero, 1) = Units(Whole(job.capital), 1) + 0
    BY <2>1, GridAdds
  <2>3. Units(Whole(job.capital), 1) \in Int
    BY <2>1, GridFacts
  <2>4. QED
    BY <2>1, <2>2, <2>3, GridIsUnique
<1>6. QED
  BY <1>3, <1>4, <1>5

\* Calling run again opens one.
LEMMA KeptInNewAccount ==
  ASSUME EngineInvariant, EngineInvariant', NewAccount
  PROVE  Kept'
<1>1. PICK q : q = NewPortfolio(job.capital, job.allowShort)
  OBVIOUS
<1>2. job \in Jobs /\ job' = job /\ portfolio' = q /\ step' = "warmup"
  BY <1>1 DEF EngineInvariant, TypeInvariant, NewAccount
<1>3. orders' = <<>>
  BY <1>2 DEF EngineInvariant, TimeInvariant, Timing, OrdersTimed
<1>4. q.cash ++ Total(Worth(q)) = Whole(job.capital) /\ Fits(Worth(q)) /\ q.snapshots = <<>>
  BY <1>1, <1>2, NewIsKept
<1>5. LimitsKept'
  BY <1>2, <1>4 DEF LimitsKept
<1>6. Items(orders') = {}
  BY <1>3 DEF Items
<1>7. QED
  BY <1>2, <1>4, <1>5, <1>6, KeptBy

\* A fill makes the positions those its order was approved with.
LEMMA KeptInFillApplied ==
  ASSUME EngineInvariant, SteadyPrices, Settled, OwnBars, Priced, Kept, FilledApart', FillApplied, [Next]_vars
  PROVE  Kept'
<1>1. PICK h \in Fills :
        /\ h = Head(queue) /\ h \in Items(queue) /\ step = "apply" /\ step' = "apply"
        /\ cursor' = cursor /\ job' = job /\ orders' = orders /\ rejected' = rejected
        /\ portfolio' = ProcessFill(portfolio, h) /\ fills' = Append(fills, h)
        /\ FillsAt(job.bars, orders, h, cursor) /\ BarOf(h) = cursor
        /\ h.id \in EventIds(queue) /\ h.id \notin EventIds(fills)
  BY FillAppliedMeans
<1>2. /\ job \in Jobs /\ AccountOK(portfolio) /\ fills \in Seq(Fills) /\ cursor \in Nat
  BY DEF EngineInvariant, TypeInvariant, ListsOK, StepOK
<1>3. AtPrice(h)
  BY <1>1 DEF Priced
<1>4. PICK o \in Items(orders) :
        o.id = h.id /\ o.symbol = h.symbol /\ Signed(o.side, o.quantity) = Signed(h.side, h.quantity)
  BY <1>1, <1>2, FillBar
<1>5. h.id \notin RejectedIds
  <2>1. OnePlace(Places, nextOrder)
    BY <1>1 DEF EngineInvariant, LifeInvariant, Healthy, Life
  <2>2. /\ Places["queued"] \cap Places["denied"] = {}
        /\ Places["queued"] \cap Places["refused"] = {}
    BY <2>1 DEF OnePlace, PlaceNames
  <2>3. EventIds(queue) \cap Denied = {} /\ EventIds(queue) \cap EventIds(refused) = {}
    BY <2>2, PlacesAre
  <2>4. QED
    BY <1>1, <2>3 DEF Settled
<1> DEFINE n == Len(fills)
<1>6. /\ n \in Nat /\ DOMAIN fills = 1 .. n /\ DOMAIN fills' = 1 .. n + 1 /\ fills'[n + 1] = h
      /\ \A k \in 1 .. n : fills'[k] = fills[k] /\ k < n + 1 /\ k \in 1 .. n + 1
      /\ n + 1 \in 1 .. n + 1
  BY <1>1, <1>2
<1> HIDE DEF n
<1>7. \A e : BarOf(e)' = BarOf(e)
  BY <1>1, BarsStay
<1>8. \A f \in Items(fills) : BarOf(f) <= BarOf(o)
  <2> SUFFICES ASSUME NEW k \in 1 .. n, NEW f, f = fills[k] PROVE BarOf(f) <= BarOf(o)
    BY <1>6 DEF Items
  <2>1. fills'[k] = f /\ k < n + 1 /\ k \in DOMAIN fills' /\ n + 1 \in DOMAIN fills' /\ o.id = fills'[n + 1].id
    BY <1>4, <1>6
  <2>2. o \in Items(orders')
    BY <1>1
  <2>3. QED
    BY <1>1, <2>1, <2>2, ApartAfter
<1>9. Fits(WorthWith(portfolio, o))
  BY <1>1, <1>4, <1>5, <1>8 DEF Kept, Promised
<1>10. WorthWith(portfolio, h) = WorthWith(portfolio, o)
  BY <1>4 DEF WorthWith
<1> DEFINE q == ProcessFill(portfolio, h)
<1>11. /\ Worth(q) = WorthWith(portfolio, h)
       /\ q.cash ++ Total(Worth(q)) = portfolio.cash ++ Total(Worth(portfolio))
  BY <1>2, <1>3, FillKeepsWorth DEF AtPrice
<1>12. q.snapshots = portfolio.snapshots /\ portfolio' = q
  BY <1>1, <1>2, ProcessFillIs
<1> HIDE DEF q
<1>13. LimitsKept'
  BY <1>1, <1>12, SnapshotsStay DEF Kept
<1>14. ASSUME NEW x \in Items(orders') PROVE Promised(x)'
  <2>1. h \in Items(fills')
    BY <1>6 DEF Items
  <2>2. BarOf(x) < cursor /\ BarOf(x) \in Nat
    <3>1. x \in Items(orders)
      BY <1>1, <1>14
    <3>2. BarOf(x) < cursor /\ BarOf(x) \in DOMAIN job.bars
      BY <1>1, <3>1 DEF OwnBars, AnswersAt
    <3>3. QED
      BY <1>2, <3>2, BarsApart
  <2>3. ~ (BarOf(h)' <= BarOf(x)')
    <3>1. BarOf(h)' = cursor /\ BarOf(x)' = BarOf(x)
      BY <1>1, <1>7
    <3>2. QED
      BY <1>2, <2>2, <3>1
  <2>4. QED
    BY <2>1, <2>3 DEF Promised
<1>15. QED
  BY <1>1, <1>9, <1>10, <1>11, <1>12, <1>13, <1>14, KeptBy DEF Kept

\* Marking makes a snapshot that is within the limits.
LEMMA KeptInBarMarked ==
  ASSUME EngineInvariant, AccountInvariant, SteadyPrices, Kept, BarMarked, [Next]_vars
  PROVE  Kept'
<1>1. /\ TypeInvariant /\ job \in Jobs /\ job' = job /\ AccountOK(portfolio) /\ fills' = fills
      /\ step = "apply" /\ step' = "strategy" /\ Market \in Bars /\ cursor \in DOMAIN job.bars /\ MarksTaken
  BY MarketIsABar DEF EngineInvariant, TypeInvariant, StepOK, InBar, BarMarked, AccountInvariant
<1>2. PICK S : portfolio.snapshots \in Seq(S)
  BY DEF AccountInvariant, SnapshotsTaken
<1>3. PICK q : q = MarkToMarket(portfolio, Market)
  OBVIOUS
<1>4. /\ q.cash = portfolio.cash /\ q.positions = portfolio.positions
      /\ q.marks = [portfolio.marks EXCEPT ![Market.symbol] = Market.close]
      /\ q.snapshots = Append(portfolio.snapshots, Snapshot(q, Market.timestamp)) /\ AccountOK(q)
  BY <1>1, <1>2, <1>3, MarkToMarketIs, MarkKeepsAccount
<1>5. portfolio' = q
  BY <1>3 DEF BarMarked
<1>6. Worth(q) = Worth(portfolio)
  BY <1>4 DEF Worth
<1>7. MarketValues(q) = Worth(q)
  <2>1. ASSUME NEW s \in Symbols, q.positions[s].quantity # 0
        PROVE  \E k \in DOMAIN job.bars : job.bars[k].symbol = s /\ q.marks[s] = job.bars[k].close
    <3>1. portfolio.marks \in [Symbols -> Int]
      BY <1>1 DEF AccountOK
    <3>2. CASE s = Market.symbol
      BY <1>1, <1>4, <3>1, <3>2 DEF Market
    <3>3. CASE s # Market.symbol
      <4>1. Known(s) # {} /\ q.marks[s] = portfolio.marks[s]
        BY <1>1, <1>4, <2>1, <3>1, <3>3 DEF MarksTaken
      <4>2. QED
        BY <1>1, <4>1, MarkedAtAClose
    <3>4. QED
      BY <3>2, <3>3
  <2>2. QED
    BY <1>1, <1>4, <2>1, ValuesAreWorth
<1>8. q.cash ++ Total(Worth(q)) = Whole(job.capital) /\ Fits(Worth(q)) /\ LimitsKept
  BY <1>4, <1>6 DEF Kept
<1>9. PICK shot : shot = Snapshot(q, Market.timestamp)
  OBVIOUS
<1>10. shot.gross = Total(Sizes(Worth(q))) /\ shot.net = Total(Worth(q)) /\ shot.equity = Whole(job.capital)
  BY <1>7, <1>8, <1>9 DEF Snapshot, GrossExposure, NetExposure, Equity, Sizes
<1>11. LimitsKept'
  <2>1. /\ Within(shot.gross, job.limits.gross) /\ Within(Absolute(shot.net), job.limits.net)
        /\ job.limits.grossPct # None => shot.gross \preceq (job.limits.grossPct ** shot.equity)
    BY <1>8, <1>10 DEF Fits
  <2> DEFINE shots == portfolio.snapshots
             n == Len(shots)
  <2>2. /\ n \in Nat /\ DOMAIN shots = 1 .. n /\ DOMAIN q.snapshots = 1 .. n + 1
        /\ q.snapshots[n + 1] = shot /\ \A i \in 1 .. n : q.snapshots[i] = shots[i]
    BY <1>2, <1>4, <1>9
  <2>3. ASSUME NEW i \in DOMAIN q.snapshots PROVE q.snapshots[i] = shot \/ (i \in DOMAIN shots /\ q.snapshots[i] = shots[i])
    <3> HIDE DEF n, shots
    <3>1. i = n + 1 \/ i \in 1 .. n
      BY <2>2, <2>3
    <3>2. QED
      BY <2>2, <3>1
  <2>4. ASSUME NEW i \in DOMAIN q.snapshots
        PROVE  LET one == q.snapshots[i] IN
               /\ Within(one.gross, job.limits.gross) /\ Within(Absolute(one.net), job.limits.net)
               /\ job.limits.grossPct # None => one.gross \preceq (job.limits.grossPct ** one.equity)
    BY <1>8, <2>1, <2>3, <2>4, Zenon DEF LimitsKept
  <2>5. QED
    BY <1>1, <1>5, <2>4, Zenon DEF LimitsKept
<1>12. orders' = orders
  <2>1. ~TakeOrder /\ step' # "warmup"
    BY <1>1, Zenon DEF TakeOrder
  <2>2. QED
    BY <1>1, <2>1, StepsOfOrders
<1>13. RejectedIds \subseteq RejectedIds'
  BY <1>1, RejectedGrow
<1>14. ASSUME NEW o \in Items(orders') PROVE Promised(o)'
  <2>1. Promised(o)
    BY <1>12, <1>14 DEF Kept
  <2>2. QED
    BY <1>1, <1>4, <1>5, <1>13, <2>1, PromiseStays
<1>15. QED
  BY <1>1, <1>5, <1>8, <1>11, <1>14, KeptBy

\* An order that may be filled was approved at the close its fill will have.
LEMMA NewPromise ==
  ASSUME EngineInvariant, EngineInvariant', AccountInvariant, SteadyPrices, OwnBars, Kept, QuietMove, TakeOrder,
         NEW h \in Orders, h = Head(queue)
  PROVE  Promised(h)'
<1>1. TypeInvariant /\ job \in Jobs /\ AccountOK(portfolio) /\ MarksTaken /\ queue \in Seq(Events)
      /\ rejected \in Seq(Rejections) /\ job' = job /\ portfolio' = portfolio
  BY DEF EngineInvariant, TypeInvariant, ListsOK, AccountInvariant, QuietMove
<1>2. TakeOrderFacts
  BY <1>1, TakeOrderMeans
<1>3. step = "decide" /\ queue # <<>>
  BY <1>2 DEF TakeOrderFacts
<1>4. h \in Items(queue)
  BY <1>1, <1>3, ItemsOfTail
<1>5. h.symbol = Market.symbol /\ Market.close = PriceOf(Market.symbol)
  <2>1. cursor \in DOMAIN job.bars
    BY <1>1, <1>3 DEF TypeInvariant, StepOK, InBar
  <2>2. QED
    BY <1>1, <1>3, <1>4, <2>1, PriceIs DEF OwnBars, Market
<1>6. CASE DecisionFor(h) # Approved
  <2> DEFINE e == [order |-> h, timestamp |-> Market.timestamp, reason |-> DecisionFor(h), late |-> FALSE]
  <2>1. rejected' = Append(rejected, e)
    BY <1>3, <1>6, Zenon DEF TakeOrder
  <2>2. e \in Rejections
    <3>1. Market.timestamp \in Nat
      BY <1>1, <1>3, MarketIsABar DEF InBar
    <3>2. DecisionFor(h) \in Reasons
      BY <1>6, DecisionIsAReason DEF DecisionFor
    <3>3. QED
      BY <3>1, <3>2 DEF Rejections
  <2>3. e.order.id = h.id
    OBVIOUS
  <2> HIDE DEF e
  <2>4. h.id \in RejectedIds'
    BY <1>1, <2>1, <2>2, <2>3, RejectedByAppend
  <2>5. QED
    BY <2>4 DEF Promised
<1>7. CASE DecisionFor(h) = Approved
  <2>1. MarketValues(portfolio) = Worth(portfolio)
    <3>1. ASSUME NEW s \in Symbols, portfolio.positions[s].quantity # 0
          PROVE  \E k \in DOMAIN job.bars : job.bars[k].symbol = s /\ portfolio.marks[s] = job.bars[k].close
      <4>1. Known(s) # {}
        BY <1>1, <1>3, <3>1 DEF MarksTaken
      <4>2. QED
        BY <1>1, <4>1, MarkedAtAClose
    <3>2. QED
      BY <1>1, <3>1, ValuesAreWorth
  <2>2. Equity(portfolio) = Whole(job.capital) /\ Fits(Worth(portfolio))
    BY <2>1 DEF Kept, Equity, NetExposure
  <2>3. Decision(h, portfolio, PriceOf(h.symbol), job.limits) = Approved
    BY <1>5, <1>7 DEF DecisionFor
  <2>4. Fits(WorthWith(portfolio, h))
    BY <1>1, <2>1, <2>2, <2>3, ApprovalFits
  <2>5. Fits(WorthWith(portfolio, h))' <=> Fits(WorthWith(portfolio, h))
    BY <1>1 DEF Fits, WorthWith, Worth, PriceOf
  <2>6. QED
    BY <2>4, <2>5 DEF Promised
<1>8. QED
  BY <1>6, <1>7

\* Nothing else changes what an order was approved with.
LEMMA KeptInQuietMove ==
  ASSUME EngineInvariant, EngineInvariant', AccountInvariant, SteadyPrices, OwnBars, Kept, QuietMove, [Next]_vars
  PROVE  Kept'
<1>1. /\ TypeInvariant /\ orders \in Seq(Orders) /\ job' = job /\ portfolio' = portfolio /\ fills' = fills
  BY DEF EngineInvariant, TypeInvariant, ListsOK, QuietMove
<1>2. step' = "warmup" => orders' = <<>>
  BY DEF EngineInvariant, TimeInvariant, Timing, OrdersTimed
<1>3. ASSUME orders' # <<>>, NEW o \in Items(orders) PROVE Promised(o)'
  <2>1. RejectedIds \subseteq RejectedIds'
    BY <1>1, <1>2, <1>3, RejectedGrow
  <2>2. Promised(o)
    BY <1>3 DEF Kept
  <2>3. QED
    BY <1>1, <2>1, <2>2, PromiseStays
<1>4. ASSUME NEW o \in Items(orders') PROVE Promised(o)'
  <2>1. orders' # <<>>
    BY <1>4, ItemsOfNothing
  <2>2. CASE orders' = orders
    BY <1>3, <1>4, <2>1, <2>2
  <2>3. CASE TakeOrder
    <3>1. PICK h \in Orders : h = Head(queue) /\ orders' = Append(orders, h)
      BY <1>1, <2>3, TakeOrderMeans DEF TakeOrderFacts
    <3>2. Items(orders') = Items(orders) \cup {h}
      BY <1>1, <3>1, ItemsOfAppend
    <3>3. Promised(h)'
      BY <2>3, <3>1, NewPromise
    <3>4. o = h \/ o \in Items(orders)
      BY <1>4, <3>2
    <3>5. QED
      BY <1>3, <2>1, <3>1, <3>3, <3>4
  <2>4. QED
    BY <1>1, <2>1, <2>2, <2>3, StepsOfOrders
<1>5. LimitsKept'
  BY <1>1, SnapshotsStay DEF Kept
<1>6. PICK q : q = portfolio
  OBVIOUS
<1>7. portfolio' = q /\ q.cash ++ Total(Worth(q)) = Whole(job.capital) /\ Fits(Worth(q))
  BY <1>1, <1>6 DEF Kept
<1>8. QED
  BY <1>1, <1>4, <1>5, <1>7, KeptBy

\* Orders are forgotten only by a new call of run.
LEMMA OrdersStay ==
  ASSUME EngineInvariant, QuietMove \/ FillApplied \/ BarMarked, [Next]_vars
  PROVE  Items(orders) \subseteq Items(orders')
<1>1. TypeInvariant /\ Timing /\ orders \in Seq(Orders)
  BY DEF EngineInvariant, TimeInvariant, TypeInvariant, ListsOK
<1>2. CASE orders' = <<>> /\ step' = "warmup"
  <2>1. step = "warmup"
    BY <1>2 DEF QuietMove, FillApplied, BarMarked
  <2>2. QED
    BY <1>1, <2>1, NothingInWarmUp
<1>3. CASE TakeOrder
  <2>1. orders' = Append(orders, Head(queue))
    BY <1>3 DEF TakeOrder
  <2>2. QED
    BY <1>1, <2>1, ItemsOfAppend
<1>4. QED
  BY <1>1, <1>2, <1>3, StepsOfOrders

\* The account is kept by every step.
LEMMA AccountStaysKept ==
  ASSUME EngineInvariant, EngineInvariant', AccountInvariant, SteadyPrices, Settled, OwnBars, Priced,
         FilledApart => Kept, FilledApart', [Next]_vars
  PROVE  Kept'
<1>1. /\ TypeInvariant /\ TimeInvariant /\ job' = job /\ fills \in Seq(Fills)
  BY JobIsKept DEF EngineInvariant, TypeInvariant, ListsOK
<1>2. CASE NewAccount
  BY <1>2, KeptInNewAccount
<1>3. ASSUME QuietMove \/ FillApplied \/ BarMarked PROVE Kept
  <2>1. fills' = fills \/ \E f \in Fills : fills' = Append(fills, f)
    BY <1>3 DEF QuietMove, FillApplied, BarMarked
  <2>2. FilledApart
    BY <1>1, <1>3, <2>1, OrdersStay, ApartBefore
  <2>3. QED
    BY <2>2
<1>4. CASE QuietMove
  BY <1>3, <1>4, KeptInQuietMove
<1>5. CASE FillApplied
  BY <1>3, <1>5, KeptInFillApplied
<1>6. CASE BarMarked
  BY <1>3, <1>6, KeptInBarMarked
<1>7. QED
  BY <1>1, <1>2, <1>4, <1>5, <1>6, StepsOfAccounts

\* The invariant holds at the start,
LEMMA LimitsInitially == Init => LimitInvariant
<1> SUFFICES ASSUME Init PROVE LimitInvariant
  OBVIOUS
<1>1. /\ job \in Jobs /\ step = "idle" /\ orders = <<>> /\ fills = <<>> /\ rejected = <<>>
      /\ portfolio = NewPortfolio(job.capital, job.allowShort)
  BY DEF Init
<1>2. Items(orders) = {} /\ DOMAIN fills = {} /\ RejectedIds = {}
  BY <1>1 DEF Items, RejectedIds
<1>3. Settled /\ FillsInOrder /\ OwnBars /\ Priced
  BY <1>1, <1>2 DEF Settled, FillsInOrder, OwnBars, Priced
<1>4. /\ portfolio.cash ++ Total(Worth(portfolio)) = Whole(job.capital) /\ Fits(Worth(portfolio))
      /\ portfolio.snapshots = <<>>
  BY <1>1, NewIsKept
<1>5. LimitsKept
  BY <1>4 DEF LimitsKept
<1>6. Kept
  BY <1>2, <1>4, <1>5 DEF Kept
<1>7. QED
  BY <1>3, <1>6 DEF LimitInvariant

\* and after every step.
LEMMA LimitsAreKept ==
  ASSUME EngineInvariant, EngineInvariant', AccountInvariant, LimitInvariant, [Next]_vars
  PROVE  LimitInvariant'
<1>1. /\ SteadyPrices' <=> SteadyPrices
      /\ TradesOwnBars' <=> TradesOwnBars
  BY JobIsKept, BarsStay DEF EngineInvariant, TypeInvariant
<1>2. Settled' /\ FillsInOrder'
  BY SettledIsKept, FillsInOrderIsKept DEF LimitInvariant
<1>3. TradesOwnBars' => OwnBars'
  BY <1>1, OwnBarsAreKept DEF LimitInvariant
<1>4. SteadyPrices' => Priced'
  BY <1>1, PricedIsKept DEF LimitInvariant
<1>5. ASSUME SteadyPrices', TradesOwnBars', FilledApart' PROVE Kept'
  BY <1>1, <1>5, AccountStaysKept DEF LimitInvariant
<1>6. QED
  BY <1>2, <1>3, <1>4, <1>5 DEF LimitInvariant

\* It says more than what the runs check.
LEMMA LimitsMean ==
  ASSUME EngineInvariant, LimitInvariant
  PROVE  LimitsHoldForFills
<1> SUFFICES ASSUME SteadyPrices, TradesOwnBars, OrdersDoNotOverlap PROVE LimitsKept
  BY DEF LimitsHoldForFills
<1>1. FilledApart
  BY NoOverlapMeansApart DEF EngineInvariant, TimeInvariant, LimitInvariant
<1>2. QED
  BY <1>1 DEF LimitInvariant, Kept

\* What the risk manager checks is what happens, whatever the limits, while prices stand
\* still, orders are of the symbols of their bars and none is decided before the last is
\* filled: no later fill, refusal or mark brings the gross exposure, the net exposure or
\* the share of equity of a snapshot over its limit (RiskManager.validate_order,
\* BacktestEngine._process_strategy and _process_pending_orders).
THEOREM CheckedLimitsHold == Spec => []LimitsHoldForFills
<1>1. Init => LimitInvariant
  BY LimitsInitially
<1>2. /\ EngineInvariant /\ EngineInvariant' /\ AccountInvariant /\ LimitInvariant /\ [Next]_vars
           => LimitInvariant'
      /\ EngineInvariant /\ AccountInvariant /\ [Next]_vars => AccountInvariant'
  BY LimitsAreKept, AccountIsKept
<1>3. EngineInvariant /\ LimitInvariant => LimitsHoldForFills
  BY LimitsMean
<1>4. QED
  BY <1>1, <1>2, <1>3, AccountInitially, EngineInvariantHolds, PTL DEF Spec
================================================================================
