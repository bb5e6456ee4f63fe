--------------------------- MODULE WalkForwardProofs ---------------------------
(***************************************************************************)
(* The theorems about WalkForward, for any evaluations, frames, settings,  *)
(* grids, backtest and objective.  ResearchInvariant is inductive: what an *)
(* evaluation has is a function of its data and settings, with one lemma   *)
(* per step.  That tests are apart and later, that the selection is blind  *)
(* and that the combined equity goes on follow from it.  First come lemmas *)
(* about the concatenation of lists.                                       *)
(***************************************************************************)
EXTENDS WalkForward, NumberFacts, SequenceTheorems

(***************************************************************************)
(* Lists of lists of one size                                              *)
(***************************************************************************)
\* Where an element of the k-th list is.
Position(k, size, i) == (k - 1) * size + i

\* Every position is of one element of one list, and of no other.
LEMMA PositionIsUnique ==
  ASSUME NEW size \in Nat, NEW k \in Nat \ {0}, NEW l \in Nat \ {0},
         NEW i \in 1 .. size, NEW j \in 1 .. size, Position(k, size, i) = Position(l, size, j)
  PROVE  k = l /\ i = j
<1>1. size \in Nat \ {0} /\ k - 1 \in Int /\ l - 1 \in Int /\ i - 1 \in Nat /\ j - 1 \in Nat
      /\ i - 1 < size /\ j - 1 < size
  OBVIOUS
<1>2. size * (k - 1) + (i - 1) = size * (l - 1) + (j - 1)
  BY <1>1 DEF Position
<1>3. (size * (k - 1) + (i - 1)) % size = i - 1 /\ (size * (l - 1) + (j - 1)) % size = j - 1
      /\ (size * (k - 1) + (i - 1)) \div size = k - 1 /\ (size * (l - 1) + (j - 1)) \div size = l - 1
  BY <1>1, DivisionIsUnique
<1>4. QED
  BY <1>2, <1>3

\* Every position up to the last is of some element.
LEMMA PositionExists ==
  ASSUME NEW size \in Nat, NEW n \in Nat, NEW m \in 1 .. n * size
  PROVE  \E k \in 1 .. n, i \in 1 .. size : m = Position(k, size, i)
<1>1. size \in Nat \ {0} /\ m - 1 \in Nat
  OBVIOUS
<1> DEFINE q == (m - 1) \div size
           r == (m - 1) % size
<1>2. q \in Nat /\ r \in Nat /\ r < size /\ m - 1 = size * q + r
  BY <1>1, Division
<1> HIDE DEF q, r
<1>3. q < n
  <2>1. SUFFICES ASSUME q >= n PROVE FALSE
    BY <1>2
  <2>2. size * q >= size * n
    BY <1>1, <1>2, <2>1
  <2>3. QED
    BY <1>1, <1>2, <2>2
<1>4. q + 1 \in 1 .. n /\ r + 1 \in 1 .. size
  BY <1>1, <1>2, <1>3
<1>5. m = Position(q + 1, size, r + 1)
  BY <1>1, <1>2 DEF Position
<1>6. QED
  BY <1>4, <1>5

\* The elements of a list come before those of the next.
LEMMA PositionInside ==
  ASSUME NEW size \in Nat, NEW n \in Nat, NEW k \in 1 .. n, NEW i \in 1 .. size
  PROVE  /\ Position(k, size, i) \in 1 .. n * size
         /\ k < n => Position(k, size, i) \in 1 .. (n - 1) * size
         /\ k = n => Position(k, size, i) = (n - 1) * size + i
<1>1. k - 1 \in Nat /\ n - 1 \in Nat /\ (k - 1) * size \in Nat /\ (n - 1) * size \in Nat
  OBVIOUS
<1>2. (k - 1) * size + size = k * size
  BY <1>1
<1>3. k * size <= n * size
  OBVIOUS
<1>4. k < n => k * size <= (n - 1) * size
  BY <1>1
<1>5. QED
  BY <1>1, <1>2, <1>3, <1>4 DEF Position

\* What is made of lists of one size when they are concatenated.
Concatenation(flat, lists, S, size) ==
  /\ flat \in Seq(S)
  /\ Len(flat) = Len(lists) * size
  /\ \A k \in 1 .. Len(lists), i \in 1 .. size : flat[Position(k, size, i)] = lists[k][i]

\* FlattenSeq concatenates.
LEMMA FlattenedLists ==
  ASSUME NEW S, NEW size \in Nat, NEW lists \in Seq(Seq(S)), lists # <<>>,
         \A k \in DOMAIN lists : Len(lists[k]) = size
  PROVE  Concatenation(Lists!FlattenSeq(lists), lists, S, size)
<1> DEFINE n == Len(lists)
           Part(f, j) ==
             /\ f \in Seq(S) /\ Len(f) = j * size
             /\ \A k \in 1 .. j, i \in 1 .. size : f[Position(k, size, i)] = lists[k][i]
<1>1. n \in Nat \ {0} /\ DOMAIN lists = 1 .. n
  BY EmptySeq, LenProperties
<1>2. \A k \in 1 .. n : lists[k] \in Seq(S) /\ Len(lists[k]) = size
  BY <1>1, ElementOfSeq
<1> HIDE DEF n
<1>3. ASSUME NEW j \in 2 .. n, NEW f, Part(f, j - 1) PROVE Part(f \o lists[j], j)
  <2>1. f \in Seq(S) /\ Len(f) = (j - 1) * size /\ lists[j] \in Seq(S) /\ Len(lists[j]) = size
    BY <1>2, <1>3
  <2>2. f \o lists[j] \in Seq(S) /\ Len(f \o lists[j]) = j * size
    <3>1. (j - 1) * size + size = j * size
      BY <1>1
    <3>2. f \o lists[j] \in Seq(S) /\ Len(f \o lists[j]) = Len(f) + Len(lists[j])
      BY <2>1, ConcatProperties
    <3>3. QED
      BY <2>1, <3>1, <3>2
  <2>5. j \in Nat /\ j - 1 \in Nat
    BY <1>1
  <2>3. ASSUME NEW k \in 1 .. j, NEW i \in 1 .. size
        PROVE  (f \o lists[j])[Position(k, size, i)] = lists[k][i]
    <3>1. CASE k < j
      <4>1. Position(k, size, i) \in 1 .. Len(f)
        BY <2>1, <2>5, <3>1, PositionInside
      <4>2. (f \o lists[j])[Position(k, size, i)] = f[Position(k, size, i)]
        BY <2>1, <4>1, ConcatProperties
      <4>3. QED
        BY <1>3, <3>1, <4>2
    <3>2. CASE k = j
      <4>1. Position(k, size, i) = Len(f) + i /\ Position(k, size, i) \in 1 .. Len(f) + size
        <5>1. Position(k, size, i) = Len(f) + i
          BY <2>1, <3>2 DEF Position
        <5>2. Len(f) \in Nat
          BY <2>1, LenProperties
        <5>3. QED
          BY <5>1, <5>2
      <4>2. QED
        BY <2>1, <3>2, <4>1, ConcatProperties
    <3>3. k < j \/ k = j
      BY <2>5
    <3>4. QED
      BY <3>1, <3>2, <3>3, Zenon
  <2>4. QED
    BY <2>2, <2>3
<1>4. Part(lists[1], 1)
  BY <1>1, <1>2 DEF Position
<1> HIDE DEF Part
<1> DEFINE Concatenates(f) == f = [j \in 1 .. n |-> IF j = 1 THEN lists[j] ELSE f[j - 1] \o lists[j]]
<1>5. ASSUME NEW f, Concatenates(f) PROVE \A j \in 1 .. n : Part(f[j], j)
  <2> DEFINE B == {j \in 1 .. n : ~ Part(f[j], j)}
  <2>1. SUFFICES ASSUME B # {} PROVE FALSE
    OBVIOUS
  <2>2. PICK j \in B : \A m \in B : j <= m
    <3> HIDE DEF B
    <3>1. B \subseteq Nat
      BY DEF B
    <3>2. QED
      BY <2>1, <3>1, LeastExists
  <2>3. f[j] = IF j = 1 THEN lists[j] ELSE f[j - 1] \o lists[j]
    BY <1>5, Zenon
  <2>4. CASE j = 1
    BY <1>4, <2>2, <2>3, <2>4
  <2>5. CASE j # 1
    <3>1. j \in 2 .. n /\ j - 1 \in 1 .. n /\ j - 1 \notin B
      BY <1>1, <2>2, <2>5
    <3>2. Part(f[j - 1], j - 1)
      BY <3>1
    <3>3. QED
      BY <1>3, <2>2, <2>3, <2>5, <3>1, <3>2
  <2>6. QED
    BY <2>4, <2>5
<1>6. \E f : Concatenates(f)
  <2> DEFINE step == [p \in (1 .. n) \X Seq(S) |-> p[2] \o lists[p[1]]]
  <2>1. step \in [(1 .. n) \X Seq(S) -> Seq(S)]
    <3>1. ASSUME NEW p \in (1 .. n) \X Seq(S) PROVE p[2] \o lists[p[1]] \in Seq(S)
      <4>1. p[1] \in 1 .. n /\ p[2] \in Seq(S)
        OBVIOUS
      <4>2. QED
        BY <1>2, <4>1, ConcatProperties
    <3>2. QED
      BY <3>1
  <2>2. <<>> \in Seq(S) /\ n \in Nat
    BY <1>1, EmptySeq
  <2> HIDE DEF step
  <2>3. PICK g \in [0 .. n -> Seq(S)] : g[0] = <<>> /\ \A i \in 1 .. n : g[i] = step[<<i, g[i - 1]>>]
    <3>1. \E g \in [0 .. n -> Seq(S)] : Recurs(g, <<>>, step, n)
      BY <2>1, <2>2, RecursionExists, Zenon
    <3>2. QED
      BY <3>1 DEF Recurs
  <2>4. \A i \in 1 .. n : g[i] = g[i - 1] \o lists[i]
    <3> SUFFICES ASSUME NEW i \in 1 .. n PROVE g[i] = g[i - 1] \o lists[i]
      OBVIOUS
    <3>1. i - 1 \in 0 .. n /\ g[i - 1] \in Seq(S)
      BY <1>1
    <3>2. <<i, g[i - 1]>> \in (1 .. n) \X Seq(S)
      BY <3>1
    <3>3. QED
      BY <2>3, <3>2 DEF step
  <2>5. g[1] = lists[1]
    <3>1. 1 \in 1 .. n /\ g[1] = g[0] \o lists[1] /\ lists[1] \in Seq(S)
      BY <1>1, <1>2, <2>4
    <3>2. QED
      BY <2>3, <3>1, ConcatEmptySeq
  <2> DEFINE h == [j \in 1 .. n |-> g[j]]
  <2>6. ASSUME NEW j \in 1 .. n PROVE h[j] = IF j = 1 THEN lists[j] ELSE h[j - 1] \o lists[j]
    <3>1. CASE j = 1
      BY <2>5, <3>1
    <3>2. CASE j # 1
      <4>1. j - 1 \in 1 .. n
        BY <1>1, <3>2
      <4>2. QED
        BY <2>4, <3>2, <4>1
    <3>3. QED
      BY <3>1, <3>2
  <2>7. h = [j \in 1 .. n |-> IF j = 1 THEN lists[j] ELSE h[j - 1] \o lists[j]]
    <3> HIDE DEF h
    <3>1. h = [j \in 1 .. n |-> h[j]]
      BY DEF h
    <3>2. QED
      BY <2>6, <3>1
  <2>8. QED
    BY <2>7
<1> DEFINE flatten == CHOOSE f : Concatenates(f)
<1>7. Concatenates(flatten)
  BY <1>6, Zenon
<1> HIDE DEF Concatenates
<1>8. Lists!FlattenSeq(lists) = flatten[n]
  <2>1. n # 0
    BY <1>1
  <2>2. QED
    BY <2>1 DEF Lists!FlattenSeq, n, Concatenates
<1>9. Part(flatten[n], n)
  BY <1>1, <1>5, <1>7
<1>10. QED
  BY <1>8, <1>9 DEF Part, n, Concatenation
-----------------------------------------------------------------------------
(***************************************************************************)
(* The grid and the selection                                              *)
(***************************************************************************)
\* A function on an interval is a list.
LEMMA FunctionIsList ==
  ASSUME NEW n \in Nat, NEW T, NEW f \in [1 .. n -> T]
  PROVE  f \in Seq(T) /\ Len(f) = n
OBVIOUS

\* A valid grid has combinations,
LEMMA ExtendedType ==
  ASSUME NEW partial \in Seq(Seq(Values)) \ {<<>>}, NEW choices \in Seq(Values) \ {<<>>}
  PROVE  Extended(partial, choices) \in Seq(Seq(Values)) \ {<<>>}
<1> DEFINE row(i) == [k \in DOMAIN choices |-> Append(partial[i], choices[k])]
           rows == [i \in DOMAIN partial |-> row(i)]
           T == Seq(Values)
<1>1. /\ Len(partial) \in Nat \ {0} /\ DOMAIN partial = 1 .. Len(partial)
      /\ Len(choices) \in Nat \ {0} /\ DOMAIN choices = 1 .. Len(choices)
      /\ \A k \in DOMAIN choices : choices[k] \in Values
      /\ \A i \in DOMAIN partial : partial[i] \in Seq(Values)
  BY EmptySeq, LenProperties
<1>2. ASSUME NEW i \in DOMAIN partial
      PROVE  row(i) \in Seq(T) /\ Len(row(i)) = Len(choices)
  <2>1. \A k \in DOMAIN choices : Append(partial[i], choices[k]) \in T
    BY <1>1, AppendProperties
  <2> HIDE DEF T
  <2>2. row(i) \in [1 .. Len(choices) -> T]
    BY <1>1, <2>1
  <2> HIDE DEF row
  <2>3. QED
    BY <1>1, <2>2, FunctionIsList
<1> HIDE DEF row, T
<1>3. rows \in Seq(Seq(T)) /\ Len(rows) = Len(partial) /\ \A i \in DOMAIN rows : Len(rows[i]) = Len(choices)
  <2>1. rows \in [1 .. Len(partial) -> Seq(T)]
    BY <1>1, <1>2
  <2>2. \A i \in DOMAIN rows : Len(rows[i]) = Len(choices)
    BY <1>2
  <2> HIDE DEF rows
  <2>3. QED
    BY <1>1, <2>1, <2>2, FunctionIsList
<1>4. Extended(partial, choices) = Lists!FlattenSeq(rows)
  BY DEF Extended, row
<1> HIDE DEF rows
<1>5. rows # <<>>
  BY <1>1, <1>3, EmptySeq
<1>6. /\ Lists!FlattenSeq(rows) \in Seq(T)
      /\ Len(Lists!FlattenSeq(rows)) = Len(rows) * Len(choices)
  BY <1>1, <1>3, <1>5, FlattenedLists DEF Concatenation
<1>7. Len(rows) * Len(choices) # 0
  BY <1>1, <1>3
<1>8. Lists!FlattenSeq(rows) # <<>>
  BY <1>6, <1>7, EmptySeq
<1>9. QED
  BY <1>4, <1>6, <1>8 DEF T

\* and they are lists of values, and not none.
LEMMA CombinationsType ==
  ASSUME NEW grid \in Seq(Seq(Values)), ValidGrid(grid)
  PROVE  ParameterCombinations(grid) \in Seq(Seq(Values)) \ {<<>>}
<1> DEFINE V == Seq(Seq(Values)) \ {<<>>}
           m == Len(grid)
           step == [p \in (1 .. m) \X V |-> Extended(p[2], grid[p[1]])]
           Combines(f) == f = [n \in 0 .. m |-> IF n = 0 THEN <<<<>>>> ELSE Extended(f[n - 1], grid[n])]
<1>1. m \in Nat /\ \A n \in 1 .. m : grid[n] \in Seq(Values) \ {<<>>}
  <2>1. m \in Nat /\ DOMAIN grid = 1 .. m
    BY LenProperties
  <2>2. QED
    BY <2>1, ElementOfSeq DEF ValidGrid
<1>2. <<<<>>>> \in V
  <2>1. <<>> \in Seq(Values)
    BY EmptySeq
  <2> DEFINE T == Seq(Values)
  <2>2. \A x \in T : <<x>> \in Seq(T) /\ <<x>> # <<>>
    <3> HIDE DEF T
    <3>1. QED
      OBVIOUS
  <2>3. QED
    BY <2>1, <2>2
<1>3. \A n \in 1 .. m, v \in V : Extended(v, grid[n]) \in V
  BY <1>1, ExtendedType
<1> HIDE DEF V, m
<1>4. \E f : Combines(f)
  <2>1. step \in [(1 .. m) \X V -> V]
    BY <1>3
  <2> HIDE DEF step
  <2>2. PICK f \in [0 .. m -> V] : Recurs(f, <<<<>>>>, step, m)
    BY <1>1, <1>2, <2>1, RecursionExists, Zenon
  <2>3. ASSUME NEW n \in 0 .. m
        PROVE  f[n] = IF n = 0 THEN <<<<>>>> ELSE Extended(f[n - 1], grid[n])
    <3>1. CASE n = 0
      BY <2>2, <3>1 DEF Recurs
    <3>2. CASE n # 0
      <4>1. n \in 1 .. m /\ n - 1 \in 0 .. m
        BY <1>1, <3>2
      <4>2. f[n - 1] \in V
        BY <2>2, <4>1
      <4>3. f[n] = step[<<n, f[n - 1]>>]
        BY <2>2, <4>1 DEF Recurs
      <4>4. step[<<n, f[n - 1]>>] = Extended(f[n - 1], grid[n])
        BY <4>1, <4>2 DEF step
      <4>5. QED
        BY <3>2, <4>3, <4>4
    <3>3. QED
      BY <3>1, <3>2
  <2>4. f = [n \in 0 .. m |-> f[n]]
    BY <2>2
  <2>5. Combines(f)
    BY <2>3, <2>4
  <2>6. QED
    BY <2>5
<1> DEFINE combinations == CHOOSE f : Combines(f)
<1>5. Combines(combinations)
  BY <1>4, Zenon
<1>6. ParameterCombinations(grid) = combinations[m]
  BY DEF ParameterCombinations, m
<1> HIDE DEF combinations, step
<1>7. \A n \in 0 .. m : combinations[n] = IF n = 0 THEN <<<<>>>> ELSE Extended(combinations[n - 1], grid[n])
  BY <1>5, Zenon
<1> HIDE DEF Combines
<1>8. \A n \in 0 .. m : combinations[n] \in V
  <2> DEFINE B == {n \in 0 .. m : combinations[n] \notin V}
  <2>1. SUFFICES ASSUME B # {} PROVE FALSE
    OBVIOUS
  <2>2. PICK n \in B : \A k \in B : n <= k
    <3> HIDE DEF B
    <3>1. B \subseteq Nat
      BY DEF B
    <3>2. QED
      BY <2>1, <3>1, LeastExists
  <2>3. CASE n = 0
    BY <1>2, <1>7, <2>2, <2>3
  <2>4. CASE n # 0
    <3>1. n \in 1 .. m /\ n - 1 \in 0 .. m /\ n - 1 \notin B
      BY <1>1, <2>2, <2>4
    <3>2. combinations[n - 1] \in V
      BY <3>1
    <3>3. combinations[n] = Extended(combinations[n - 1], grid[n])
      BY <1>7, <2>4, <3>1
    <3>4. QED
      BY <1>3, <2>2, <3>1, <3>2, <3>3
  <2>5. QED
    BY <2>3, <2>4
<1>9. QED
  BY <1>1, <1>6, <1>8 DEF V

Scores == Fractions \cup {None}

\* Scores are ordered, and scores that are not higher are worth the same.
LEMMA HigherIsOrder ==
  ASSUME NEW a \in Scores, NEW b \in Scores, NEW c \in Scores
  PROVE  /\ ~Higher(a, a)
         /\ Higher(a, b) => ~Higher(b, a)
         /\ Higher(a, c) /\ ~Higher(b, c) => Higher(a, b)
<1>1. \A x \in Scores : x # None => x \in Quotients
  BY FractionsAreQuotients DEF Scores
<1>2. \A x \in Quotients : ~(x \prec x)
  <2> SUFFICES ASSUME NEW x \in Quotients PROVE ~(x \prec x)
    OBVIOUS
  <2>1. x.n * x.d \in Int
    BY Typing
  <2>2. QED
    BY <2>1, OperationsAreRatios
<1>3. \A x, y \in Quotients : x \prec y => ~(y \prec x)
  <2> SUFFICES ASSUME NEW x \in Quotients, NEW y \in Quotients, x \prec y PROVE ~(y \prec x)
    OBVIOUS
  <2>1. x.n * y.d \in Int /\ y.n * x.d \in Int
    BY Typing
  <2>2. QED
    BY <2>1, OperationsAreRatios
<1>4. \A x, y, z \in Quotients : z \prec x /\ ~(z \prec y) => y \prec x
  BY LessIsOrder
<1>5. QED
  BY <1>1, <1>2, <1>3, <1>4 DEF Higher

\* and one of a list is the first of the highest.
FirstBest(scores, m, k) ==
  k \in 1 .. m /\ \A l \in 1 .. m : ~Higher(scores[l], scores[k]) /\ (l < k => Higher(scores[k], scores[l]))

\* max finds it.
LEMMA SelectedIsBest ==
  ASSUME NEW scores \in Seq(Scores), scores # <<>>
  PROVE  FirstBest(scores, Len(scores), Selected(scores))
<1>1. Len(scores) \in Nat \ {0} /\ DOMAIN scores = 1 .. Len(scores) /\ \A k \in DOMAIN scores : scores[k] \in Scores
  BY EmptySeq, LenProperties
<1> DEFINE n == Len(scores)
           B == {m \in 1 .. n : ~ \E k \in 1 .. m : FirstBest(scores, m, k)}
<1>2. B = {}
  <2> HIDE DEF n
  <2>1. SUFFICES ASSUME B # {} PROVE FALSE
    OBVIOUS
  <2>2. PICK m \in B : \A k \in B : m <= k
    <3> HIDE DEF B
    <3>1. B \subseteq Nat
      BY DEF B
    <3>2. QED
      BY <2>1, <3>1, LeastExists
  <2>3. m \in 1 .. n /\ n \in Nat /\ \A k \in 1 .. m : scores[k] \in Scores
    BY <1>1, <2>2 DEF n
  <2>4. CASE m = 1
    <3>1. FirstBest(scores, 1, 1)
      BY <2>3, <2>4, HigherIsOrder DEF FirstBest
    <3>2. QED
      BY <2>2, <2>4, <3>1
  <2>5. CASE m # 1
    <3>1. m - 1 \in 1 .. n /\ m - 1 \notin B
      <4> HIDE DEF B
      <4>1. QED
        BY <2>2, <2>3, <2>5
    <3>2. PICK k \in 1 .. m - 1 : FirstBest(scores, m - 1, k)
      BY <3>1
    <3> HIDE DEF B
    <3>3. k \in 1 .. m /\ m \in 1 .. m /\ \A l \in 1 .. m : l \in 1 .. m - 1 \/ l = m
      BY <2>3, <3>1
    <3>4. ASSUME Higher(scores[m], scores[k]) PROVE FirstBest(scores, m, m)
      <4>1. \A l \in 1 .. m - 1 : Higher(scores[m], scores[l]) /\ ~Higher(scores[l], scores[m])
        BY <2>3, <3>2, <3>3, <3>4, HigherIsOrder DEF FirstBest
      <4>2. ~Higher(scores[m], scores[m])
        BY <2>3, <3>3, HigherIsOrder
      <4>3. QED
        BY <3>3, <4>1, <4>2 DEF FirstBest
    <3>5. ASSUME ~Higher(scores[m], scores[k]) PROVE FirstBest(scores, m, k)
      BY <2>3, <3>2, <3>3, <3>5 DEF FirstBest
    <3>6. \E l \in 1 .. m : FirstBest(scores, m, l)
      BY <3>3, <3>4, <3>5
    <3>7. QED
      BY <2>2, <3>6 DEF B
  <2>6. QED
    BY <2>4, <2>5
<1>3. n \in 1 .. n
  BY <1>1
<1>4. \E k \in DOMAIN scores : FirstBest(scores, n, k)
  BY <1>1, <1>2, <1>3
<1>5. QED
  BY <1>1, <1>4, Zenon DEF Selected, FirstBest
-----------------------------------------------------------------------------
(***************************************************************************)
(* The invariant of an evaluation                                          *)
(***************************************************************************)
Spans == Int \X Int
Results == [selected_parameters : Seq(Values), train_score : Scores, test_equity : Seq(Fractions)]

IsRecord(ev) ==
  ev \in [job : Arguments, stage : {"split", "folds", "done", "failed"}, start : Int,
          folds : Seq([train : Spans, test : Spans]), scores : Seq(Scores), results : Seq(Results),
          summary : {ev.summary}]

IsJob(job) == \E jobs \in Jobs, e \in Evaluations : job = jobs[e]

\* The rows before the k-th fold's test.
FoldStart(job, k) == job.train + (k - 1) * StepSize(job)

\* Folds are cut one after the other until none fits.
FoldsOK(ev) ==
  /\ \A k \in DOMAIN ev.folds :
       FoldFits(ev.job, FoldStart(ev.job, k)) /\ ev.folds[k] = Fold(ev.job, FoldStart(ev.job, k))
  /\ ev.folds # <<>> => ~Refused(ev.job)
  /\ ev.stage = "split" => ev.start = FoldStart(ev.job, Len(ev.folds) + 1)
  /\ ev.stage \in {"folds", "done"} =>
       ~Refused(ev.job) /\ ValidGrid(ev.job.grid) /\ ~FoldFits(ev.job, FoldStart(ev.job, Len(ev.folds) + 1))

\* What the c-th combination scores in a fold: a function of the training rows.
ScoreOf(job, fold, c) == Objective(Backtest(Rows(job, fold.train), <<>>, ParameterCombinations(job.grid)[c]))

AllScores(job, fold) == [c \in 1 .. Len(ParameterCombinations(job.grid)) |-> ScoreOf(job, fold, c)]

\* The scores in hand are those of the fold in hand.
ScoresOK(ev) ==
  /\ ev.stage = "split" => ev.scores = <<>>
  /\ ev.stage = "folds" =>
       /\ ev.scores # <<>> => Len(ev.results) < Len(ev.folds)
       /\ Len(ev.scores) <= Len(ParameterCombinations(ev.job.grid))
       /\ \A c \in DOMAIN ev.scores : ev.scores[c] = ScoreOf(ev.job, ev.folds[Len(ev.results) + 1], c)

\* What a fold reports: the first of its best combinations, run on its test rows.
ResultOf(job, fold) ==
  LET best == Selected(AllScores(job, fold))
      parameters == ParameterCombinations(job.grid)[best]
  IN  [selected_parameters |-> parameters, train_score |-> AllScores(job, fold)[best],
       test_equity |-> Backtest(Rows(job, fold.test), Rows(job, fold.train), parameters)]

IsResult(job, fold, result) ==
  /\ result = ResultOf(job, fold)
  /\ WarmUpPrecedes(Rows(job, fold.train), Rows(job, fold.test))
  /\ IsCurve(result.test_equity, Rows(job, fold.test))

ResultsOK(ev) ==
  /\ ev.stage = "split" => ev.results = <<>>
  /\ Len(ev.results) <= Len(ev.folds)
  /\ \A k \in DOMAIN ev.results : IsResult(ev.job, ev.folds[k], ev.results[k])

SummaryOK(ev) ==
  ev.stage = "done" =>
    /\ ev.results # <<>>
    /\ \A k \in DOMAIN ev.results : AllPositive(ev.results[k].test_equity)
    /\ ev.summary.combined_oos_equity = EquityCurve(CombinedReturns(ev.results), Capital)

IsEvaluation(ev) ==
  IsRecord(ev) /\ IsJob(ev.job) /\ FoldsOK(ev) /\ ScoresOK(ev) /\ ResultsOK(ev) /\ SummaryOK(ev)

ResearchInvariant ==
  eval = [e \in Evaluations |-> eval[e]] /\ \A e \in Evaluations : IsEvaluation(eval[e])

\* What is known of settings that are not refused.
LEMMA SettingsFacts ==
  ASSUME NEW job \in Arguments, ~Refused(job)
  PROVE  /\ job.rows \in Seq(Bars) /\ Len(job.rows) \in Nat /\ DOMAIN job.rows = 1 .. Len(job.rows)
         /\ job.train \in Nat \ {0} /\ job.test \in Nat \ {0} /\ StepSize(job) \in Nat \ {0}
         /\ job.test <= StepSize(job) /\ job.train + job.test <= Len(job.rows)
         /\ \A i \in DOMAIN job.rows : job.rows[i].timestamp \in Int
         /\ \A i, j \in DOMAIN job.rows : i < j => job.rows[i].timestamp <= job.rows[j].timestamp
         /\ job.expanding \in BOOLEAN /\ job.grid \in Seq(Seq(Values))
<1>1. job.rows \in Seq(Bars) /\ job.expanding \in BOOLEAN /\ job.grid \in Seq(Seq(Values))
  BY DEF Arguments
<1>2. Len(job.rows) \in Nat /\ DOMAIN job.rows = 1 .. Len(job.rows)
  BY <1>1, LenProperties
<1>3. \A i \in DOMAIN job.rows : job.rows[i].timestamp \in Int
  BY <1>1, <1>2, ElementOfSeq, ResearchAssumption
<1>4. /\ job.train \in Nat \ {0} /\ job.test \in Nat \ {0} /\ StepSize(job) \in Nat \ {0}
      /\ ~(StepSize(job) < job.test) /\ ~(job.train + job.test > Len(job.rows))
      /\ \A i, j \in DOMAIN job.rows : i < j => job.rows[i].timestamp <= job.rows[j].timestamp
  BY Zenon DEF Refused, PositiveSize, Overlaps, ValidData
<1>5. QED
  BY <1>1, <1>2, <1>3, <1>4

\* One fold starts a step after the other, and so after its test.
LEMMA FoldStartFacts ==
  ASSUME NEW job \in Arguments, ~Refused(job), NEW k \in Nat \ {0}
  PROVE  /\ FoldStart(job, k) \in Int /\ FoldStart(job, k) >= job.train
         /\ FoldStart(job, k + 1) = FoldStart(job, k) + StepSize(job)
         /\ FoldStart(job, 1) = job.train
         /\ \A l \in Nat \ {0} : k < l => FoldStart(job, k) + job.test <= FoldStart(job, l)
<1> DEFINE step == StepSize(job)
<1>1. step \in Nat \ {0} /\ job.train \in Nat \ {0} /\ job.test \in Nat \ {0} /\ job.test <= step
  BY SettingsFacts
<1> HIDE DEF step
<1>2. (k - 1) * step \in Nat /\ k * step = (k - 1) * step + step /\ (k + 1) - 1 = k
  BY <1>1
<1>3. \A l \in Nat \ {0} : k < l => (k - 1) * step + step <= (l - 1) * step
  <2> SUFFICES ASSUME NEW l \in Nat \ {0}, k < l PROVE (k - 1) * step + step <= (l - 1) * step
    OBVIOUS
  <2>1. k <= l - 1 /\ l - 1 \in Nat
    OBVIOUS
  <2>2. k * step <= (l - 1) * step
    BY <1>1, <2>1
  <2>3. QED
    BY <1>2, <2>2
<1>4. \A l \in Nat \ {0} : (l - 1) * step \in Int
  BY <1>1
<1>5. (1 - 1) * step = 0
  BY <1>1
<1>6. QED
  BY <1>1, <1>2, <1>3, <1>4, <1>5 DEF FoldStart, step

\* The spans of the fold that starts at start, and its rows.
FoldIsThere(job, start) ==
  LET fold == Fold(job, start) IN
  /\ fold \in [train : Spans, test : Spans]
  /\ fold.train[1] \in 1 .. start /\ fold.train[2] = start
  /\ fold.test[1] = start + 1 /\ fold.test[2] = start + job.test
  /\ start \in Nat \ {0} /\ start + job.test <= Len(job.rows)
  /\ fold.train[1] = IF job.expanding THEN 1 ELSE start - job.train + 1
  /\ Rows(job, fold.train) \in Seq(Bars) /\ Len(Rows(job, fold.train)) = start - fold.train[1] + 1
  /\ \A i \in 1 .. start - fold.train[1] + 1 : Rows(job, fold.train)[i] = job.rows[fold.train[1] + i - 1]
  /\ Rows(job, fold.test) \in Seq(Bars) /\ Len(Rows(job, fold.test)) = job.test
  /\ \A i \in 1 .. job.test : Rows(job, fold.test)[i] = job.rows[start + i]

\* The rows of a fold.
LEMMA FoldFacts ==
  ASSUME NEW job \in Arguments, ~Refused(job), NEW start \in Int, start >= job.train, FoldFits(job, start)
  PROVE  FoldIsThere(job, start)
<1> DEFINE first == IF job.expanding THEN 1 ELSE start - job.train + 1
           size == Len(job.rows)
<1>1. /\ job.rows \in Seq(Bars) /\ size \in Nat /\ DOMAIN job.rows = 1 .. size
      /\ job.train \in Nat \ {0} /\ job.test \in Nat \ {0} /\ start + job.test <= size
      /\ \A i \in 1 .. size : job.rows[i] \in Bars
  BY SettingsFacts, ElementOfSeq DEF FoldFits
<1> HIDE DEF size
<1>2. first \in 1 .. start /\ first \in Int
  BY <1>1
<1>3. Fold(job, start) = [train |-> <<first, start>>, test |-> <<start + 1, start + job.test>>]
  BY DEF Fold
<1> HIDE DEF first
<1>4. \A i \in first .. start : job.rows[i] \in Bars
  BY <1>1, <1>2
<1>5. \A i \in start + 1 .. start + job.test : job.rows[i] \in Bars
  BY <1>1
<1>6. /\ SubSeq(job.rows, first, start) \in Seq(Bars)
      /\ Len(SubSeq(job.rows, first, start)) = start - first + 1
      /\ \A i \in 1 .. start - first + 1 : SubSeq(job.rows, first, start)[i] = job.rows[first + i - 1]
  BY <1>2, <1>4, SubSeqProperties
<1>7. /\ SubSeq(job.rows, start + 1, start + job.test) \in Seq(Bars)
      /\ Len(SubSeq(job.rows, start + 1, start + job.test)) = job.test
      /\ \A i \in 1 .. job.test : SubSeq(job.rows, start + 1, start + job.test)[i] = job.rows[start + i]
  <2> DEFINE a == start + 1
             b == start + job.test
  <2>1. a \in Int /\ b \in Int /\ a <= b /\ b - a + 1 = job.test /\ \A i \in 1 .. job.test : a + i - 1 = start + i
    BY <1>1
  <2> HIDE DEF a, b
  <2>2. \A i \in a .. b : job.rows[i] \in Bars
    BY <1>5 DEF a, b
  <2>3. /\ SubSeq(job.rows, a, b) \in Seq(Bars)
        /\ Len(SubSeq(job.rows, a, b)) = b - a + 1
        /\ \A i \in 1 .. b - a + 1 : SubSeq(job.rows, a, b)[i] = job.rows[a + i - 1]
    BY <2>1, <2>2, SubSeqProperties
  <2>4. QED
    BY <2>1, <2>3 DEF a, b
<1> DEFINE fold == Fold(job, start)
<1>8. /\ fold \in [train : Spans, test : Spans]
      /\ fold.train[1] = first /\ fold.train[2] = start
      /\ fold.test[1] = start + 1 /\ fold.test[2] = start + job.test
  BY <1>1, <1>2, <1>3 DEF Spans
<1> HIDE DEF fold
<1>9. Rows(job, fold.train) = SubSeq(job.rows, first, start)
  BY <1>8 DEF Rows
<1>10. Rows(job, fold.test) = SubSeq(job.rows, start + 1, start + job.test)
  BY <1>8 DEF Rows
<1>11. first = IF job.expanding THEN 1 ELSE start - job.train + 1
  BY DEF first
<1>12. start \in Nat \ {0} /\ start + job.test <= Len(job.rows)
  BY <1>1, <1>2 DEF size
<1>13. QED
  BY <1>2, <1>6, <1>7, <1>8, <1>9, <1>10, <1>11, <1>12 DEF fold, FoldIsThere

\* What a backtest of a fold gives.
LEMMA BacktestFacts ==
  ASSUME NEW job, IsJob(job), ~Refused(job), NEW start \in Int, start >= job.train, FoldFits(job, start),
         NEW c \in DOMAIN ParameterCombinations(job.grid)
  PROVE  LET p == ParameterCombinations(job.grid)[c]
             train == Rows(job, Fold(job, start).train)
             test == Rows(job, Fold(job, start).test)
         IN  /\ Backtest(train, <<>>, p) # None => ScoreOf(job, Fold(job, start), c) \in Scores
             /\ Backtest(test, train, p) # None => IsCurve(Backtest(test, train, p), test)
<1>1. PICK jobs \in Jobs, e \in Evaluations : job = jobs[e]
  BY DEF IsJob
<1>2. job \in Arguments
  BY <1>1, ResearchAssumption
<1>3. start \in job.train .. Len(job.rows) - job.test
  BY <1>2, SettingsFacts DEF FoldFits
<1>4. ParameterCombinations(job.grid)[c] \in Lists!ToSet(ParameterCombinations(job.grid))
  BY DEF Lists!ToSet
<1> DEFINE p == ParameterCombinations(job.grid)[c]
           train == Rows(job, Fold(job, start).train)
           test == Rows(job, Fold(job, start).test)
<1>5. /\ Backtest(train, <<>>, p) = None \/ Objective(Backtest(train, <<>>, p)) \in Fractions \cup {None}
      /\ Backtest(test, train, p) = None \/ IsCurve(Backtest(test, train, p), test)
  BY <1>1, <1>3, <1>4, BacktestAssumption, Zenon
<1>6. ScoreOf(job, Fold(job, start), c) = Objective(Backtest(train, <<>>, p))
  BY DEF ScoreOf
<1> HIDE DEF p, train, test
<1>7. QED
  BY <1>5, <1>6 DEF Scores, p, train, test

\* The fields of an evaluation.
LEMMA RecordFacts ==
  ASSUME NEW ev, IsRecord(ev)
  PROVE  /\ ev.job \in Arguments /\ ev.start \in Int
         /\ ev.folds \in Seq([train : Spans, test : Spans]) /\ Len(ev.folds) \in Nat
         /\ DOMAIN ev.folds = 1 .. Len(ev.folds)
         /\ ev.scores \in Seq(Scores) /\ Len(ev.scores) \in Nat /\ DOMAIN ev.scores = 1 .. Len(ev.scores)
         /\ ev.results \in Seq(Results) /\ Len(ev.results) \in Nat /\ DOMAIN ev.results = 1 .. Len(ev.results)
<1>1. /\ ev.job \in Arguments /\ ev.start \in Int /\ ev.folds \in Seq([train : Spans, test : Spans])
      /\ ev.scores \in Seq(Scores) /\ ev.results \in Seq(Results)
  BY DEF IsRecord
<1> DEFINE T == [train : Spans, test : Spans]
<1>2. ev.folds \in Seq(T)
  BY <1>1
<1> HIDE DEF T
<1>3. QED
  BY <1>1, <1>2, LenProperties

\* Appending to a list.
LEMMA Appended ==
  ASSUME NEW T, NEW s \in Seq(T), NEW x \in T
  PROVE  /\ Append(s, x) \in Seq(T) /\ Len(Append(s, x)) = Len(s) + 1 /\ Append(s, x) # <<>>
         /\ DOMAIN Append(s, x) = 1 .. Len(s) + 1
         /\ \A i \in 1 .. Len(s) : Append(s, x)[i] = s[i]
         /\ Append(s, x)[Len(s) + 1] = x
OBVIOUS

\* An exception leaves everything as it is.
LEMMA FailKeeps ==
  ASSUME NEW ev, IsEvaluation(ev)
  PROVE  IsEvaluation([ev EXCEPT !.stage = "failed"])
<1> DEFINE new == [ev EXCEPT !.stage = "failed"]
<1>1. /\ new.job = ev.job /\ new.start = ev.start /\ new.folds = ev.folds /\ new.scores = ev.scores
      /\ new.results = ev.results /\ new.summary = ev.summary /\ new.stage = "failed" /\ IsRecord(new)
  BY DEF IsEvaluation, IsRecord
<1> HIDE DEF new
<1>2. FoldsOK(new) /\ ScoresOK(new) /\ ResultsOK(new) /\ SummaryOK(new)
  BY <1>1 DEF IsEvaluation, FoldsOK, ScoresOK, ResultsOK, SummaryOK
<1>3. QED
  BY <1>1, <1>2 DEF IsEvaluation, new

\* The next fold is cut.
LEMMA CutKeeps ==
  ASSUME NEW ev, IsEvaluation(ev), ev.stage = "split", ~Refused(ev.job), FoldFits(ev.job, ev.start)
  PROVE  IsEvaluation([ev EXCEPT !.folds = Append(@, Fold(ev.job, ev.start)), !.start = @ + StepSize(ev.job)])
<1> DEFINE fold == Fold(ev.job, ev.start)
           n == Len(ev.folds)
           T == [train : Spans, test : Spans]
           new == [ev EXCEPT !.folds = Append(@, fold), !.start = @ + StepSize(ev.job)]
<1>1. IsRecord(ev)
  BY DEF IsEvaluation
<1>2. /\ ev.job \in Arguments /\ ev.folds \in Seq(T) /\ n \in Nat /\ DOMAIN ev.folds = 1 .. n
      /\ ev.start = FoldStart(ev.job, n + 1)
  BY <1>1, RecordFacts DEF IsEvaluation, FoldsOK
<1>3. /\ FoldStart(ev.job, n + 1) \in Int /\ FoldStart(ev.job, n + 1) >= ev.job.train
      /\ FoldStart(ev.job, n + 1 + 1) = FoldStart(ev.job, n + 1) + StepSize(ev.job)
  <2> DEFINE k == n + 1
  <2>1. k \in Nat \ {0}
    BY <1>2
  <2> HIDE DEF k
  <2>2. FoldStart(ev.job, k) \in Int /\ FoldStart(ev.job, k) >= ev.job.train
        /\ FoldStart(ev.job, k + 1) = FoldStart(ev.job, k) + StepSize(ev.job)
    BY <1>2, <2>1, FoldStartFacts
  <2>3. QED
    BY <2>2 DEF k
<1>4. fold \in T
  <2>1. FoldIsThere(ev.job, ev.start)
    BY <1>2, <1>3, FoldFacts
  <2>2. QED
    BY <1>2, <2>1 DEF FoldIsThere
<1>5. ev.start + StepSize(ev.job) \in Int
  BY <1>2, <1>3, SettingsFacts
<1> HIDE DEF fold, n
<1>6. /\ Append(ev.folds, fold) \in Seq(T) /\ Len(Append(ev.folds, fold)) = n + 1 /\ Append(ev.folds, fold) # <<>>
      /\ DOMAIN Append(ev.folds, fold) = 1 .. n + 1
      /\ \A i \in 1 .. n : Append(ev.folds, fold)[i] = ev.folds[i]
      /\ Append(ev.folds, fold)[n + 1] = fold
  BY <1>2, <1>4, Appended DEF n
<1> DEFINE folds == Append(ev.folds, fold)
<1> HIDE DEF folds
<1>7. /\ new.job = ev.job /\ new.start = ev.start + StepSize(ev.job) /\ new.folds = folds /\ new.scores = ev.scores
      /\ new.results = ev.results /\ new.summary = ev.summary /\ new.stage = ev.stage /\ IsRecord(new)
  BY <1>1, <1>5, <1>6 DEF IsRecord, folds
<1> HIDE DEF new
<1>8. FoldsOK(new)
  <2>1. ASSUME NEW k \in 1 .. n + 1
        PROVE  FoldFits(ev.job, FoldStart(ev.job, k)) /\ folds[k] = Fold(ev.job, FoldStart(ev.job, k))
    <3>1. CASE k = n + 1
      BY <1>2, <1>6, <3>1 DEF fold, folds
    <3>2. CASE k # n + 1
      <4>1. k \in DOMAIN ev.folds
        BY <1>2, <3>2
      <4>2. QED
        BY <1>2, <1>6, <4>1 DEF IsEvaluation, FoldsOK, folds
    <3>3. QED
      BY <3>1, <3>2
  <2>2. new.start = FoldStart(ev.job, Len(folds) + 1) /\ DOMAIN folds = 1 .. n + 1
    BY <1>2, <1>3, <1>6, <1>7 DEF folds
  <2>3. QED
    BY <1>7, <2>1, <2>2 DEF FoldsOK
<1>9. ScoresOK(new) /\ ResultsOK(new) /\ SummaryOK(new)
  <2>1. ev.results = <<>> /\ ev.scores = <<>> /\ Len(ev.results) = 0
    BY DEF IsEvaluation, ScoresOK, ResultsOK
  <2>2. Len(folds) = n + 1 /\ DOMAIN ev.results = {}
    BY <1>6, <2>1 DEF folds
  <2>3. QED
    BY <1>2, <1>7, <2>1, <2>2 DEF ScoresOK, ResultsOK, SummaryOK
<1>10. IsEvaluation(new)
  BY <1>7, <1>8, <1>9 DEF IsEvaluation
<1>11. QED
  BY <1>10 DEF new, fold

\* No other fold fits.
LEMMA AllCutKeeps ==
  ASSUME NEW ev, IsEvaluation(ev), ev.stage = "split", ~Refused(ev.job), ~FoldFits(ev.job, ev.start),
         ValidGrid(ev.job.grid)
  PROVE  IsEvaluation([ev EXCEPT !.stage = "folds"])
<1> DEFINE new == [ev EXCEPT !.stage = "folds"]
<1>1. /\ new.job = ev.job /\ new.start = ev.start /\ new.folds = ev.folds /\ new.scores = ev.scores
      /\ new.results = ev.results /\ new.summary = ev.summary /\ new.stage = "folds" /\ IsRecord(new)
  BY DEF IsEvaluation, IsRecord
<1> HIDE DEF new
<1>2. FoldsOK(new) /\ ResultsOK(new) /\ SummaryOK(new)
  BY <1>1 DEF IsEvaluation, FoldsOK, ResultsOK, SummaryOK
<1>3. ScoresOK(new)
  <2>1. ev.scores = <<>> /\ Len(ev.scores) = 0 /\ DOMAIN ev.scores = {}
    BY DEF IsEvaluation, ScoresOK
  <2>2. ev.job.grid \in Seq(Seq(Values))
    BY RecordFacts DEF IsEvaluation, Arguments
  <2>3. ParameterCombinations(ev.job.grid) \in Seq(Seq(Values))
    BY <2>2, CombinationsType
  <2>4. Len(ParameterCombinations(ev.job.grid)) \in Nat
    BY <2>3, LenProperties
  <2>5. QED
    BY <1>1, <2>1, <2>4 DEF ScoresOK
<1>4. QED
  BY <1>1, <1>2, <1>3 DEF IsEvaluation, new

\* The fold in hand, when there is one.
LEMMA CurrentFold ==
  ASSUME NEW ev, IsEvaluation(ev), NEW k \in DOMAIN ev.folds
  PROVE  /\ ~Refused(ev.job) /\ ev.job \in Arguments
         /\ FoldStart(ev.job, k) \in Int /\ FoldStart(ev.job, k) >= ev.job.train
         /\ FoldFits(ev.job, FoldStart(ev.job, k)) /\ ev.folds[k] = Fold(ev.job, FoldStart(ev.job, k))
<1>1. ev.job \in Arguments /\ DOMAIN ev.folds = 1 .. Len(ev.folds) /\ Len(ev.folds) \in Nat
      /\ ev.folds \in Seq([train : Spans, test : Spans])
  BY RecordFacts DEF IsEvaluation
<1>2. k \in Nat \ {0} /\ ev.folds # <<>>
  BY <1>1
<1>3. ~Refused(ev.job) /\ FoldFits(ev.job, FoldStart(ev.job, k)) /\ ev.folds[k] = Fold(ev.job, FoldStart(ev.job, k))
  BY <1>2 DEF IsEvaluation, FoldsOK
<1>4. FoldStart(ev.job, k) \in Int /\ FoldStart(ev.job, k) >= ev.job.train
  BY <1>1, <1>2, <1>3, FoldStartFacts
<1>5. QED
  BY <1>1, <1>3, <1>4

\* The combinations of a grid that passed.
LEMMA CombinationFacts ==
  ASSUME NEW ev, IsEvaluation(ev), ev.stage = "folds"
  PROVE  /\ ParameterCombinations(ev.job.grid) \in Seq(Seq(Values)) /\ ParameterCombinations(ev.job.grid) # <<>>
         /\ Len(ParameterCombinations(ev.job.grid)) \in Nat \ {0}
         /\ DOMAIN ParameterCombinations(ev.job.grid) = 1 .. Len(ParameterCombinations(ev.job.grid))
         /\ \A c \in DOMAIN ParameterCombinations(ev.job.grid) : ParameterCombinations(ev.job.grid)[c] \in Seq(Values)
<1> DEFINE combinations == ParameterCombinations(ev.job.grid)
           T == Seq(Values)
<1>1. ev.job.grid \in Seq(Seq(Values)) /\ ValidGrid(ev.job.grid)
  BY RecordFacts DEF IsEvaluation, FoldsOK, Arguments
<1>2. combinations \in Seq(T) /\ combinations # <<>>
  BY <1>1, CombinationsType
<1> HIDE DEF combinations, T
<1>3. /\ Len(combinations) \in Nat \ {0} /\ DOMAIN combinations = 1 .. Len(combinations)
      /\ \A c \in DOMAIN combinations : combinations[c] \in T
  BY <1>2, LenProperties, ElementOfSeq, EmptySeq
<1>4. QED
  BY <1>2, <1>3 DEF combinations, T

\* A candidate is scored on the training rows of the fold in hand.
LEMMA EvaluateKeeps ==
  ASSUME NEW ev, IsEvaluation(ev), ev.stage = "folds", Len(ev.results) < Len(ev.folds),
         Len(ev.scores) # Len(ParameterCombinations(ev.job.grid)),
         Backtest(Rows(ev.job, ev.folds[Len(ev.results) + 1].train), <<>>,
                  ParameterCombinations(ev.job.grid)[Len(ev.scores) + 1]) # None
  PROVE  IsEvaluation([ev EXCEPT !.scores = Append(@, Objective(
           Backtest(Rows(ev.job, ev.folds[Len(ev.results) + 1].train), <<>>,
                    ParameterCombinations(ev.job.grid)[Len(ev.scores) + 1])))])
<1> DEFINE combinations == ParameterCombinations(ev.job.grid)
           c == Len(ev.scores) + 1
           k == Len(ev.results) + 1
           score == Objective(Backtest(Rows(ev.job, ev.folds[k].train), <<>>, combinations[c]))
           new == [ev EXCEPT !.scores = Append(@, score)]
<1>1. IsRecord(ev) /\ IsJob(ev.job)
  BY DEF IsEvaluation
<1>2. /\ Len(ev.folds) \in Nat /\ DOMAIN ev.folds = 1 .. Len(ev.folds) /\ Len(ev.results) \in Nat
      /\ ev.scores \in Seq(Scores) /\ Len(ev.scores) \in Nat
  BY <1>1, RecordFacts
<1>3. Len(combinations) \in Nat \ {0} /\ DOMAIN combinations = 1 .. Len(combinations)
  BY CombinationFacts
<1>4. k \in DOMAIN ev.folds /\ c \in DOMAIN combinations /\ c <= Len(combinations)
  <2>1. Len(ev.scores) <= Len(combinations)
    BY DEF IsEvaluation, ScoresOK
  <2> HIDE DEF combinations
  <2>2. QED
    BY <1>2, <1>3, <2>1 DEF combinations
<1>5. score = ScoreOf(ev.job, ev.folds[k], c)
  BY DEF ScoreOf
<1>6. score \in Scores
  <2> DEFINE start == FoldStart(ev.job, k)
  <2>1. ~Refused(ev.job) /\ start \in Int /\ start >= ev.job.train /\ FoldFits(ev.job, start)
        /\ ev.folds[k] = Fold(ev.job, start)
    BY <1>4, CurrentFold
  <2> HIDE DEF start, c, k
  <2>2. Backtest(Rows(ev.job, Fold(ev.job, start).train), <<>>, combinations[c]) # None
    BY <2>1 DEF c, k
  <2>3. ScoreOf(ev.job, Fold(ev.job, start), c) \in Scores
    BY <1>1, <1>4, <2>1, <2>2, BacktestFacts
  <2>4. QED
    BY <1>5, <2>1, <2>3
<1> HIDE DEF score, combinations
<1>7. /\ Append(ev.scores, score) \in Seq(Scores) /\ Len(Append(ev.scores, score)) = c
      /\ DOMAIN Append(ev.scores, score) = 1 .. c
      /\ \A i \in 1 .. Len(ev.scores) : Append(ev.scores, score)[i] = ev.scores[i]
      /\ Append(ev.scores, score)[c] = score
  BY <1>2, <1>6, Appended
<1> DEFINE scores == Append(ev.scores, score)
<1> HIDE DEF scores
<1>8. /\ new.job = ev.job /\ new.start = ev.start /\ new.folds = ev.folds /\ new.scores = scores
      /\ new.results = ev.results /\ new.summary = ev.summary /\ new.stage = ev.stage /\ IsRecord(new)
  BY <1>1, <1>7 DEF IsRecord, scores
<1> HIDE DEF new
<1>9. FoldsOK(new) /\ ResultsOK(new) /\ SummaryOK(new)
  BY <1>8 DEF IsEvaluation, FoldsOK, ResultsOK, SummaryOK
<1>10. ScoresOK(new)
  <2>1. ASSUME NEW i \in DOMAIN scores PROVE scores[i] = ScoreOf(ev.job, ev.folds[k], i)
    <3>1. CASE i = c
      BY <1>5, <1>7, <3>1 DEF scores
    <3>2. CASE i # c
      <4>1. i \in 1 .. Len(ev.scores) /\ i \in DOMAIN ev.scores
        BY <1>2, <1>7, <3>2, LenProperties DEF scores
      <4>2. ev.scores[i] = ScoreOf(ev.job, ev.folds[k], i)
        BY <4>1 DEF IsEvaluation, ScoresOK
      <4>3. QED
        BY <1>7, <4>1, <4>2 DEF scores
    <3>3. QED
      BY <3>1, <3>2
  <2>2. Len(scores) <= Len(ParameterCombinations(ev.job.grid))
    BY <1>4, <1>7 DEF scores, combinations
  <2>3. QED
    BY <1>8, <2>1, <2>2 DEF ScoresOK
<1>11. IsEvaluation(new)
  BY <1>1, <1>8, <1>9, <1>10 DEF IsEvaluation
<1>12. QED
  BY <1>11 DEF new, score, combinations

\* The first of the best is run on the test rows.
LEMMA TestKeeps ==
  ASSUME NEW ev, IsEvaluation(ev), ev.stage = "folds", Len(ev.results) < Len(ev.folds),
         Len(ev.scores) = Len(ParameterCombinations(ev.job.grid)),
         NEW fold, fold = ev.folds[Len(ev.results) + 1],
         NEW p, p = ParameterCombinations(ev.job.grid)[Selected(ev.scores)],
         NEW equity, equity = Backtest(Rows(ev.job, fold.test), Rows(ev.job, fold.train), p), equity # None,
         WarmUpPrecedes(Rows(ev.job, fold.train), Rows(ev.job, fold.test))
  PROVE  IsEvaluation([ev EXCEPT !.scores = <<>>,
                        !.results = Append(@, [selected_parameters |-> p, train_score |-> ev.scores[Selected(ev.scores)],
                                               test_equity |-> equity])])
<1> DEFINE best == Selected(ev.scores)
           combinations == ParameterCombinations(ev.job.grid)
           k == Len(ev.results) + 1
           result == [selected_parameters |-> p, train_score |-> ev.scores[best], test_equity |-> equity]
           new == [ev EXCEPT !.scores = <<>>, !.results = Append(@, result)]
<1>1. IsRecord(ev) /\ IsJob(ev.job)
  BY DEF IsEvaluation
<1>2. /\ Len(ev.folds) \in Nat /\ DOMAIN ev.folds = 1 .. Len(ev.folds) /\ Len(ev.results) \in Nat
      /\ ev.scores \in Seq(Scores) /\ DOMAIN ev.scores = 1 .. Len(ev.scores)
      /\ ev.results \in Seq(Results) /\ DOMAIN ev.results = 1 .. Len(ev.results)
  BY <1>1, RecordFacts
<1>3. /\ Len(combinations) \in Nat \ {0} /\ DOMAIN combinations = 1 .. Len(combinations)
      /\ \A c \in DOMAIN combinations : combinations[c] \in Seq(Values)
  BY CombinationFacts
<1>4. ev.scores = AllScores(ev.job, fold)
  <2>1. \A c \in DOMAIN ev.scores : ev.scores[c] = ScoreOf(ev.job, fold, c)
    BY DEF IsEvaluation, ScoresOK
  <2>2. ev.scores = [c \in 1 .. Len(ev.scores) |-> ev.scores[c]]
    BY <1>2, LenProperties
  <2>3. ev.scores = [c \in 1 .. Len(ev.scores) |-> ScoreOf(ev.job, fold, c)]
    BY <1>2, <2>1, <2>2
  <2>4. QED
    BY <2>3 DEF AllScores
<1>5. best \in 1 .. Len(ev.scores) /\ ev.scores[best] \in Scores /\ p \in Seq(Values)
  <2>1. ev.scores # <<>>
    BY <1>3, EmptySeq
  <2>2. best \in 1 .. Len(ev.scores)
    BY <1>2, <2>1, SelectedIsBest DEF FirstBest
  <2> HIDE DEF best
  <2>3. ev.scores[best] \in Scores
    BY <1>2, <2>2, ElementOfSeq
  <2>4. p \in Seq(Values)
    BY <1>3, <2>2 DEF best
  <2>5. QED
    BY <2>2, <2>3, <2>4
<1>6. IsCurve(equity, Rows(ev.job, fold.test))
  <2> DEFINE start == FoldStart(ev.job, k)
  <2>1. k \in DOMAIN ev.folds
    BY <1>2
  <2>2. ~Refused(ev.job) /\ start \in Int /\ start >= ev.job.train /\ FoldFits(ev.job, start)
        /\ fold = Fold(ev.job, start)
    BY <2>1, CurrentFold
  <2>3. best \in DOMAIN combinations
    BY <1>3, <1>5
  <2> HIDE DEF start, best
  <2>4. equity = Backtest(Rows(ev.job, Fold(ev.job, start).test), Rows(ev.job, Fold(ev.job, start).train), combinations[best])
    BY <2>2 DEF best
  <2>5. IsCurve(equity, Rows(ev.job, Fold(ev.job, start).test))
    BY <1>1, <2>2, <2>3, <2>4, BacktestFacts
  <2>6. QED
    BY <2>2, <2>5
<1>7. result \in Results
  BY <1>5, <1>6 DEF Results, IsCurve
<1>8. result = ResultOf(ev.job, fold)
  BY <1>4 DEF ResultOf
<1>9. IsResult(ev.job, fold, result)
  <2>1. result.test_equity = equity
    OBVIOUS
  <2> HIDE DEF result
  <2>2. QED
    BY <1>6, <1>8, <2>1 DEF IsResult
<1> HIDE DEF result
<1>10. /\ Append(ev.results, result) \in Seq(Results) /\ Len(Append(ev.results, result)) = k
       /\ DOMAIN Append(ev.results, result) = 1 .. k
       /\ \A i \in 1 .. Len(ev.results) : Append(ev.results, result)[i] = ev.results[i]
       /\ Append(ev.results, result)[k] = result
  BY <1>2, <1>7, Appended
<1> DEFINE results == Append(ev.results, result)
<1> HIDE DEF results
<1>11. <<>> \in Seq(Scores) /\ Len(<<>>) = 0 /\ DOMAIN <<>> = {}
  BY EmptySeq
<1>12. /\ new.job = ev.job /\ new.start = ev.start /\ new.folds = ev.folds /\ new.scores = <<>>
       /\ new.results = results /\ new.summary = ev.summary /\ new.stage = ev.stage /\ IsRecord(new)
  BY <1>1, <1>10, <1>11 DEF IsRecord, results
<1> HIDE DEF new
<1>13. FoldsOK(new) /\ SummaryOK(new)
  BY <1>12 DEF IsEvaluation, FoldsOK, SummaryOK
<1>14. ScoresOK(new)
  BY <1>3, <1>11, <1>12 DEF ScoresOK
<1>15. ResultsOK(new)
  <2>1. ASSUME NEW i \in DOMAIN results PROVE IsResult(ev.job, ev.folds[i], results[i])
    <3>1. CASE i = k
      BY <1>9, <1>10, <3>1 DEF results
    <3>2. CASE i # k
      <4>1. i \in 1 .. Len(ev.results)
        BY <1>2, <1>10, <3>2 DEF results
      <4>2. QED
        BY <1>2, <1>10, <4>1 DEF IsEvaluation, ResultsOK, results
    <3>3. QED
      BY <3>1, <3>2
  <2>2. Len(results) <= Len(ev.folds)
    BY <1>2, <1>10 DEF results
  <2>3. QED
    BY <1>12, <2>1, <2>2 DEF ResultsOK
<1>16. IsEvaluation(new)
  BY <1>1, <1>12, <1>13, <1>14, <1>15 DEF IsEvaluation
<1>17. QED
  BY <1>16 DEF new, result, best

\* The tests are combined; there is one, since the first fold fits.
LEMMA CombineKeeps ==
  ASSUME NEW ev, IsEvaluation(ev), ev.stage = "folds", Len(ev.results) = Len(ev.folds),
         \A k \in DOMAIN ev.results : AllPositive(ev.results[k].test_equity),
         NEW summary, summary.combined_oos_equity = EquityCurve(CombinedReturns(ev.results), Capital)
  PROVE  IsEvaluation([ev EXCEPT !.stage = "done", !.summary = summary])
<1> DEFINE new == [ev EXCEPT !.stage = "done", !.summary = summary]
<1>1. /\ new.job = ev.job /\ new.start = ev.start /\ new.folds = ev.folds /\ new.scores = ev.scores
      /\ new.results = ev.results /\ new.summary = summary /\ new.stage = "done" /\ IsRecord(new)
  BY DEF IsEvaluation, IsRecord
<1> HIDE DEF new
<1>2. FoldsOK(new) /\ ScoresOK(new) /\ ResultsOK(new)
  BY <1>1 DEF IsEvaluation, FoldsOK, ScoresOK, ResultsOK
<1>3. ev.results # <<>>
  <2>1. SUFFICES ASSUME ev.results = <<>> PROVE FALSE
    OBVIOUS
  <2>2. Len(ev.folds) = 0
    BY <2>1
  <2>3. /\ ~Refused(ev.job) /\ ev.job \in Arguments
        /\ ~FoldFits(ev.job, FoldStart(ev.job, Len(ev.folds) + 1))
    BY RecordFacts DEF IsEvaluation, FoldsOK
  <2>4. ~FoldFits(ev.job, ev.job.train)
    <3>1. FoldStart(ev.job, 1) = ev.job.train /\ 0 + 1 = 1
      BY <2>3, FoldStartFacts
    <3>2. QED
      BY <2>2, <2>3, <3>1
  <2>5. QED
    BY <2>3, <2>4, SettingsFacts DEF FoldFits
<1>4. SummaryOK(new)
  BY <1>1, <1>3 DEF SummaryOK
<1>5. QED
  BY <1>1, <1>2, <1>4 DEF IsEvaluation, new

\* An evaluation begins with nothing.
LEMMA NewEvaluationFits ==
  ASSUME NEW job, IsJob(job)
  PROVE  IsEvaluation(NewEvaluation(job))
<1> DEFINE ev == NewEvaluation(job)
<1>1. job \in Arguments
  BY ResearchAssumption DEF IsJob
<1>2. job.train \in Int
  BY <1>1 DEF Arguments
<1>3. /\ ev.job = job /\ ev.stage = "split" /\ ev.start = job.train /\ ev.folds = <<>> /\ ev.scores = <<>>
      /\ ev.results = <<>> /\ IsRecord(ev)
  <2> DEFINE T == [train : Spans, test : Spans]
  <2>1. <<>> \in Seq(T) /\ <<>> \in Seq(Scores) /\ <<>> \in Seq(Results)
    BY EmptySeq
  <2> HIDE DEF T
  <2>2. QED
    BY <1>1, <1>2, <2>1 DEF NewEvaluation, IsRecord, T
<1> HIDE DEF ev
<1>4. Len(<<>>) = 0 /\ DOMAIN <<>> = {} /\ 0 + 1 = 1
  OBVIOUS
<1>5. FoldStart(job, 1) = job.train
  <2>1. StepSize(job) \in Int \cup {None} \/ TRUE
    OBVIOUS
  <2>2. QED
    BY <1>1, <1>2 DEF FoldStart, StepSize, Arguments
<1>6. FoldsOK(ev)
  BY <1>3, <1>4, <1>5 DEF FoldsOK
<1>7. ScoresOK(ev) /\ ResultsOK(ev) /\ SummaryOK(ev)
  BY <1>3, <1>4 DEF ScoresOK, ResultsOK, SummaryOK
<1>8. QED
  BY <1>3, <1>6, <1>7 DEF IsEvaluation, ev

\* One evaluation goes on, the others stay.
LEMMA OneGoesOn ==
  ASSUME ResearchInvariant, NEW e \in Evaluations, NEW new, IsEvaluation(new), Becomes(e, new)
  PROVE  ResearchInvariant'
<1>1. eval = [x \in Evaluations |-> eval[x]] /\ \A x \in Evaluations : IsEvaluation(eval[x])
  BY DEF ResearchInvariant
<1>2. eval' = [eval EXCEPT ![e] = new]
  BY DEF Becomes
<1>3. eval' = [x \in Evaluations |-> eval'[x]]
  BY <1>1, <1>2
<1>4. \A x \in Evaluations : eval'[x] = IF x = e THEN new ELSE eval[x]
  BY <1>1, <1>2
<1>5. \A x \in Evaluations : IsEvaluation(eval'[x])
  BY <1>1, <1>4
<1>6. QED
  BY <1>3, <1>5 DEF ResearchInvariant

\* Every step keeps the invariant.
LEMMA ResearchStep ==
  ASSUME ResearchInvariant, NEW e \in Evaluations, Advance(e)
  PROVE  ResearchInvariant'
<1> DEFINE ev == eval[e]
           failed == [ev EXCEPT !.stage = "failed"]
<1>1. IsEvaluation(ev)
  BY DEF ResearchInvariant
<1>2. Fail(e) => ResearchInvariant'
  <2>1. IsEvaluation(failed)
    BY <1>1, FailKeeps
  <2>2. QED
    BY <2>1, OneGoesOn DEF Fail
<1>3. CASE RefuseArguments(e)
  BY <1>2, <1>3 DEF RefuseArguments
<1>4. CASE CutFold(e)
  <2> DEFINE new == [ev EXCEPT !.folds = Append(@, Fold(ev.job, ev.start)), !.start = @ + StepSize(ev.job)]
  <2>1. ev.stage = "split" /\ ~Refused(ev.job) /\ FoldFits(ev.job, ev.start) /\ Becomes(e, new)
    BY <1>4 DEF CutFold, Begun
  <2>2. IsEvaluation(new)
    BY <1>1, <2>1, CutKeeps, Zenon
  <2> HIDE DEF new
  <2>3. QED
    BY <2>1, <2>2, OneGoesOn
<1>5. CASE AllCut(e)
  <2> DEFINE new == [ev EXCEPT !.stage = "folds"]
  <2>1. /\ ev.stage = "split" /\ ~Refused(ev.job) /\ ~FoldFits(ev.job, ev.start)
        /\ (ValidGrid(ev.job.grid) /\ Becomes(e, new)) \/ Fail(e)
    BY <1>5 DEF AllCut, Begun
  <2>2. ASSUME ValidGrid(ev.job.grid), Becomes(e, new) PROVE ResearchInvariant'
    <3>1. IsEvaluation(new)
      BY <1>1, <2>1, <2>2, AllCutKeeps
    <3> HIDE DEF new
    <3>2. QED
      BY <2>2, <3>1, OneGoesOn
  <2>3. QED
    BY <1>2, <2>1, <2>2
<1>6. CASE EvaluateCandidate(e)
  <2> DEFINE k == Len(ev.results) + 1
             equity == Backtest(Rows(ev.job, ev.folds[k].train), <<>>,
                                ParameterCombinations(ev.job.grid)[Len(ev.scores) + 1])
             new == [ev EXCEPT !.scores = Append(@, Objective(equity))]
  <2>1. /\ ev.stage = "folds" /\ Len(ev.results) < Len(ev.folds)
        /\ Len(ev.scores) # Len(ParameterCombinations(ev.job.grid))
        /\ (equity # None /\ Becomes(e, new)) \/ Fail(e)
    BY <1>6, Zenon DEF EvaluateCandidate, Begun, Scored, Combinations, Current
  <2>2. ASSUME equity # None, Becomes(e, new) PROVE ResearchInvariant'
    <3>1. IsEvaluation(new)
      BY <1>1, <2>1, <2>2, EvaluateKeeps
    <3> HIDE DEF new
    <3>2. QED
      BY <2>2, <3>1, OneGoesOn
  <2>3. QED
    BY <1>2, <2>1, <2>2
<1>7. CASE TestFold(e)
  <2> DEFINE fold == ev.folds[Len(ev.results) + 1]
             best == Selected(ev.scores)
             warmup == Rows(ev.job, fold.train)
             rows == Rows(ev.job, fold.test)
             p == ParameterCombinations(ev.job.grid)[best]
             equity == IF WarmUpPrecedes(warmup, rows) THEN Backtest(rows, warmup, p) ELSE None
             new == [ev EXCEPT !.scores = <<>>,
                       !.results = Append(@, [selected_parameters |-> p, train_score |-> ev.scores[best],
                                              test_equity |-> equity])]
  <2>1. /\ ev.stage = "folds" /\ Len(ev.results) < Len(ev.folds)
        /\ Len(ev.scores) = Len(ParameterCombinations(ev.job.grid))
        /\ (equity # None /\ Becomes(e, new)) \/ Fail(e)
    BY <1>7, Zenon DEF TestFold, Begun, Scored, Combinations, Current
  <2>2. ASSUME equity # None, Becomes(e, new) PROVE ResearchInvariant'
    <3>1. WarmUpPrecedes(warmup, rows) /\ equity = Backtest(rows, warmup, p)
      BY <2>2
    <3> HIDE DEF equity
    <3>2. IsEvaluation(new)
      BY <1>1, <2>1, <2>2, <3>1, TestKeeps, Zenon
    <3> HIDE DEF new
    <3>3. QED
      BY <2>2, <3>2, OneGoesOn
  <2>3. QED
    BY <1>2, <2>1, <2>2
<1>8. CASE Combine(e)
  <2> DEFINE returns == CombinedReturns(ev.results)
             equity == EquityCurve(returns, Capital)
             summary == [combined_oos_equity |-> equity,
                         max_drawdown |-> MaxDrawdown(WithBaseline(equity)),
                         risk_report |-> RiskReport(returns, WithBaseline(equity))]
             new == [ev EXCEPT !.stage = "done", !.summary = summary]
  <2>1. /\ ev.stage = "folds" /\ Len(ev.results) = Len(ev.folds)
        /\ \/ (\A k \in DOMAIN ev.results : AllPositive(ev.results[k].test_equity)) /\ Becomes(e, new)
           \/ Fail(e)
    BY <1>8, Zenon DEF Combine, Begun
  <2>2. ASSUME \A k \in DOMAIN ev.results : AllPositive(ev.results[k].test_equity), Becomes(e, new)
        PROVE  ResearchInvariant'
    <3>1. summary.combined_oos_equity = EquityCurve(CombinedReturns(ev.results), Capital)
      OBVIOUS
    <3> HIDE DEF summary
    <3>2. IsEvaluation(new)
      BY <1>1, <2>1, <2>2, <3>1, CombineKeeps, Zenon
    <3> HIDE DEF new
    <3>3. QED
      BY <2>2, <3>2, OneGoesOn
  <2>3. QED
    BY <1>2, <2>1, <2>2
<1>9. QED
  BY <1>3, <1>4, <1>5, <1>6, <1>7, <1>8 DEF Advance

\* Every evaluation has what its stage calls for: the folds that fit, cut in order, scores and
\* results that are functions of the rows of their folds, and the curve of all results.
THEOREM ResearchIsConsistent == Spec => []ResearchInvariant
<1>1. Init => ResearchInvariant
  <2> SUFFICES ASSUME Init PROVE ResearchInvariant
    OBVIOUS
  <2>1. PICK jobs \in Jobs : eval = [e \in Evaluations |-> NewEvaluation(jobs[e])]
    BY DEF Init
  <2>2. \A e \in Evaluations : IsEvaluation(NewEvaluation(jobs[e]))
    BY NewEvaluationFits DEF IsJob
  <2>3. \A e \in Evaluations : eval[e] = NewEvaluation(jobs[e])
    BY <2>1
  <2>4. eval = [e \in Evaluations |-> eval[e]]
    BY <2>1, <2>3
  <2>5. QED
    BY <2>2, <2>3, <2>4 DEF ResearchInvariant
<1>2. ResearchInvariant /\ [Next]_eval => ResearchInvariant'
  <2> SUFFICES ASSUME ResearchInvariant, [Next]_eval PROVE ResearchInvariant'
    OBVIOUS
  <2>1. CASE Next
    BY <2>1, ResearchStep DEF Next
  <2>2. CASE UNCHANGED eval
    BY <2>2 DEF ResearchInvariant
  <2>3. QED
    BY <2>1, <2>2
<1>3. QED
  BY <1>1, <1>2, PTL DEF Spec
-----------------------------------------------------------------------------
(***************************************************************************)
(* Rows are tested once, after their training                              *)
(***************************************************************************)
LEMMA CutFoldsAreApart ==
  ASSUME NEW ev, IsEvaluation(ev)
  PROVE  FoldsAreApart(ev.job, ev.folds)
<1>1. DOMAIN ev.folds = 1 .. Len(ev.folds) /\ Len(ev.folds) \in Nat
  BY RecordFacts DEF IsEvaluation
<1>2. SUFFICES ASSUME NEW k \in DOMAIN ev.folds
      PROVE  /\ ev.folds[k].train[2] + 1 = ev.folds[k].test[1]
             /\ Cardinality(Within(ev.folds[k].test)) = ev.job.test
             /\ Within(ev.folds[k].test) \subseteq DOMAIN ev.job.rows
             /\ IF ev.job.expanding THEN ev.folds[k].train[1] = 1
                ELSE Cardinality(Within(ev.folds[k].train)) = ev.job.train
             /\ \A l \in DOMAIN ev.folds : k < l => ev.folds[k].test[2] < ev.folds[l].test[1]
  BY Zenon DEF FoldsAreApart
<1> DEFINE start(l) == FoldStart(ev.job, l)
           test == ev.job.test
           train == ev.job.train
<1>3. \A l \in DOMAIN ev.folds :
        /\ ~Refused(ev.job) /\ ev.job \in Arguments /\ start(l) \in Int /\ start(l) >= train
        /\ FoldFits(ev.job, start(l)) /\ ev.folds[l] = Fold(ev.job, start(l))
  BY CurrentFold
<1>4. \A l \in DOMAIN ev.folds :
        /\ ev.folds[l].train[2] = start(l) /\ ev.folds[l].test[1] = start(l) + 1
        /\ ev.folds[l].test[2] = start(l) + test
        /\ start(l) \in Nat \ {0} /\ start(l) + test <= Len(ev.job.rows)
        /\ ev.folds[l].train[1] = IF ev.job.expanding THEN 1 ELSE start(l) - train + 1
  <2> SUFFICES ASSUME NEW l \in DOMAIN ev.folds
               PROVE  /\ ev.folds[l].train[2] = start(l) /\ ev.folds[l].test[1] = start(l) + 1
                      /\ ev.folds[l].test[2] = start(l) + test
                      /\ start(l) \in Nat \ {0} /\ start(l) + test <= Len(ev.job.rows)
                      /\ ev.folds[l].train[1] = IF ev.job.expanding THEN 1 ELSE start(l) - train + 1
    OBVIOUS
  <2> DEFINE first == start(l)
  <2>1. /\ ~Refused(ev.job) /\ ev.job \in Arguments /\ first \in Int /\ first >= ev.job.train
        /\ FoldFits(ev.job, first) /\ ev.folds[l] = Fold(ev.job, first)
    BY <1>3
  <2> HIDE DEF first
  <2>2. /\ ev.folds[l].train[2] = first /\ ev.folds[l].test[1] = first + 1
        /\ ev.folds[l].test[2] = first + ev.job.test
        /\ first \in Nat \ {0} /\ first + ev.job.test <= Len(ev.job.rows)
        /\ ev.folds[l].train[1] = IF ev.job.expanding THEN 1 ELSE first - ev.job.train + 1
    <3>1. FoldIsThere(ev.job, first)
      BY <2>1, FoldFacts
    <3>2. QED
      BY <2>1, <3>1 DEF FoldIsThere
  <2>3. QED
    BY <2>2 DEF first
<1>5. /\ test \in Nat \ {0} /\ train \in Nat \ {0} /\ Len(ev.job.rows) \in Nat
      /\ DOMAIN ev.job.rows = 1 .. Len(ev.job.rows)
  BY <1>3, SettingsFacts
<1>6. \A l \in DOMAIN ev.folds : k < l => start(k) + test <= start(l)
  <2>1. k \in Nat \ {0} /\ \A l \in DOMAIN ev.folds : l \in Nat \ {0}
    BY <1>1
  <2>2. QED
    BY <1>3, <2>1, FoldStartFacts
<1> HIDE DEF start, test, train
<1>7. Cardinality(Within(ev.folds[k].test)) = test
  <2>1. Within(ev.folds[k].test) = (start(k) + 1) .. (start(k) + test)
    BY <1>4 DEF Within
  <2>2. Cardinality((start(k) + 1) .. (start(k) + test)) = test
    <3> DEFINE a == start(k) + 1
               b == start(k) + test
    <3>1. a \in Int /\ b \in Int /\ ~(a > b) /\ b - a + 1 = test
      BY <1>4, <1>5
    <3> HIDE DEF a, b
    <3>2. Cardinality(a .. b) = test
      BY <3>1, FS_Interval
    <3>3. QED
      BY <3>2 DEF a, b
  <2>3. QED
    BY <2>1, <2>2
<1>8. ASSUME ~ev.job.expanding PROVE Cardinality(Within(ev.folds[k].train)) = train
  <2>1. Within(ev.folds[k].train) = (start(k) - train + 1) .. start(k)
    BY <1>4, <1>8 DEF Within
  <2>2. Cardinality((start(k) - train + 1) .. start(k)) = train
    <3> DEFINE a == start(k) - train + 1
               b == start(k)
    <3>1. a \in Int /\ b \in Int /\ ~(a > b) /\ b - a + 1 = train
      BY <1>4, <1>5
    <3> HIDE DEF a, b
    <3>2. Cardinality(a .. b) = train
      BY <3>1, FS_Interval
    <3>3. QED
      BY <3>2 DEF a, b
  <2>3. QED
    BY <2>1, <2>2
<1>9. Within(ev.folds[k].test) \subseteq DOMAIN ev.job.rows
  <2>1. Within(ev.folds[k].test) = (start(k) + 1) .. (start(k) + test)
    BY <1>4 DEF Within
  <2>2. start(k) \in Nat /\ start(k) + test <= Len(ev.job.rows)
    BY <1>4
  <2>3. (start(k) + 1) .. (start(k) + test) \subseteq 1 .. Len(ev.job.rows)
    BY <1>5, <2>2
  <2>4. QED
    BY <1>5, <2>1, <2>3
<1>10. \A l \in DOMAIN ev.folds : k < l => ev.folds[k].test[2] < ev.folds[l].test[1]
  <2> SUFFICES ASSUME NEW l \in DOMAIN ev.folds, k < l PROVE ev.folds[k].test[2] < ev.folds[l].test[1]
    OBVIOUS
  <2>1. start(k) + test <= start(l) /\ start(k) \in Int /\ start(l) \in Int
    BY <1>4, <1>6
  <2>2. ev.folds[k].test[2] = start(k) + test /\ ev.folds[l].test[1] = start(l) + 1
    BY <1>4
  <2>3. QED
    BY <1>5, <2>1, <2>2
<1>11. ev.folds[k].train[2] + 1 = ev.folds[k].test[1]
  BY <1>4
<1>12. ev.job.expanding => ev.folds[k].train[1] = 1
  BY <1>4
<1>13. QED
  BY <1>7, <1>8, <1>9, <1>10, <1>11, <1>12 DEF test, train

\* Since the warm-up ends before the test begins and times do not decrease, all training is earlier.
LEMMA TestedLater ==
  ASSUME NEW ev, IsEvaluation(ev), NEW k \in DOMAIN ev.results
  PROVE  TestsComeLater(ev.job, ev.folds[k])
<1> DEFINE job == ev.job
           fold == ev.folds[k]
           start == FoldStart(ev.job, k)
<1>1. k \in DOMAIN ev.folds /\ IsResult(job, fold, ev.results[k])
  <2>1. /\ DOMAIN ev.folds = 1 .. Len(ev.folds) /\ DOMAIN ev.results = 1 .. Len(ev.results)
        /\ Len(ev.folds) \in Nat /\ Len(ev.results) \in Nat
    BY RecordFacts DEF IsEvaluation
  <2>2. Len(ev.results) <= Len(ev.folds) /\ IsResult(job, fold, ev.results[k])
    BY DEF IsEvaluation, ResultsOK
  <2>3. QED
    BY <2>1, <2>2
<1>2. /\ ~Refused(job) /\ job \in Arguments /\ start \in Int /\ start >= job.train /\ FoldFits(job, start)
      /\ fold = Fold(job, start)
  BY <1>1, CurrentFold
<1> HIDE DEF start, fold, job
<1>3. /\ fold.train[1] \in 1 .. start /\ fold.train[2] = start
      /\ fold.test[1] = start + 1 /\ fold.test[2] = start + job.test
      /\ start \in Nat \ {0} /\ start + job.test <= Len(job.rows)
      /\ Len(Rows(job, fold.train)) = start - fold.train[1] + 1
      /\ \A i \in 1 .. start - fold.train[1] + 1 : Rows(job, fold.train)[i] = job.rows[fold.train[1] + i - 1]
      /\ \A i \in 1 .. job.test : Rows(job, fold.test)[i] = job.rows[start + i]
  <2>1. FoldIsThere(job, start)
    BY <1>2, FoldFacts
  <2>2. QED
    BY <1>2, <2>1 DEF FoldIsThere
<1>4. /\ job.test \in Nat \ {0} /\ Len(job.rows) \in Nat /\ DOMAIN job.rows = 1 .. Len(job.rows)
      /\ \A i \in DOMAIN job.rows : job.rows[i].timestamp \in Int
      /\ \A i, j \in DOMAIN job.rows : i < j => job.rows[i].timestamp <= job.rows[j].timestamp
  BY <1>2, SettingsFacts
<1>5. job.rows[start].timestamp < job.rows[start + 1].timestamp
  <2> DEFINE m == start - fold.train[1] + 1
  <2>1. WarmUpPrecedes(Rows(job, fold.train), Rows(job, fold.test))
    BY <1>1 DEF IsResult
  <2>2. m \in 1 .. m /\ fold.train[1] + m - 1 = start /\ 1 \in 1 .. job.test
    BY <1>3, <1>4
  <2> HIDE DEF m
  <2>3. Rows(job, fold.train)[m] = job.rows[start] /\ Rows(job, fold.test)[1] = job.rows[start + 1]
        /\ Len(Rows(job, fold.train)) = m
    BY <1>3, <2>2 DEF m
  <2>4. QED
    BY <2>1, <2>3 DEF WarmUpPrecedes
<1>6. ASSUME NEW i \in Within(fold.train), NEW j \in Within(fold.test)
      PROVE  job.rows[i].timestamp < job.rows[j].timestamp
  <2>1. i \in 1 .. start /\ j \in start + 1 .. start + job.test
    BY <1>3 DEF Within
  <2>2. i \in DOMAIN job.rows /\ j \in DOMAIN job.rows /\ start \in DOMAIN job.rows /\ start + 1 \in DOMAIN job.rows
    BY <1>3, <1>4, <2>1
  <2>3. i = start \/ i < start
    BY <2>1, <1>3
  <2>4. j = start + 1 \/ start + 1 < j
    BY <2>1, <1>3
  <2>5. job.rows[i].timestamp <= job.rows[start].timestamp
    BY <1>4, <2>2, <2>3
  <2>6. job.rows[start + 1].timestamp <= job.rows[j].timestamp
    BY <1>4, <2>2, <2>4
  <2>7. /\ job.rows[i].timestamp \in Int /\ job.rows[j].timestamp \in Int
        /\ job.rows[start].timestamp \in Int /\ job.rows[start + 1].timestamp \in Int
    BY <1>4, <2>2
  <2>8. \A a, b, c, d \in Int : a <= b /\ b < c /\ c <= d => a < d
    OBVIOUS
  <2>9. QED
    BY <1>5, <2>5, <2>6, <2>7, <2>8
<1>7. QED
  BY <1>6 DEF TestsComeLater, job, fold

\* The last fold ends less than a step before the last row.
LEMMA NoRowIsLeftOut ==
  ASSUME NEW ev, IsEvaluation(ev), ev.stage \in {"folds", "done"}
  PROVE  ev.folds # <<>> /\ Len(ev.job.rows) < ev.folds[Len(ev.folds)].test[2] + StepSize(ev.job)
<1> DEFINE n == Len(ev.folds)
           job == ev.job
<1>1. /\ job \in Arguments /\ ~Refused(job) /\ n \in Nat /\ DOMAIN ev.folds = 1 .. n
      /\ ~FoldFits(job, FoldStart(job, n + 1))
  BY RecordFacts DEF IsEvaluation, FoldsOK
<1>2. /\ Len(job.rows) \in Nat /\ job.test \in Nat \ {0} /\ job.train \in Nat \ {0}
      /\ job.train + job.test <= Len(job.rows) /\ StepSize(job) \in Nat \ {0}
  BY <1>1, SettingsFacts
<1> HIDE DEF n, job
<1>3. n # 0
  <2>1. SUFFICES ASSUME n = 0 PROVE FALSE
    OBVIOUS
  <2>2. FoldStart(job, 1) = job.train /\ n + 1 = 1
    BY <1>1, <2>1, FoldStartFacts
  <2>3. QED
    BY <1>1, <1>2, <2>2 DEF FoldFits
<1>4. n \in DOMAIN ev.folds /\ n \in Nat \ {0} /\ ev.folds # <<>>
  BY <1>1, <1>3 DEF n
<1> DEFINE start == FoldStart(job, n)
<1>5. start \in Int /\ start >= job.train /\ FoldFits(job, start) /\ ev.folds[n] = Fold(job, start)
  BY <1>4, CurrentFold DEF job
<1>6. FoldStart(job, n + 1) = start + StepSize(job)
  BY <1>1, <1>4, FoldStartFacts
<1> HIDE DEF start
<1>7. ev.folds[n].test[2] = start + job.test
  <2>1. FoldIsThere(job, start)
    BY <1>1, <1>5, FoldFacts
  <2>2. QED
    BY <1>5, <2>1 DEF FoldIsThere
<1>8. Len(job.rows) < start + StepSize(job) + job.test
  BY <1>1, <1>2, <1>5, <1>6 DEF FoldFits
<1>9. start + job.test + StepSize(job) = start + StepSize(job) + job.test
  BY <1>2, <1>5
<1>10. QED
  BY <1>4, <1>7, <1>8, <1>9 DEF n, job

\* Every row that is tested comes after its own training rows, in place and in time, and is
\* tested once; and no row that could be tested is left out: the windows of split.py, and the
\* warm-up that must end before the test.
THEOREM TestedRows == Spec => []RowsAreTestedOnce
<1>1. ResearchInvariant => RowsAreTestedOnce
  <2> SUFFICES ASSUME ResearchInvariant, NEW e \in Evaluations
               PROVE  /\ FoldsAreApart(eval[e].job, eval[e].folds)
                      /\ \A k \in DOMAIN eval[e].results : TestsComeLater(eval[e].job, eval[e].folds[k])
                      /\ Begun(e, "folds") \/ Begun(e, "done") =>
                           /\ eval[e].folds # <<>>
                           /\ Len(eval[e].job.rows) < eval[e].folds[Len(eval[e].folds)].test[2] + StepSize(eval[e].job)
    BY Zenon DEF RowsAreTestedOnce
  <2>1. IsEvaluation(eval[e])
    BY DEF ResearchInvariant
  <2>2. FoldsAreApart(eval[e].job, eval[e].folds)
    BY <2>1, CutFoldsAreApart
  <2>3. \A k \in DOMAIN eval[e].results : TestsComeLater(eval[e].job, eval[e].folds[k])
    BY <2>1, TestedLater
  <2>4. ASSUME eval[e].stage \in {"folds", "done"}
        PROVE  /\ eval[e].folds # <<>>
               /\ Len(eval[e].job.rows) < eval[e].folds[Len(eval[e].folds)].test[2] + StepSize(eval[e].job)
    BY <2>1, <2>4, NoRowIsLeftOut
  <2>5. QED
    BY <2>2, <2>3, <2>4 DEF Begun
<1>2. QED
  BY <1>1, ResearchIsConsistent, PTL
-----------------------------------------------------------------------------
(***************************************************************************)
(* The selection is blind                                                  *)
(***************************************************************************)
\* Settings that differ in their rows only.
LEMMA SettingsAgree ==
  ASSUME NEW a \in Arguments, NEW b \in Arguments, SameSettings(a, b)
  PROVE  /\ a.train = b.train /\ a.test = b.test /\ a.step = b.step /\ a.expanding = b.expanding
         /\ a.grid = b.grid /\ \A k \in Nat : FoldStart(a, k) = FoldStart(b, k)
         /\ \A start \in Int : Fold(a, start) = Fold(b, start)
<1> DEFINE x == [a EXCEPT !.rows = <<>>]
           y == [b EXCEPT !.rows = <<>>]
<1>1. /\ x.train = a.train /\ x.test = a.test /\ x.step = a.step /\ x.expanding = a.expanding /\ x.grid = a.grid
      /\ y.train = b.train /\ y.test = b.test /\ y.step = b.step /\ y.expanding = b.expanding /\ y.grid = b.grid
  BY DEF Arguments
<1>2. x = y
  BY DEF SameSettings
<1> HIDE DEF x, y
<1>3. /\ a.train = b.train /\ a.test = b.test /\ a.step = b.step /\ a.expanding = b.expanding /\ a.grid = b.grid
  BY <1>1, <1>2
<1>4. StepSize(a) = StepSize(b)
  BY <1>3 DEF StepSize
<1>5. \A k \in Nat : FoldStart(a, k) = FoldStart(b, k)
  BY <1>3, <1>4 DEF FoldStart
<1>6. \A start \in Int : Fold(a, start) = Fold(b, start)
  BY <1>3 DEF Fold
<1>7. QED
  BY <1>3, <1>5, <1>6

\* A fold sees the same rows of data that agree up to it.
LEMMA RowsAgree ==
  ASSUME NEW a \in Arguments, ~Refused(a), NEW b \in Arguments, ~Refused(b), SameSettings(a, b),
         NEW start \in Int, start >= a.train, FoldFits(a, start), FoldFits(b, start)
  PROVE  LET fold == Fold(a, start) IN
         /\ SameUntil(a, b, start) => Rows(a, fold.train) = Rows(b, fold.train)
         /\ SameUntil(a, b, start + a.test) =>
              Rows(a, fold.train) = Rows(b, fold.train) /\ Rows(a, fold.test) = Rows(b, fold.test)
<1> DEFINE fold == Fold(a, start)
<1>1. /\ a.train = b.train /\ a.test = b.test /\ fold = Fold(b, start)
  BY SettingsAgree
<1>2. /\ fold.train[1] \in 1 .. start /\ start \in Nat \ {0} /\ start + a.test <= Len(a.rows)
      /\ Rows(a, fold.train) \in Seq(Bars) /\ Len(Rows(a, fold.train)) = start - fold.train[1] + 1
      /\ \A i \in 1 .. start - fold.train[1] + 1 : Rows(a, fold.train)[i] = a.rows[fold.train[1] + i - 1]
      /\ Rows(a, fold.test) \in Seq(Bars) /\ Len(Rows(a, fold.test)) = a.test
      /\ \A i \in 1 .. a.test : Rows(a, fold.test)[i] = a.rows[start + i]
  <2>1. FoldIsThere(a, start)
    BY FoldFacts
  <2>2. QED
    BY <2>1 DEF FoldIsThere
<1>3. FoldIsThere(b, start)
  <2>1. start >= b.train
    BY <1>1
  <2>2. QED
    BY <2>1, FoldFacts
<1> HIDE DEF fold
<1>4. /\ start + a.test <= Len(b.rows)
      /\ Rows(b, fold.train) \in Seq(Bars) /\ Len(Rows(b, fold.train)) = start - fold.train[1] + 1
      /\ \A i \in 1 .. start - fold.train[1] + 1 : Rows(b, fold.train)[i] = b.rows[fold.train[1] + i - 1]
      /\ Rows(b, fold.test) \in Seq(Bars) /\ Len(Rows(b, fold.test)) = a.test
      /\ \A i \in 1 .. a.test : Rows(b, fold.test)[i] = b.rows[start + i]
  BY <1>1, <1>3 DEF FoldIsThere
<1>5. /\ a.rows \in Seq(Bars) /\ b.rows \in Seq(Bars) /\ a.test \in Nat \ {0}
      /\ Len(a.rows) \in Nat /\ Len(b.rows) \in Nat
  BY SettingsFacts
<1>6. ASSUME NEW row \in 1 .. start + a.test, SameUntil(a, b, row)
      PROVE  \A i \in 1 .. row : a.rows[i] = b.rows[i]
  <2>1. row \in Int /\ row <= Len(a.rows) /\ row <= Len(b.rows)
    BY <1>2, <1>4, <1>5
  <2>2. \A i \in 1 .. row : a.rows[i] \in Bars /\ b.rows[i] \in Bars
    BY <1>5, <2>1, ElementOfSeq
  <2>3. \A i \in 1 .. row - 1 + 1 : SubSeq(a.rows, 1, row)[i] = a.rows[1 + i - 1]
    BY <2>1, <2>2, SubSeqProperties
  <2>4. \A i \in 1 .. row - 1 + 1 : SubSeq(b.rows, 1, row)[i] = b.rows[1 + i - 1]
    BY <2>1, <2>2, SubSeqProperties
  <2>5. SUFFICES ASSUME NEW i \in 1 .. row PROVE a.rows[i] = b.rows[i]
    OBVIOUS
  <2>6. i \in 1 .. row - 1 + 1 /\ 1 + i - 1 = i
    BY <2>1
  <2>7. QED
    BY <1>6, <2>3, <2>4, <2>6 DEF SameUntil
<1>7. ASSUME \A i \in 1 .. start : a.rows[i] = b.rows[i]
      PROVE  Rows(a, fold.train) = Rows(b, fold.train)
  <2> DEFINE n == start - fold.train[1] + 1
  <2>1. \A i \in 1 .. n : fold.train[1] + i - 1 \in 1 .. start
    BY <1>2
  <2>2. ASSUME NEW i \in 1 .. n PROVE Rows(a, fold.train)[i] = Rows(b, fold.train)[i]
    <3>1. Rows(a, fold.train)[i] = a.rows[fold.train[1] + i - 1]
      BY <1>2
    <3>2. Rows(b, fold.train)[i] = b.rows[fold.train[1] + i - 1]
      BY <1>4
    <3>3. a.rows[fold.train[1] + i - 1] = b.rows[fold.train[1] + i - 1]
      BY <1>7, <2>1
    <3>4. QED
      BY <3>1, <3>2, <3>3
  <2>3. QED
    BY <1>2, <1>4, <2>2, SeqEqual
<1>8. ASSUME \A i \in 1 .. start + a.test : a.rows[i] = b.rows[i]
      PROVE  Rows(a, fold.test) = Rows(b, fold.test)
  <2>1. \A i \in 1 .. a.test : start + i \in 1 .. start + a.test
    BY <1>2, <1>5
  <2>2. \A i \in 1 .. a.test : Rows(a, fold.test)[i] = Rows(b, fold.test)[i]
    BY <1>2, <1>4, <1>8, <2>1
  <2>3. QED
    BY <1>2, <1>4, <2>2, SeqEqual
<1>9. /\ start \in 1 .. start + a.test /\ start + a.test \in 1 .. start + a.test
      /\ 1 .. start \subseteq 1 .. start + a.test
  BY <1>2, <1>5
<1>10. SameUntil(a, b, start) => Rows(a, fold.train) = Rows(b, fold.train)
  BY <1>6, <1>7, <1>9
<1>11. SameUntil(a, b, start + a.test) =>
         Rows(a, fold.train) = Rows(b, fold.train) /\ Rows(a, fold.test) = Rows(b, fold.test)
  BY <1>6, <1>7, <1>8, <1>9
<1>12. QED
  BY <1>10, <1>11 DEF fold

\* What two evaluations have of the same fold.
LEMMA FoldsAgree ==
  ASSUME NEW ev, IsEvaluation(ev), NEW other, IsEvaluation(other), SameSettings(ev.job, other.job),
         NEW k \in DOMAIN ev.folds \cap DOMAIN other.folds
  PROVE  LET a == ev.job
             b == other.job
             fold == ev.folds[k]
         IN  /\ fold = other.folds[k] /\ a.grid = b.grid
             /\ SameUntil(a, b, fold.test[1] - 1) => Rows(a, fold.train) = Rows(b, fold.train)
             /\ SameUntil(a, b, fold.test[2]) =>
                  Rows(a, fold.train) = Rows(b, fold.train) /\ Rows(a, fold.test) = Rows(b, fold.test)
<1> DEFINE a == ev.job
           b == other.job
           fold == ev.folds[k]
           start == FoldStart(a, k)
<1>1. /\ ~Refused(a) /\ a \in Arguments /\ start \in Int /\ start >= a.train /\ FoldFits(a, start)
      /\ fold = Fold(a, start)
  BY CurrentFold
<1>2. /\ ~Refused(b) /\ b \in Arguments /\ FoldFits(b, FoldStart(b, k)) /\ other.folds[k] = Fold(b, FoldStart(b, k))
  BY CurrentFold
<1>3. k \in Nat
  BY RecordFacts DEF IsEvaluation
<1> HIDE DEF a, b, fold, start
<1>4. /\ FoldStart(b, k) = start /\ Fold(a, start) = Fold(b, start) /\ a.grid = b.grid
  <2>1. SameSettings(a, b)
    BY DEF a, b
  <2>2. QED
    BY <1>1, <1>2, <1>3, <2>1, SettingsAgree DEF start
<1>5. fold.test[1] - 1 = start /\ fold.test[2] = start + a.test
  <2>1. fold.test[1] = start + 1 /\ fold.test[2] = start + a.test
    <3>1. FoldIsThere(a, start)
      BY <1>1, FoldFacts
    <3>2. QED
      BY <1>1, <3>1 DEF FoldIsThere
  <2>2. QED
    BY <1>1, <2>1
<1>6. /\ SameUntil(a, b, start) => Rows(a, fold.train) = Rows(b, fold.train)
      /\ SameUntil(a, b, start + a.test) =>
           Rows(a, fold.train) = Rows(b, fold.train) /\ Rows(a, fold.test) = Rows(b, fold.test)
  <2>1. SameSettings(a, b) /\ FoldFits(b, start)
    BY <1>2, <1>4 DEF a, b
  <2>2. QED
    BY <1>1, <1>2, <2>1, RowsAgree
<1>7. QED
  BY <1>1, <1>2, <1>4, <1>5, <1>6 DEF a, b, fold

\* The same training rows score the same, and the same test rows give the same result.
LEMMA ResultsAgree ==
  ASSUME NEW a, NEW b, a.grid = b.grid, NEW fold, Rows(a, fold.train) = Rows(b, fold.train)
  PROVE  /\ \A c : ScoreOf(a, fold, c) = ScoreOf(b, fold, c)
         /\ ResultOf(a, fold).selected_parameters = ResultOf(b, fold).selected_parameters
         /\ ResultOf(a, fold).train_score = ResultOf(b, fold).train_score
         /\ Rows(a, fold.test) = Rows(b, fold.test) => ResultOf(a, fold) = ResultOf(b, fold)
<1>1. \A c : ScoreOf(a, fold, c) = ScoreOf(b, fold, c)
  BY DEF ScoreOf
<1>2. AllScores(a, fold) = AllScores(b, fold)
  BY <1>1 DEF AllScores
<1>3. QED
  BY <1>1, <1>2 DEF ResultOf

\* Two evaluations whose data agree up to the test of a fold score alike and choose alike for it,
\* whatever comes later and whatever other folds and evaluations do; and what they report of the
\* fold differs only by its test rows: evaluate_parameter_grid sees the training rows only.
THEOREM BlindSelection == Spec => []SelectionIsBlind
<1>1. ResearchInvariant => SelectionIsBlind
  <2>1. SUFFICES ASSUME ResearchInvariant, NEW e \in Evaluations, NEW f \in Evaluations,
                        SameSettings(eval[e].job, eval[f].job)
        PROVE  /\ \A k \in DOMAIN eval[e].results \cap DOMAIN eval[f].results :
                    /\ SameUntil(eval[e].job, eval[f].job, eval[e].folds[k].test[1] - 1) =>
                         /\ eval[e].results[k].selected_parameters = eval[f].results[k].selected_parameters
                         /\ eval[e].results[k].train_score = eval[f].results[k].train_score
                    /\ SameUntil(eval[e].job, eval[f].job, eval[e].folds[k].test[2]) =>
                         eval[e].results[k] = eval[f].results[k]
               /\ /\ Begun(e, "folds") /\ Begun(f, "folds")
                  /\ Len(eval[e].results) = Len(eval[f].results) /\ Len(eval[e].results) < Len(eval[e].folds)
                  /\ SameUntil(eval[e].job, eval[f].job, Current(e).test[1] - 1)
                  => \A c \in DOMAIN eval[e].scores \cap DOMAIN eval[f].scores :
                       eval[e].scores[c] = eval[f].scores[c]
    BY Zenon DEF SelectionIsBlind
  <2> DEFINE ev == eval[e]
             other == eval[f]
             a == ev.job
             b == other.job
  <2>2. IsEvaluation(ev) /\ IsEvaluation(other)
    BY <2>1 DEF ResearchInvariant
  <2>3. SameSettings(a, b)
    BY <2>1
  <2> HIDE DEF ev, other
  <2>4. /\ DOMAIN ev.folds = 1 .. Len(ev.folds) /\ DOMAIN ev.results = 1 .. Len(ev.results)
        /\ Len(ev.folds) \in Nat /\ Len(ev.results) \in Nat /\ Len(ev.results) <= Len(ev.folds)
        /\ DOMAIN other.folds = 1 .. Len(other.folds) /\ DOMAIN other.results = 1 .. Len(other.results)
        /\ Len(other.folds) \in Nat /\ Len(other.results) \in Nat /\ Len(other.results) <= Len(other.folds)
        /\ ev.scores \in Seq(Scores) /\ other.scores \in Seq(Scores)
    BY <2>2, RecordFacts DEF IsEvaluation, ResultsOK
  <2>5. ASSUME NEW k \in DOMAIN ev.results \cap DOMAIN other.results
        PROVE  /\ SameUntil(a, b, ev.folds[k].test[1] - 1) =>
                    /\ ev.results[k].selected_parameters = other.results[k].selected_parameters
                    /\ ev.results[k].train_score = other.results[k].train_score
               /\ SameUntil(a, b, ev.folds[k].test[2]) => ev.results[k] = other.results[k]
    <3> DEFINE fold == ev.folds[k]
    <3>1. k \in DOMAIN ev.folds \cap DOMAIN other.folds
      BY <2>4
    <3>2. /\ fold = other.folds[k] /\ a.grid = b.grid
          /\ SameUntil(a, b, fold.test[1] - 1) => Rows(a, fold.train) = Rows(b, fold.train)
          /\ SameUntil(a, b, fold.test[2]) =>
               Rows(a, fold.train) = Rows(b, fold.train) /\ Rows(a, fold.test) = Rows(b, fold.test)
      BY <2>2, <2>3, <3>1, FoldsAgree
    <3>3. ev.results[k] = ResultOf(a, fold) /\ other.results[k] = ResultOf(b, fold)
      BY <2>2, <3>2 DEF IsEvaluation, ResultsOK, IsResult
    <3> HIDE DEF fold, a, b
    <3>4. QED
      BY <3>2, <3>3, ResultsAgree DEF fold
  <2>6. ASSUME ev.stage = "folds", other.stage = "folds", Len(ev.results) = Len(other.results),
               Len(ev.results) < Len(ev.folds),
               SameUntil(a, b, ev.folds[Len(ev.results) + 1].test[1] - 1),
               NEW c \in DOMAIN ev.scores \cap DOMAIN other.scores
        PROVE  ev.scores[c] = other.scores[c]
    <3> DEFINE k == Len(ev.results) + 1
               fold == ev.folds[k]
    <3>1. Len(other.results) < Len(other.folds)
      <4>1. other.scores # <<>>
        BY <2>4
      <4>2. QED
        BY <2>2, <2>6, <4>1 DEF IsEvaluation, ScoresOK
    <3>2. k \in DOMAIN ev.folds \cap DOMAIN other.folds /\ k = Len(other.results) + 1
      BY <2>4, <2>6, <3>1
    <3>3. ev.scores[c] = ScoreOf(a, fold, c) /\ other.scores[c] = ScoreOf(b, other.folds[k], c)
      BY <2>2, <2>6, <3>2 DEF IsEvaluation, ScoresOK
    <3> HIDE DEF k
    <3>4. /\ fold = other.folds[k] /\ a.grid = b.grid
          /\ SameUntil(a, b, fold.test[1] - 1) => Rows(a, fold.train) = Rows(b, fold.train)
      BY <2>2, <2>3, <3>2, FoldsAgree
    <3>5. SameUntil(a, b, fold.test[1] - 1)
      BY <2>6 DEF k
    <3> HIDE DEF fold, a, b
    <3>6. QED
      BY <3>3, <3>4, <3>5, ResultsAgree
  <2>7. QED
    BY <2>5, <2>6 DEF ev, other, Begun, Current
<1>2. QED
  BY <1>1, ResearchIsConsistent, PTL
-----------------------------------------------------------------------------
(***************************************************************************)
(* The combined equity goes on from fold to fold                           *)
(***************************************************************************)
\* The equity curve grows by one return after the other.
Grows(curve, returns, capital) ==
  /\ curve \in [0 .. Len(returns) -> Fractions]
  /\ curve[0] = capital
  /\ \A i \in 1 .. Len(returns) : curve[i] = curve[i - 1] ** (One ++ returns[i])

\* It exists, and it is what equity_curve computes.
LEMMA CurveGrows ==
  ASSUME NEW returns \in Seq(Fractions), NEW capital \in Fractions
  PROVE  \E curve : /\ Grows(curve, returns, capital)
                    /\ EquityCurve(returns, capital) = [i \in DOMAIN returns |-> curve[i]]
<1> DEFINE m == Len(returns)
           step == [p \in (1 .. m) \X Fractions |-> p[2] ** (One ++ returns[p[1]])]
           Curve(f) == f = [i \in 0 .. m |-> IF i = 0 THEN capital ELSE f[i - 1] ** (One ++ returns[i])]
<1>1. m \in Nat /\ \A i \in 1 .. m : returns[i] \in Fractions
  BY LenProperties, ElementOfSeq
<1>2. \A i \in 1 .. m, v \in Fractions : v ** (One ++ returns[i]) \in Fractions
  <2> SUFFICES ASSUME NEW i \in 1 .. m, NEW v \in Fractions PROVE v ** (One ++ returns[i]) \in Fractions
    OBVIOUS
  <2>1. One \in Quotients /\ returns[i] \in Quotients /\ v \in Quotients
    BY <1>1, FractionsAreQuotients, WholeType DEF One
  <2>2. One ++ returns[i] \in Quotients
    BY <2>1, OperationTypes, FractionsAreQuotients
  <2>3. QED
    BY <2>1, <2>2, OperationTypes
<1> HIDE DEF m
<1>3. \E f : Curve(f)
  <2>1. step \in [(1 .. m) \X Fractions -> Fractions]
    BY <1>2
  <2> HIDE DEF step
  <2>2. PICK f \in [0 .. m -> Fractions] : Recurs(f, capital, step, m)
    BY <1>1, <2>1, RecursionExists, Zenon
  <2>3. ASSUME NEW i \in 0 .. m
        PROVE  f[i] = IF i = 0 THEN capital ELSE f[i - 1] ** (One ++ returns[i])
    <3>1. CASE i = 0
      BY <2>2, <3>1 DEF Recurs
    <3>2. CASE i # 0
      <4>1. i \in 1 .. m /\ i - 1 \in 0 .. m
        BY <1>1, <3>2
      <4>2. f[i - 1] \in Fractions
        BY <2>2, <4>1
      <4>3. f[i] = step[<<i, f[i - 1]>>]
        BY <2>2, <4>1 DEF Recurs
      <4>4. step[<<i, f[i - 1]>>] = f[i - 1] ** (One ++ returns[i])
        BY <4>1, <4>2 DEF step
      <4>5. QED
        BY <3>2, <4>3, <4>4
    <3>3. QED
      BY <3>1, <3>2
  <2>4. f = [i \in 0 .. m |-> f[i]]
    BY <2>2
  <2>5. Curve(f)
    BY <2>3, <2>4
  <2>6. QED
    BY <2>5
<1> DEFINE curve == CHOOSE f : Curve(f)
<1>4. Curve(curve)
  BY <1>3, Zenon
<1>5. EquityCurve(returns, capital) = [i \in DOMAIN returns |-> curve[i]]
  BY DEF EquityCurve, m
<1> HIDE DEF curve, step
<1>6. \A i \in 0 .. m : curve[i] = IF i = 0 THEN capital ELSE curve[i - 1] ** (One ++ returns[i])
  BY <1>4, Zenon
<1>7. DOMAIN curve = 0 .. m /\ curve = [i \in 0 .. m |-> curve[i]]
  BY <1>4, <1>6
<1> HIDE DEF Curve
<1>8. \A i \in 0 .. m : curve[i] \in Fractions
  <2> DEFINE B == {i \in 0 .. m : curve[i] \notin Fractions}
  <2>1. SUFFICES ASSUME B # {} PROVE FALSE
    OBVIOUS
  <2>2. PICK i \in B : \A k \in B : i <= k
    <3> HIDE DEF B
    <3>1. B \subseteq Nat
      BY DEF B
    <3>2. QED
      BY <2>1, <3>1, LeastExists
  <2>3. CASE i = 0
    BY <1>6, <2>2, <2>3
  <2>4. CASE i # 0
    <3>1. i \in 1 .. m /\ i - 1 \in 0 .. m /\ i - 1 \notin B
      BY <1>1, <2>2, <2>4
    <3>2. curve[i - 1] \in Fractions
      BY <3>1
    <3>3. curve[i] = curve[i - 1] ** (One ++ returns[i])
      BY <1>6, <2>4, <3>1
    <3>4. QED
      BY <1>2, <2>2, <3>1, <3>2, <3>3
  <2>5. QED
    BY <2>3, <2>4
<1>9. Grows(curve, returns, capital)
  <2>1. curve \in [0 .. m -> Fractions]
    BY <1>7, <1>8
  <2>2. curve[0] = capital
    BY <1>1, <1>6
  <2>3. ASSUME NEW i \in 1 .. m PROVE curve[i] = curve[i - 1] ** (One ++ returns[i])
    <3>1. i \in 0 .. m /\ i # 0
      BY <1>1
    <3>2. QED
      BY <1>6, <3>1
  <2>4. QED
    BY <2>1, <2>2, <2>3 DEF Grows, m
<1>10. QED
  BY <1>5, <1>9

\* What is greater than zero.
LEMMA Positive == \A a \in Fractions : Zero \prec a => a.n > 0
<1> SUFFICES ASSUME NEW a \in Fractions, Zero \prec a PROVE a.n > 0
  OBVIOUS
<1>1. a \in Quotients /\ a.n \in Int /\ a.d \in Nat \ {0}
  BY FractionsAreQuotients, Typing
<1>2. 0 * a.d < a.n * 1
  BY <1>1, ZeroType, OperationsAreRatios
<1>3. QED
  BY <1>1, <1>2

\* The equity of a fold after i bars.
After(results, k, i) == IF i = 0 THEN Capital ELSE results[k].test_equity[i]

\* The returns of the folds, one after the other, are each measured from the bar before.
LEMMA FoldReturns ==
  ASSUME NEW results \in Seq(Results), results # <<>>, NEW size \in Nat \ {0},
         \A k \in DOMAIN results : Len(results[k].test_equity) = size /\ AllPositive(results[k].test_equity)
  PROVE  /\ CombinedReturns(results) \in Seq(Fractions)
         /\ Len(CombinedReturns(results)) = Len(results) * size
         /\ \A k \in 1 .. Len(results), i \in 0 .. size :
              After(results, k, i) \in Fractions /\ After(results, k, i).n > 0
         /\ \A k \in 1 .. Len(results), i \in 1 .. size :
              CombinedReturns(results)[Position(k, size, i)] =
                After(results, k, i) // After(results, k, i - 1) -- One
<1> DEFINE n == Len(results)
           P(k, i) == After(results, k, i)
           list(k) == ReturnsFromResult(results[k].test_equity)
           lists == [k \in DOMAIN results |-> list(k)]
<1>1. /\ n \in Nat \ {0} /\ DOMAIN results = 1 .. n
      /\ \A k \in 1 .. n : results[k].test_equity \in Seq(Fractions)
  <2>1. n \in Nat \ {0} /\ DOMAIN results = 1 .. n
    BY EmptySeq, LenProperties
  <2>2. \A k \in 1 .. n : results[k] \in Results
    BY <2>1, ElementOfSeq
  <2>3. QED
    BY <2>1, <2>2 DEF Results
<1>2. \A k \in 1 .. n, i \in 1 .. size : results[k].test_equity[i] \in Fractions /\ results[k].test_equity[i].n > 0
  <2> SUFFICES ASSUME NEW k \in 1 .. n, NEW i \in 1 .. size
               PROVE  results[k].test_equity[i] \in Fractions /\ results[k].test_equity[i].n > 0
    OBVIOUS
  <2> DEFINE equity == results[k].test_equity
  <2>1. equity \in Seq(Fractions) /\ Len(equity) = size /\ AllPositive(equity)
    BY <1>1
  <2> HIDE DEF equity
  <2>2. equity[i] \in Fractions /\ Zero \prec equity[i]
    BY <2>1, LenProperties, ElementOfSeq DEF AllPositive
  <2>3. QED
    BY <2>2, Positive DEF equity
<1>3. Capital \in Fractions /\ Capital.n > 0
  BY ResearchAssumption, Positive
<1>4. \A k \in 1 .. n, i \in 0 .. size : P(k, i) \in Fractions /\ P(k, i).n > 0
  <2> SUFFICES ASSUME NEW k \in 1 .. n, NEW i \in 0 .. size PROVE P(k, i) \in Fractions /\ P(k, i).n > 0
    OBVIOUS
  <2>1. CASE i = 0
    BY <1>3, <2>1 DEF After
  <2>2. CASE i # 0
    <3>1. i \in 1 .. size
      BY <2>2
    <3>2. QED
      BY <1>2, <2>2, <3>1 DEF After
  <2>3. QED
    BY <2>1, <2>2
<1>5. \A k \in 1 .. n, i \in 1 .. size : P(k, i) // P(k, i - 1) -- One \in Fractions
  <2> SUFFICES ASSUME NEW k \in 1 .. n, NEW i \in 1 .. size PROVE P(k, i) // P(k, i - 1) -- One \in Fractions
    OBVIOUS
  <2> DEFINE a == P(k, i)
             b == P(k, i - 1)
  <2>1. i \in 0 .. size /\ i - 1 \in 0 .. size
    OBVIOUS
  <2>2. a \in Fractions /\ b \in Fractions /\ b.n > 0
    BY <1>4, <2>1
  <2> HIDE DEF a, b
  <2>3. a // b \in Fractions
    <3>1. a \in Quotients /\ b \in Quotients /\ b.n # 0
      BY <2>2, FractionsAreQuotients, Typing
    <3>2. QED
      BY <3>1, OperationTypes
  <2>4. One \in Quotients /\ a // b \in Quotients
    BY <2>3, FractionsAreQuotients, WholeType DEF One
  <2>5. QED
    BY <2>4, OperationTypes DEF a, b
<1>6. ASSUME NEW k \in 1 .. n
      PROVE  /\ list(k) \in Seq(Fractions) /\ Len(list(k)) = size
             /\ \A i \in 1 .. size : list(k)[i] = P(k, i) // P(k, i - 1) -- One
  <2> DEFINE equity == results[k].test_equity
             prices == <<Capital>> \o equity
  <2>1. equity \in Seq(Fractions) /\ Len(equity) = size /\ <<Capital>> \in Seq(Fractions)
        /\ Len(<<Capital>>) = 1 /\ <<Capital>>[1] = Capital
    BY <1>1, <1>3
  <2>2. /\ Len(prices) = 1 + size
        /\ \A i \in 1 .. 1 + size : prices[i] = IF i <= 1 THEN <<Capital>>[i] ELSE equity[i - 1]
    <3> HIDE DEF equity
    <3>1. QED
      BY <2>1, ConcatProperties
  <2>3. list(k) = [i \in 1 .. Len(prices) - 1 |-> prices[i + 1] // prices[i] -- One]
    BY DEF ReturnsFromResult, SimpleReturns
  <2> HIDE DEF prices, list
  <2>4. ASSUME NEW i \in 0 .. size PROVE prices[i + 1] = P(k, i)
    <3>1. i + 1 \in 1 .. 1 + size /\ (i = 0 <=> i + 1 <= 1) /\ i + 1 - 1 = i
      OBVIOUS
    <3>2. prices[i + 1] = IF i = 0 THEN <<Capital>>[1] ELSE equity[i]
      BY <2>2, <3>1
    <3>3. QED
      BY <2>1, <3>2 DEF After
  <2>5. ASSUME NEW i \in 1 .. size
        PROVE  prices[i + 1] // prices[i] -- One = P(k, i) // P(k, i - 1) -- One
    <3>1. i \in 0 .. size /\ i - 1 \in 0 .. size /\ i - 1 + 1 = i
      OBVIOUS
    <3>2. prices[i + 1] = P(k, i) /\ prices[i] = P(k, i - 1)
      BY <2>4, <3>1
    <3>3. QED
      BY <3>2
  <2> DEFINE value(i) == P(k, i) // P(k, i - 1) -- One
  <2>6. list(k) = [i \in 1 .. size |-> value(i)]
    <3>1. Len(prices) - 1 = size
      BY <2>2
    <3>2. QED
      BY <2>3, <2>5, <3>1
  <2>7. \A i \in 1 .. size : value(i) \in Fractions
    BY <1>5
  <2> HIDE DEF value
  <2>8. list(k) \in [1 .. size -> Fractions] /\ \A i \in 1 .. size : list(k)[i] = value(i)
    BY <2>6, <2>7
  <2>9. list(k) \in Seq(Fractions) /\ Len(list(k)) = size
    BY <2>8, FunctionIsList
  <2>10. QED
    BY <2>8, <2>9 DEF value
<1> HIDE DEF list, P, n
<1>7. lists \in Seq(Seq(Fractions)) /\ Len(lists) = n /\ \A k \in DOMAIN lists : Len(lists[k]) = size
  <2>1. lists \in [1 .. n -> Seq(Fractions)]
    BY <1>1, <1>6
  <2>2. \A k \in DOMAIN lists : Len(lists[k]) = size
    BY <1>1, <1>6
  <2> HIDE DEF lists
  <2>3. QED
    BY <1>1, <2>1, <2>2, FunctionIsList
<1>8. CombinedReturns(results) = Lists!FlattenSeq(lists)
  BY DEF CombinedReturns, list
<1>9. \A k \in 1 .. n : lists[k] = list(k)
  BY <1>1
<1> HIDE DEF lists
<1>10. lists # <<>>
  BY <1>1, <1>7, EmptySeq
<1>11. /\ Lists!FlattenSeq(lists) \in Seq(Fractions)
       /\ Len(Lists!FlattenSeq(lists)) = n * size
       /\ \A k \in 1 .. n, i \in 1 .. size : Lists!FlattenSeq(lists)[Position(k, size, i)] = lists[k][i]
  <2> HIDE DEF Position
  <2>1. size \in Nat
    OBVIOUS
  <2>2. Concatenation(Lists!FlattenSeq(lists), lists, Fractions, size)
    BY <1>7, <1>10, <2>1, FlattenedLists, Zenon
  <2>3. QED
    BY <1>7, <2>2, Zenon DEF Concatenation
<1>12. \A k \in 1 .. n, i \in 1 .. size :
         CombinedReturns(results)[Position(k, size, i)] = P(k, i) // P(k, i - 1) -- One
  BY <1>6, <1>8, <1>9, <1>11
<1>13. QED
  BY <1>4, <1>8, <1>11, <1>12 DEF n, P

\* After a bar of a fold the curve is what it was before the fold, scaled by the fold's equity.
LEMMA CurveGoesOn ==
  ASSUME NEW results \in Seq(Results), results # <<>>, NEW size \in Nat \ {0},
         \A k \in DOMAIN results : Len(results[k].test_equity) = size /\ AllPositive(results[k].test_equity)
  PROVE  EquityGoesOn(EquityCurve(CombinedReturns(results), Capital), results, size)
<1> DEFINE n == Len(results)
           returns == CombinedReturns(results)
           equity == EquityCurve(returns, Capital)
           P(k, i) == After(results, k, i)
<1>1. n \in Nat \ {0} /\ DOMAIN results = 1 .. n
  BY EmptySeq, LenProperties
<1>2. /\ returns \in Seq(Fractions) /\ Len(returns) = n * size
      /\ \A k \in 1 .. n, i \in 0 .. size : P(k, i) \in Fractions /\ P(k, i).n > 0
      /\ \A k \in 1 .. n, i \in 1 .. size : returns[Position(k, size, i)] = P(k, i) // P(k, i - 1) -- One
  BY FoldReturns
<1>3. Capital \in Fractions /\ Capital.n > 0
  BY ResearchAssumption, Positive
<1> HIDE DEF returns, P, n
<1>4. PICK curve : Grows(curve, returns, Capital) /\ equity = [i \in DOMAIN returns |-> curve[i]]
  BY <1>2, <1>3, CurveGrows
<1> HIDE DEF equity
<1> DEFINE before(k) == (k - 1) * size
<1>5. DOMAIN returns = 1 .. n * size /\ n * size \in Nat
  BY <1>1, <1>2, LenProperties
<1>6. /\ curve \in [0 .. n * size -> Fractions] /\ curve[0] = Capital
      /\ \A i \in 1 .. n * size : curve[i] = curve[i - 1] ** (One ++ returns[i])
  BY <1>2, <1>4 DEF Grows
<1>7. \A k \in 1 .. n : before(k) \in 0 .. n * size /\ (k # 1 => before(k) \in 1 .. n * size)
  <2> SUFFICES ASSUME NEW k \in 1 .. n
               PROVE  before(k) \in 0 .. n * size /\ (k # 1 => before(k) \in 1 .. n * size)
    OBVIOUS
  <2>1. k - 1 \in Nat /\ k - 1 <= n
    BY <1>1
  <2>2. (k - 1) * size \in Nat /\ (k - 1) * size <= n * size
    BY <1>1, <2>1
  <2>3. k # 1 => (k - 1) * size # 0
    BY <1>1, <2>1
  <2>4. QED
    BY <1>5, <2>2, <2>3
<1>8. ASSUME NEW k \in 1 .. n
      PROVE  \A i \in 0 .. size : curve[before(k) + i] = curve[before(k)] ** (P(k, i) // Capital)
  <2> DEFINE b == before(k)
             base == curve[b]
             B == {i \in 0 .. size : curve[b + i] # base ** (P(k, i) // Capital)}
  <2>1. SUFFICES ASSUME B # {} PROVE FALSE
    OBVIOUS
  <2>2. b \in Nat /\ base \in Fractions
    BY <1>6, <1>7
  <2>3. \A i \in 1 .. size : b + i = Position(k, size, i) /\ b + i \in 1 .. n * size
    <3> SUFFICES ASSUME NEW i \in 1 .. size PROVE b + i = Position(k, size, i) /\ b + i \in 1 .. n * size
      OBVIOUS
    <3>1. b + i = Position(k, size, i)
      BY DEF Position
    <3>2. Position(k, size, i) \in 1 .. n * size
      <4>1. n \in Nat /\ size \in Nat
        BY <1>1
      <4>2. QED
        BY <4>1, PositionInside
    <3>3. QED
      BY <3>1, <3>2
  <2> HIDE DEF b
  <2>4. PICK i \in B : \A j \in B : i <= j
    <3> HIDE DEF B
    <3>1. B \subseteq Nat
      BY DEF B
    <3>2. QED
      BY <2>1, <3>1, LeastExists
  <2>5. CASE i = 0
    <3>1. P(k, 0) = Capital /\ b + 0 = b
      BY <2>2 DEF P, After
    <3>2. base ** (Capital // Capital) = base
      BY <1>3, <2>2, GrowthOfNothing
    <3>3. QED
      BY <2>4, <2>5, <3>1, <3>2
  <2>6. CASE i # 0
    <3>1. i \in 1 .. size /\ i \in 0 .. size /\ i - 1 \in 0 .. size /\ i - 1 \notin B
      BY <2>4, <2>6
    <3> DEFINE p == P(k, i - 1)
               q == P(k, i)
    <3>2. p \in Fractions /\ p.n > 0 /\ q \in Fractions /\ q.n > 0
      BY <1>2, <3>1
    <3>3. curve[b + (i - 1)] = base ** (p // Capital)
      BY <3>1
    <3>4. returns[b + i] = q // p -- One
      BY <1>2, <2>3, <3>1
    <3>5. curve[b + i] = curve[b + (i - 1)] ** (One ++ returns[b + i])
      <4> DEFINE last == n * size
                 m == b + i
                 l == b + (i - 1)
      <4>1. \A j \in 1 .. last : curve[j] = curve[j - 1] ** (One ++ returns[j])
        BY <1>6
      <4>2. m \in 1 .. last /\ m - 1 = l
        BY <2>2, <2>3, <3>1
      <4> HIDE DEF last, m, l
      <4>3. curve[m] = curve[m - 1] ** (One ++ returns[m])
        BY <4>1, <4>2
      <4>4. curve[m] = curve[l] ** (One ++ returns[m])
        BY <4>2, <4>3, Zenon
      <4>5. QED
        BY <4>4, Zenon DEF m, l
    <3>6. curve[b + i] # base ** (q // Capital)
      BY <2>4
    <3> HIDE DEF p, q, B, base
    <3>7. One ++ (q // p -- One) = q // p
      <4>1. q // p \in Fractions
        <5>1. p \in Quotients /\ q \in Quotients /\ p.n # 0
          BY <3>2, FractionsAreQuotients, Typing
        <5>2. QED
          BY <5>1, OperationTypes
      <4>2. QED
        BY <4>1, OneBack DEF One
    <3>8. (base ** (p // Capital)) ** (q // p) = base ** (q // Capital)
      BY <1>3, <2>2, <3>2, GrowthChains
    <3>9. QED
      BY <3>3, <3>4, <3>5, <3>6, <3>7, <3>8
  <2>7. QED
    BY <2>5, <2>6
<1> HIDE DEF before
<1>9. equity \in Seq(Fractions) /\ Len(equity) = n * size /\ \A m \in 1 .. n * size : equity[m] = curve[m]
  <2>1. \A m \in 1 .. n * size : curve[m] \in Fractions
    <3> DEFINE last == n * size
    <3>1. \A m \in 1 .. last : m \in 0 .. last
      BY <1>5
    <3> HIDE DEF last
    <3>2. curve \in [0 .. last -> Fractions]
      BY <1>6 DEF last
    <3>3. \A m \in 1 .. last : curve[m] \in Fractions
      BY <3>1, <3>2
    <3>4. QED
      BY <3>3 DEF last
  <2>2. equity \in [1 .. n * size -> Fractions] /\ \A m \in 1 .. n * size : equity[m] = curve[m]
    BY <1>4, <1>5, <2>1
  <2>3. QED
    BY <1>5, <2>2, FunctionIsList
<1>10. ASSUME NEW k \in 1 .. n, NEW i \in 1 .. size
       PROVE  equity[before(k) + i] =
                (IF k = 1 THEN Capital ELSE equity[before(k)]) ** (results[k].test_equity[i] // Capital)
  <2>1. before(k) + i \in 1 .. n * size
    <3>1. before(k) + i = Position(k, size, i) /\ n \in Nat /\ size \in Nat
      BY <1>1 DEF before, Position
    <3>2. QED
      BY <3>1, PositionInside
  <2>2. i \in 0 .. size /\ i # 0
    OBVIOUS
  <2>3. P(k, i) = results[k].test_equity[i]
    BY <2>2 DEF P, After
  <2>4. curve[before(k) + i] = curve[before(k)] ** (results[k].test_equity[i] // Capital)
    BY <1>8, <2>2, <2>3
  <2>5. curve[before(k)] = IF k = 1 THEN Capital ELSE equity[before(k)]
    <3>1. CASE k = 1
      <4>1. before(k) = 0
        BY <3>1 DEF before
      <4>2. QED
        BY <1>6, <3>1, <4>1
    <3>2. CASE k # 1
      BY <1>7, <1>9, <3>2
    <3>3. QED
      BY <3>1, <3>2
  <2>6. QED
    BY <1>9, <2>1, <2>4, <2>5
<1>11. QED
  BY <1>1, <1>9, <1>10, Zenon DEF EquityGoesOn, before, n, equity, returns

\* The curve of an evaluation that is done is one of that kind.
LEMMA SummaryGoesOn ==
  ASSUME NEW ev, IsEvaluation(ev), ev.stage = "done"
  PROVE  EquityGoesOn(ev.summary.combined_oos_equity, ev.results, ev.job.test)
<1> DEFINE size == ev.job.test
<1>1. /\ ev.results \in Seq(Results) /\ ev.results # <<>> /\ ~Refused(ev.job) /\ ev.job \in Arguments
      /\ \A k \in DOMAIN ev.results : AllPositive(ev.results[k].test_equity)
      /\ ev.summary.combined_oos_equity = EquityCurve(CombinedReturns(ev.results), Capital)
  BY RecordFacts DEF IsEvaluation, SummaryOK, FoldsOK
<1>2. size \in Nat \ {0}
  BY <1>1, SettingsFacts
<1>3. \A k \in DOMAIN ev.results : Len(ev.results[k].test_equity) = size
  <2> SUFFICES ASSUME NEW k \in DOMAIN ev.results PROVE Len(ev.results[k].test_equity) = size
    OBVIOUS
  <2> DEFINE start == FoldStart(ev.job, k)
             fold == ev.folds[k]
  <2>1. k \in DOMAIN ev.folds /\ IsResult(ev.job, fold, ev.results[k])
    <3>1. /\ DOMAIN ev.folds = 1 .. Len(ev.folds) /\ DOMAIN ev.results = 1 .. Len(ev.results)
          /\ Len(ev.folds) \in Nat /\ Len(ev.results) \in Nat
      BY RecordFacts DEF IsEvaluation
    <3>2. Len(ev.results) <= Len(ev.folds) /\ IsResult(ev.job, fold, ev.results[k])
      BY DEF IsEvaluation, ResultsOK
    <3>3. QED
      BY <3>1, <3>2
  <2>2. start \in Int /\ start >= ev.job.train /\ FoldFits(ev.job, start) /\ fold = Fold(ev.job, start)
    BY <2>1, CurrentFold
  <2> HIDE DEF start, fold
  <2>3. Len(Rows(ev.job, fold.test)) = size
    <3>1. FoldIsThere(ev.job, start)
      BY <1>1, <2>2, FoldFacts
    <3>2. QED
      BY <2>2, <3>1 DEF FoldIsThere
  <2>4. QED
    BY <2>1, <2>3 DEF IsResult, IsCurve
<1> HIDE DEF size
<1>4. EquityGoesOn(EquityCurve(CombinedReturns(ev.results), Capital), ev.results, size)
  BY <1>1, <1>2, <1>3, CurveGoesOn
<1>5. QED
  BY <1>1, <1>4 DEF size

\* No test row precedes, overlaps or repeats, and each gives one return of the combined equity,
\* measured from the fold's own start (combine_returns and equity_curve of walk_forward_evaluate).
THEOREM HonestFolds == Spec => []FoldsAreHonest
<1>1. ResearchInvariant /\ RowsAreTestedOnce => FoldsAreHonest
  <2> SUFFICES ASSUME ResearchInvariant, RowsAreTestedOnce, NEW e \in Evaluations, eval[e].stage = "done"
               PROVE  EquityGoesOn(eval[e].summary.combined_oos_equity, eval[e].results, eval[e].job.test)
    BY Zenon DEF FoldsAreHonest, Begun
  <2>1. IsEvaluation(eval[e])
    BY DEF ResearchInvariant
  <2>2. QED
    BY <2>1, SummaryGoesOn
<1>2. QED
  BY <1>1, ResearchIsConsistent, TestedRows, PTL
================================================================================
