------------------------------ MODULE NumberFacts ------------------------------
(***************************************************************************)
(* Facts about numbers for use in the proofs.                              *)
(*                                                                         *)
(* The first part is about the sums of the community modules,              *)
(* SumFunctionOnSet and FoldLeft of an addition.  Both are recursive       *)
(* functions on the subsets of a finite set, which take the elements in    *)
(* some order; the lemmas say that the order does not matter, and what     *)
(* adding, removing or changing an element does.  Induction is by minimal  *)
(* counterexample: the subsets of a finite set are well founded, so that a *)
(* set of subsets that is not empty has a minimal member (SmallestSubset). *)
(*                                                                         *)
(* The second part is about Fractions: division and the greatest common    *)
(* divisor, the operations on ratios, and fractions of one denominator,    *)
(* which are calculated with as their integer numerators are.              *)
(*                                                                         *)
(* At the end come ranks, the numbers of who is ahead of whom in a total   *)
(* order, and the existence of what a recursive function on an interval    *)
(* defines.                                                                *)
(***************************************************************************)
EXTENDS Fractions, Sequences, FiniteSetTheorems, TLAPS

Fn == INSTANCE Functions

\* The sum of f over S, as the models write it.
SumOver(f, S) == Fn!SumFunctionOnSet(f, S)

\* g is the sum of f on the subsets of S, taking the element c[s] of s first.
Adds(f, c, S, g) ==
  \A s \in SUBSET S : g[s] = IF s = {} THEN 0 ELSE f[c[s]] + g[s \ {c[s]}]

\* c takes an element of every set it is given.
Picks(c, S) == \A s \in SUBSET S : s # {} => c[s] \in s

\* Minimal counterexamples, for induction on finite sets.
LEMMA SmallestSubset ==
  ASSUME NEW S, IsFiniteSet(S), NEW B, B \subseteq SUBSET S, B # {}
  PROVE  \E T \in B : \A U \in B : ~ (U \subseteq T /\ U # T)
<1>1. IsWellFoundedOn(StrictSubsetOrdering(S), FiniteSubsetsOf(S))
  BY FS_StrictSubsetOrderingWellFounded
<1>2. FiniteSubsetsOf(S) = SUBSET S
  BY FS_FiniteSubsetsOfFinite
<1>3. \E x \in B : \A y \in B : ~ (<<y, x>> \in StrictSubsetOrdering(S))
  BY <1>1, <1>2, WFMin, Zenon
<1>4. QED
  BY <1>3 DEF StrictSubsetOrdering

\* Two sums that take the elements in the same order agree.
LEMMA AddsOneWay ==
  ASSUME NEW S, IsFiniteSet(S), NEW f, NEW c, Picks(c, S),
         NEW g, Adds(f, c, S, g), NEW h, Adds(f, c, S, h)
  PROVE  \A s \in SUBSET S : g[s] = h[s]
<1> DEFINE B == {s \in SUBSET S : g[s] # h[s]}
<1>1. SUFFICES ASSUME B # {} PROVE FALSE
  OBVIOUS
<1>2. PICK s \in B : \A t \in B : ~ (t \subseteq s /\ t # s)
  <2> HIDE DEF B
  <2>1. B \subseteq SUBSET S
    BY DEF B
  <2>2. QED
    BY <1>1, <2>1, SmallestSubset
<1>3. CASE s = {}
  BY <1>2, <1>3 DEF Adds
<1>4. CASE s # {}
  <2>1. c[s] \in s
    BY <1>2, <1>4 DEF Picks
  <2>2. s \ {c[s]} \in SUBSET S /\ s \ {c[s]} \notin B
    BY <1>2, <2>1
  <2>3. g[s \ {c[s]}] = h[s \ {c[s]}]
    BY <2>2
  <2>4. QED
    BY <1>2, <1>4, <2>3 DEF Adds
<1>5. QED
  BY <1>3, <1>4

\* There is such a sum.
LEMMA AddsExists ==
  ASSUME NEW S, IsFiniteSet(S), NEW f, NEW c, Picks(c, S)
  PROVE  \E g : Adds(f, c, S, g)
<1> DEFINE B == {T \in SUBSET S : ~ \E g : Adds(f, c, T, g)}
<1>1. ASSUME B # {} PROVE FALSE
  <2>1. PICK T \in B : \A U \in B : ~ (U \subseteq T /\ U # T)
    <3> HIDE DEF B
    <3>1. B \subseteq SUBSET S
      BY DEF B
    <3>2. QED
      BY <1>1, <3>1, SmallestSubset
  <2> DEFINE sumOn(s) == CHOOSE g : Adds(f, c, s, g)
             w == [s \in SUBSET T |-> IF s = {} THEN 0 ELSE
                     IF s = T THEN f[c[T]] + sumOn(T \ {c[T]})[T \ {c[T]}] ELSE sumOn(s)[s]]
  <2>2. \A s \in SUBSET T : s # T => Adds(f, c, s, sumOn(s))
    <3> SUFFICES ASSUME NEW s \in SUBSET T, s # T PROVE Adds(f, c, s, sumOn(s))
      OBVIOUS
    <3>1. \E g : Adds(f, c, s, g)
      BY <2>1
    <3>2. QED
      BY <3>1, Zenon
  <2> HIDE DEF sumOn
  <2>3. ASSUME NEW s \in SUBSET T, NEW t \in SUBSET s, s # T
        PROVE  sumOn(s)[t] = sumOn(t)[t]
    <3>1. Adds(f, c, t, sumOn(s))
      BY <2>2, <2>3 DEF Adds
    <3>2. Adds(f, c, t, sumOn(t)) /\ Picks(c, t) /\ IsFiniteSet(t)
      BY <2>2, <2>3, FS_Subset DEF Picks
    <3>3. QED
      BY <3>1, <3>2, AddsOneWay
  <2>4. \A s \in SUBSET T : s # T => w[s] = sumOn(s)[s]
    BY <2>2 DEF Adds
  <2>5. Adds(f, c, T, w)
    <3> SUFFICES ASSUME NEW s \in SUBSET T
                 PROVE  w[s] = IF s = {} THEN 0 ELSE f[c[s]] + w[s \ {c[s]}]
      BY DEF Adds
    <3>1. CASE s = {}
      BY <3>1
    <3>2. CASE s # {}
      <4>1. c[s] \in s /\ s \ {c[s]} \in SUBSET T /\ s \ {c[s]} # T /\ s \ {c[s]} \in SUBSET s
        BY <2>1, <3>2 DEF Picks
      <4>2. w[s \ {c[s]}] = sumOn(s \ {c[s]})[s \ {c[s]}]
        BY <2>4, <4>1
      <4>3. CASE s = T
        BY <3>2, <4>2, <4>3
      <4>4. CASE s # T
        <5>1. w[s] = sumOn(s)[s]
          BY <2>4, <4>4
        <5>2. sumOn(s)[s] = f[c[s]] + sumOn(s)[s \ {c[s]}]
          BY <2>2, <3>2, <4>4 DEF Adds
        <5>3. sumOn(s)[s \ {c[s]}] = sumOn(s \ {c[s]})[s \ {c[s]}]
          BY <2>3, <4>1, <4>4
        <5>4. QED
          BY <3>2, <4>2, <5>1, <5>2, <5>3
      <4>5. QED
        BY <4>3, <4>4
    <3>3. QED
      BY <3>1, <3>2
  <2>6. QED
    BY <2>1, <2>5
<1>2. QED
  BY <1>1

\* The sum of integers is an integer.
LEMMA AddsType ==
  ASSUME NEW S, IsFiniteSet(S), NEW f, NEW c, Picks(c, S), \A x \in S : f[x] \in Int,
         NEW g, Adds(f, c, S, g)
  PROVE  \A s \in SUBSET S : g[s] \in Int
<1> DEFINE B == {s \in SUBSET S : g[s] \notin Int}
<1>1. SUFFICES ASSUME B # {} PROVE FALSE
  OBVIOUS
<1>2. PICK s \in B : \A t \in B : ~ (t \subseteq s /\ t # s)
  <2> HIDE DEF B
  <2>1. B \subseteq SUBSET S
    BY DEF B
  <2>2. QED
    BY <1>1, <2>1, SmallestSubset
<1>3. CASE s = {}
  BY <1>2, <1>3 DEF Adds
<1>4. CASE s # {}
  <2>1. c[s] \in s /\ c[s] \in S
    BY <1>2, <1>4 DEF Picks
  <2>2. s \ {c[s]} \in SUBSET S /\ s \ {c[s]} \notin B
    BY <1>2, <2>1
  <2>3. g[s \ {c[s]}] \in Int /\ f[c[s]] \in Int
    BY <2>1, <2>2
  <2>4. QED
    BY <1>2, <1>4, <2>3 DEF Adds
<1>5. QED
  BY <1>3, <1>4

\* Any element may be taken first.
LEMMA AddsAnyFirst ==
  ASSUME NEW S, IsFiniteSet(S), NEW f, NEW c, Picks(c, S), \A x \in S : f[x] \in Int,
         NEW g, Adds(f, c, S, g)
  PROVE  \A s \in SUBSET S : \A x \in s : g[s] = f[x] + g[s \ {x}]
<1> DEFINE B == {s \in SUBSET S : \E x \in s : g[s] # f[x] + g[s \ {x}]}
<1>1. SUFFICES ASSUME B # {} PROVE FALSE
  OBVIOUS
<1>2. PICK s \in B : \A t \in B : ~ (t \subseteq s /\ t # s)
  <2> HIDE DEF B
  <2>1. B \subseteq SUBSET S
    BY DEF B
  <2>2. QED
    BY <1>1, <2>1, SmallestSubset
<1>3. PICK x \in s : g[s] # f[x] + g[s \ {x}]
  BY <1>2
<1> DEFINE y == c[s]
<1>4. s # {} /\ s \in SUBSET S /\ y \in s /\ g[s] = f[y] + g[s \ {y}]
  BY <1>2, <1>3 DEF Picks, Adds
<1> HIDE DEF y
<1>5. x # y
  BY <1>3, <1>4
<1>6. s \ {y} \in SUBSET S /\ s \ {x} \in SUBSET S /\ s \ {y} \notin B /\ s \ {x} \notin B
  BY <1>2, <1>3, <1>4
<1>7. (s \ {y}) \ {x} = (s \ {x}) \ {y}
  OBVIOUS
<1>8. g[s \ {y}] = f[x] + g[(s \ {y}) \ {x}]
  BY <1>3, <1>5, <1>6
<1>9. g[s \ {x}] = f[y] + g[(s \ {y}) \ {x}]
  BY <1>4, <1>5, <1>6, <1>7
<1>10. f[x] \in Int /\ f[y] \in Int /\ (s \ {y}) \ {x} \in SUBSET S
  BY <1>3, <1>4
<1>11. g[(s \ {y}) \ {x}] \in Int
  BY <1>10, AddsType
<1>12. QED
  BY <1>3, <1>4, <1>8, <1>9, <1>10, <1>11

\* The sum does not depend on the order.
LEMMA AddsAnyOrder ==
  ASSUME NEW S, IsFiniteSet(S), NEW f, \A x \in S : f[x] \in Int,
         NEW c, Picks(c, S), NEW g, Adds(f, c, S, g),
         NEW d, Picks(d, S), NEW h, Adds(f, d, S, h)
  PROVE  g[S] = h[S]
<1> DEFINE B == {s \in SUBSET S : g[s] # h[s]}
<1>1. SUFFICES ASSUME B # {} PROVE FALSE
  BY S \in SUBSET S
<1>2. PICK s \in B : \A t \in B : ~ (t \subseteq s /\ t # s)
  <2> HIDE DEF B
  <2>1. B \subseteq SUBSET S
    BY DEF B
  <2>2. QED
    BY <1>1, <2>1, SmallestSubset
<1>3. CASE s = {}
  BY <1>2, <1>3 DEF Adds
<1>4. CASE s # {}
  <2>1. PICK x : x \in s
    BY <1>4
  <2>2. s \in SUBSET S /\ g[s] = f[x] + g[s \ {x}] /\ h[s] = f[x] + h[s \ {x}]
    BY <1>2, <2>1, AddsAnyFirst
  <2>3. s \ {x} \in SUBSET S /\ s \ {x} \notin B
    BY <1>2, <2>1
  <2>4. QED
    BY <1>2, <2>2, <2>3
<1>5. QED
  BY <1>3, <1>4
-----------------------------------------------------------------------------
(***************************************************************************)
(* SumFunctionOnSet.                                                       *)
(***************************************************************************)
\* The sum over a set takes its elements one by one, in some order.
LEMMA SumAdds ==
  ASSUME NEW S, IsFiniteSet(S), NEW f
  PROVE  \E c, g : Picks(c, S) /\ Adds(f, c, S, g) /\ SumOver(f, S) = g[S]
<1> DEFINE Iter(g) == g = [s \in SUBSET S |->
                             IF s = {} THEN 0
                             ELSE f[CHOOSE x \in s : TRUE] + g[s \ {CHOOSE x \in s : TRUE}]]
<1>0. PICK c : c = [s \in SUBSET S |-> CHOOSE x \in s : TRUE]
  OBVIOUS
<1>1. Picks(c, S)
  BY <1>0 DEF Picks
<1>2. \E g : Iter(g)
  <2>1. \A s \in SUBSET S : c[s] = CHOOSE x \in s : TRUE
    BY <1>0
  <2>2. PICK h : Adds(f, c, S, h)
    BY <1>1, AddsExists
  <2> DEFINE g == [s \in SUBSET S |-> h[s]]
  <2>3. \A s \in SUBSET S : g[s] = IF s = {} THEN 0
          ELSE f[CHOOSE x \in s : TRUE] + g[s \ {CHOOSE x \in s : TRUE}]
    BY <2>1, <2>2 DEF Adds
  <2>4. g = [s \in SUBSET S |-> g[s]]
    OBVIOUS
  <2> HIDE DEF g
  <2>5. Iter(g)
    BY <2>3, <2>4, Zenon
  <2>6. QED
    BY <2>5, Zenon
<1> DEFINE g == CHOOSE g : Iter(g)
<1>3. Iter(g)
  BY <1>2, Zenon
<1>4. SumOver(f, S) = g[S]
  BY DEF SumOver, Fn!SumFunctionOnSet, Fn!FoldFunctionOnSet, Fn!MapThenFoldSet
<1>5. Adds(f, c, S, g)
  <2> HIDE DEF g
  <2>1. QED
    BY <1>0, <1>3 DEF Adds
<1>6. QED
  BY <1>1, <1>4, <1>5

\* Of a set that may be written in any way: the sum is that of every order.
LEMMA SumIsAny ==
  ASSUME NEW S, IsFiniteSet(S), NEW f, \A x \in S : f[x] \in Int,
         NEW c, Picks(c, S), NEW g, Adds(f, c, S, g)
  PROVE  \A T \in SUBSET S : g[T] = SumOver(f, T) /\ SumOver(f, T) \in Int
<1> SUFFICES ASSUME NEW T \in SUBSET S
             PROVE  g[T] = SumOver(f, T) /\ SumOver(f, T) \in Int
  OBVIOUS
<1>1. IsFiniteSet(T) /\ Picks(c, T) /\ Adds(f, c, T, g) /\ \A x \in T : f[x] \in Int
  BY FS_Subset DEF Picks, Adds
<1>2. PICK d, h : Picks(d, T) /\ Adds(f, d, T, h) /\ SumOver(f, T) = h[T]
  BY <1>1, SumAdds
<1>3. g[T] = h[T]
  BY <1>1, <1>2, AddsAnyOrder
<1>4. h[T] \in Int
  BY <1>1, <1>2, AddsType
<1>5. QED
  BY <1>2, <1>3, <1>4

\* Nothing sums to 0; an element can be taken out of a sum, or added to it.
LEMMA SumTakes ==
  ASSUME NEW S, IsFiniteSet(S), NEW f, \A x \in S : f[x] \in Int
  PROVE  /\ SumOver(f, S) \in Int
         /\ S = {} => SumOver(f, S) = 0
         /\ \A x \in S : /\ SumOver(f, S \ {x}) \in Int
                         /\ SumOver(f, S) = f[x] + SumOver(f, S \ {x})
<1>1. PICK c, g : Picks(c, S) /\ Adds(f, c, S, g)
  BY SumAdds
<1>2. \A T \in SUBSET S : g[T] = SumOver(f, T) /\ SumOver(f, T) \in Int
  BY <1>1, SumIsAny
<1>3. \A x \in S : g[S] = f[x] + g[S \ {x}]
  BY <1>1, AddsAnyFirst
<1>4. S = {} => g[S] = 0
  BY <1>1 DEF Adds
<1>5. QED
  BY <1>2, <1>3, <1>4

\* One more element adds what it is worth.
LEMMA SumAddsOne ==
  ASSUME NEW S, IsFiniteSet(S), NEW x, x \notin S, NEW f, \A y \in S \cup {x} : f[y] \in Int
  PROVE  SumOver(f, S \cup {x}) = SumOver(f, S) + f[x]
<1> DEFINE T == S \cup {x}
<1>1. IsFiniteSet(T) /\ T \ {x} = S /\ x \in T /\ \A y \in T : f[y] \in Int
  BY FS_AddElement
<1> HIDE DEF T
<1>2. SumOver(f, T) = f[x] + SumOver(f, S) /\ SumOver(f, S) \in Int
  BY <1>1, SumTakes
<1>3. SumOver(f, T) = SumOver(f, S) + f[x]
  BY <1>1, <1>2
<1>4. QED
  BY <1>3 DEF T

\* Only the values on the set matter.
LEMMA SumSame ==
  ASSUME NEW S, IsFiniteSet(S), NEW f, NEW h, \A x \in S : f[x] \in Int /\ h[x] = f[x]
  PROVE  SumOver(h, S) = SumOver(f, S)
<1>1. PICK c, g : Picks(c, S) /\ Adds(f, c, S, g)
  BY SumAdds
<1>2. Adds(h, c, S, g)
  BY <1>1 DEF Adds, Picks
<1>3. S \in SUBSET S /\ \A x \in S : f[x] \in Int
  OBVIOUS
<1>4. \A x \in S : h[x] \in Int
  OBVIOUS
<1>5. g[S] = SumOver(f, S)
  BY <1>1, <1>3, SumIsAny
<1>6. g[S] = SumOver(h, S)
  BY <1>1, <1>2, <1>3, <1>4, SumIsAny
<1>7. QED
  BY <1>5, <1>6

\* Changing one value changes the sum by as much.
LEMMA SumChangesOne ==
  ASSUME NEW S, IsFiniteSet(S), NEW f, NEW h, NEW x \in S,
         \A y \in S : f[y] \in Int /\ h[y] \in Int,
         \A y \in S \ {x} : h[y] = f[y]
  PROVE  SumOver(h, S) = SumOver(f, S) + (h[x] - f[x])
<1>1. IsFiniteSet(S \ {x})
  BY FS_RemoveElement
<1>2. SumOver(h, S \ {x}) = SumOver(f, S \ {x})
  BY <1>1, SumSame
<1>3. /\ SumOver(f, S) = f[x] + SumOver(f, S \ {x}) /\ SumOver(f, S \ {x}) \in Int
  BY SumTakes
<1>4. SumOver(h, S) = h[x] + SumOver(h, S \ {x})
  BY SumTakes
<1>5. QED
  BY <1>2, <1>3, <1>4

\* The sum of what is added value by value.
LEMMA SumOfSums ==
  ASSUME NEW S, IsFiniteSet(S), NEW f, NEW g, NEW h,
         \A x \in S : f[x] \in Int /\ g[x] \in Int /\ h[x] = f[x] + g[x]
  PROVE  SumOver(h, S) = SumOver(f, S) + SumOver(g, S)
<1>1. PICK c, a : Picks(c, S) /\ Adds(f, c, S, a)
  BY SumAdds
<1>2. PICK b : Adds(g, c, S, b)
  BY <1>1, AddsExists
<1> DEFINE w == [s \in SUBSET S |-> a[s] + b[s]]
<1>3. \A s \in SUBSET S : a[s] \in Int /\ b[s] \in Int
  BY <1>1, <1>2, AddsType
<1>4. Adds(h, c, S, w)
  <2> SUFFICES ASSUME NEW s \in SUBSET S
               PROVE  w[s] = IF s = {} THEN 0 ELSE h[c[s]] + w[s \ {c[s]}]
    BY DEF Adds
  <2>1. CASE s = {}
    BY <1>1, <1>2, <2>1 DEF Adds
  <2>2. CASE s # {}
    <3>1. c[s] \in S /\ s \ {c[s]} \in SUBSET S
      BY <1>1, <2>2 DEF Picks
    <3>2. a[s] = f[c[s]] + a[s \ {c[s]}] /\ b[s] = g[c[s]] + b[s \ {c[s]}]
      BY <1>1, <1>2, <2>2 DEF Adds
    <3>3. w[s] = a[s] + b[s] /\ w[s \ {c[s]}] = a[s \ {c[s]}] + b[s \ {c[s]}]
      BY <3>1
    <3>4. /\ f[c[s]] \in Int /\ g[c[s]] \in Int /\ h[c[s]] = f[c[s]] + g[c[s]]
          /\ a[s \ {c[s]}] \in Int /\ b[s \ {c[s]}] \in Int
      BY <1>3, <3>1
    <3> HIDE DEF w
    <3>5. QED
      BY <2>2, <3>2, <3>3, <3>4
  <2>3. QED
    BY <2>1, <2>2
<1>5. a[S] = SumOver(f, S) /\ b[S] = SumOver(g, S)
  BY <1>1, <1>2, SumIsAny
<1>6. w[S] = SumOver(h, S)
  <2> HIDE DEF w
  <2>1. \A x \in S : h[x] \in Int
    OBVIOUS
  <2>2. QED
    BY <1>1, <1>4, <2>1, SumIsAny
<1>7. QED
  BY <1>5, <1>6

\* Sums of naturals are natural, and grow with the set.
LEMMA SumOfNaturals ==
  ASSUME NEW S, IsFiniteSet(S), NEW f, \A x \in S : f[x] \in Nat
  PROVE  SumOver(f, S) \in Nat /\ \A x \in S : f[x] <= SumOver(f, S)
<1> DEFINE B == {T \in SUBSET S : SumOver(f, T) \notin Nat}
<1>1. \A T \in SUBSET S : IsFiniteSet(T) /\ \A x \in T : f[x] \in Int
  BY FS_Subset
<1>2. ASSUME B # {} PROVE FALSE
  <2>1. PICK T \in B : \A U \in B : ~ (U \subseteq T /\ U # T)
    <3> HIDE DEF B
    <3>1. B \subseteq SUBSET S
      BY DEF B
    <3>2. QED
      BY <1>2, <3>1, SmallestSubset
  <2>2. T # {}
    <3>1. IsFiniteSet(T) /\ \A x \in T : f[x] \in Int
      BY <1>1
    <3>2. T = {} => SumOver(f, T) = 0
      BY <3>1, SumTakes
    <3>3. QED
      BY <3>2
  <2>3. PICK x : x \in T
    BY <2>2
  <2>4. SumOver(f, T) = f[x] + SumOver(f, T \ {x})
    BY <1>1, <2>3, SumTakes
  <2>5. SumOver(f, T \ {x}) \in Nat
    BY <2>1, <2>3
  <2>6. QED
    BY <2>1, <2>3, <2>4, <2>5
<1>3. \A T \in SUBSET S : SumOver(f, T) \in Nat
  BY <1>2
<1>4. \A x \in S : SumOver(f, S) = f[x] + SumOver(f, S \ {x})
  BY <1>1, SumTakes
<1>5. ASSUME NEW x \in S PROVE f[x] <= SumOver(f, S)
  <2>1. SumOver(f, S \ {x}) \in Nat /\ f[x] \in Nat
    BY <1>3
  <2>2. QED
    BY <1>4, <2>1
<1>6. QED
  BY <1>3, <1>5

\* The sum over two sets that share nothing.
LEMMA SumOfTwo ==
  ASSUME NEW S, IsFiniteSet(S), NEW R, IsFiniteSet(R), S \cap R = {},
         NEW f, \A x \in S \cup R : f[x] \in Int
  PROVE  SumOver(f, S \cup R) = SumOver(f, S) + SumOver(f, R)
<1> DEFINE B == {T \in SUBSET R : SumOver(f, S \cup T) # SumOver(f, S) + SumOver(f, T)}
<1>1. \A T \in SUBSET R : IsFiniteSet(T) /\ \A x \in T : f[x] \in Int
  BY FS_Subset
<1>2. ASSUME B # {} PROVE FALSE
  <2>1. PICK T \in B : \A U \in B : ~ (U \subseteq T /\ U # T)
    <3> HIDE DEF B
    <3>1. B \subseteq SUBSET R
      BY DEF B
    <3>2. QED
      BY <1>2, <3>1, SmallestSubset
  <2>2. IsFiniteSet(T) /\ \A x \in T : f[x] \in Int
    BY <1>1
  <2>3. SumOver(f, S) \in Int
    BY SumTakes
  <2>4. T \in SUBSET R /\ SumOver(f, S \cup T) # SumOver(f, S) + SumOver(f, T)
    OBVIOUS
  <2>5. \A x \in T : SumOver(f, S \cup (T \ {x})) = SumOver(f, S) + SumOver(f, T \ {x})
    BY <2>1
  <2> HIDE DEF B
  <2>6. T # {}
    <3>1. T = {} => SumOver(f, T) = 0
      BY <2>2, SumTakes
    <3>2. T = {} => S \cup T = S
      OBVIOUS
    <3>3. ASSUME T = {} PROVE FALSE
      <4>1. SumOver(f, S \cup T) = SumOver(f, S)
        BY <3>2, <3>3
      <4>2. SumOver(f, S) + SumOver(f, T) = SumOver(f, S)
        BY <2>3, <3>1, <3>3
      <4>3. QED
        BY <2>4, <4>1, <4>2
    <3>4. QED
      BY <3>3
  <2>7. PICK x : x \in T
    BY <2>6
  <2>8. SumOver(f, T) = f[x] + SumOver(f, T \ {x}) /\ SumOver(f, T \ {x}) \in Int
    BY <2>2, <2>7, SumTakes
  <2>9. SumOver(f, S \cup (T \ {x})) = SumOver(f, S) + SumOver(f, T \ {x})
    BY <2>7, <2>5
  <2>10. SumOver(f, (S \cup (T \ {x})) \cup {x}) = SumOver(f, S \cup (T \ {x})) + f[x]
    <3> DEFINE V == S \cup (T \ {x})
    <3>1. IsFiniteSet(T \ {x})
      BY <2>2, FS_RemoveElement
    <3>2. IsFiniteSet(V)
      BY <3>1, FS_Union
    <3>3. x \notin V /\ \A y \in V \cup {x} : f[y] \in Int
      BY <2>7, <2>4
    <3> HIDE DEF V
    <3>4. SumOver(f, V \cup {x}) = SumOver(f, V) + f[x]
      BY <3>2, <3>3, SumAddsOne
    <3>5. QED
      BY <3>4 DEF V
  <2>11. (S \cup (T \ {x})) \cup {x} = S \cup T
    BY <2>7
  <2>12. f[x] \in Int
    BY <2>2, <2>7
  <2>13. QED
    <3>1. SumOver(f, S \cup T) = (SumOver(f, S) + SumOver(f, T \ {x})) + f[x]
      BY <2>9, <2>10, <2>11
    <3>2. SumOver(f, S) + SumOver(f, T) = SumOver(f, S) + (f[x] + SumOver(f, T \ {x}))
      BY <2>8
    <3>3. \A a, b, c \in Int : (a + b) + c = a + (c + b)
      OBVIOUS
    <3>4. (SumOver(f, S) + SumOver(f, T \ {x})) + f[x]
            = SumOver(f, S) + (f[x] + SumOver(f, T \ {x}))
      BY <2>3, <2>8, <2>12, <3>3
    <3>5. QED
      BY <2>4, <3>1, <3>2, <3>4
<1>3. QED
  BY <1>2
-----------------------------------------------------------------------------
(***************************************************************************)
(* FoldLeft of an addition: the positions of a sequence are taken from the *)
(* last one, which is their greatest, to the first, and each value is      *)
(* added behind the sum of those before it.                                *)
(***************************************************************************)
\* g is the sum of f on the subsets of S, taking the element c[s] of s last.
AddsBehind(f, c, S, g) ==
  \A s \in SUBSET S : g[s] = IF s = {} THEN 0 ELSE g[s \ {c[s]}] + f[c[s]]

\* Every finite set of integers has a greatest element.
LEMMA GreatestExists ==
  ASSUME NEW S, IsFiniteSet(S), \A x \in S : x \in Int, S # {}
  PROVE  \E x \in S : \A y \in S : x >= y
<1> DEFINE B == {T \in SUBSET S : T # {} /\ ~ \E x \in T : \A y \in T : x >= y}
<1>1. SUFFICES ASSUME B # {} PROVE FALSE
  BY S \in SUBSET S
<1>2. PICK T \in B : \A U \in B : ~ (U \subseteq T /\ U # T)
  <2> HIDE DEF B
  <2>1. B \subseteq SUBSET S
    BY DEF B
  <2>2. QED
    BY <1>1, <2>1, SmallestSubset
<1>0. T # {} /\ T \subseteq S /\ T \subseteq Int /\ ~ \E x \in T : \A y \in T : x >= y
  <2>1. T \in B
    BY <1>2
  <2>2. T \subseteq S /\ T # {} /\ ~ \E x \in T : \A y \in T : x >= y
    BY <2>1, Zenon
  <2>3. QED
    BY <2>2
<1>3. PICK x \in T : x \in Int
  BY <1>0
<1>4. CASE T \ {x} = {}
  BY <1>0, <1>3, <1>4
<1>5. CASE T \ {x} # {}
  <2>1. PICK m \in T \ {x} : \A y \in T \ {x} : m >= y
    <3>1. T \ {x} \in SUBSET S /\ T \ {x} \notin B
      BY <1>0, <1>2, <1>3
    <3>2. QED
      BY <1>5, <3>1
  <2>2. m \in Int /\ m \in T
    BY <1>0, <2>1
  <2>3. CASE x >= m
    <3>1. \A y \in T : x >= y
      BY <1>0, <1>3, <2>1, <2>2, <2>3
    <3>2. QED
      BY <1>0, <1>3, <3>1
  <2>4. CASE ~ (x >= m)
    <3>1. \A y \in T : m >= y
      BY <1>0, <1>3, <2>1, <2>2, <2>4
    <3>2. QED
      BY <1>0, <2>2, <3>1
  <2>5. QED
    BY <2>3, <2>4
<1>6. QED
  BY <1>4, <1>5

\* To take the greatest element is to take an element.
LEMMA LastIsPicked ==
  ASSUME NEW n \in Nat, NEW c, \A s \in SUBSET (1 .. n) : c[s] = CHOOSE x \in s : \A y \in s : x >= y
  PROVE  /\ IsFiniteSet(1 .. n) /\ Picks(c, 1 .. n)
<1>1. IsFiniteSet(1 .. n)
  BY FS_Interval
<1>2. ASSUME NEW s \in SUBSET (1 .. n), s # {} PROVE c[s] \in s
  <2>1. IsFiniteSet(s)
    BY <1>1, FS_Subset
  <2>2. \E x \in s : \A y \in s : x >= y
    BY <1>2, <2>1, s \subseteq Int, GreatestExists
  <2>3. QED
    BY <2>2, Zenon
<1>3. QED
  BY <1>1, <1>2 DEF Picks

\* To add behind or in front is the same.
LEMMA BehindIsInFront ==
  ASSUME NEW S, IsFiniteSet(S), NEW f, NEW c, Picks(c, S), \A x \in S : f[x] \in Int, NEW g
  PROVE  AddsBehind(f, c, S, g) <=> Adds(f, c, S, g)
<1>1. ASSUME AddsBehind(f, c, S, g) PROVE \A s \in SUBSET S : g[s] \in Int
  <2> DEFINE B == {s \in SUBSET S : g[s] \notin Int}
  <2>1. SUFFICES ASSUME B # {} PROVE FALSE
    OBVIOUS
  <2>2. PICK s \in B : \A t \in B : ~ (t \subseteq s /\ t # s)
    <3> HIDE DEF B
    <3>1. B \subseteq SUBSET S
      BY DEF B
    <3>2. QED
      BY <2>1, <3>1, SmallestSubset
  <2>3. CASE s = {}
    BY <1>1, <2>2, <2>3 DEF AddsBehind
  <2>4. CASE s # {}
    <3>1. c[s] \in s /\ c[s] \in S
      BY <2>2, <2>4 DEF Picks
    <3>2. s \ {c[s]} \in SUBSET S /\ s \ {c[s]} \notin B
      BY <2>2, <3>1
    <3>3. g[s \ {c[s]}] \in Int /\ f[c[s]] \in Int
      BY <3>1, <3>2
    <3>4. QED
      BY <1>1, <2>2, <2>4, <3>3 DEF AddsBehind
  <2>5. QED
    BY <2>3, <2>4
<1>2. ASSUME Adds(f, c, S, g) PROVE \A s \in SUBSET S : g[s] \in Int
  BY <1>2, AddsType
<1>3. ASSUME \A s \in SUBSET S : g[s] \in Int, NEW s \in SUBSET S, s # {}
      PROVE  g[s \ {c[s]}] + f[c[s]] = f[c[s]] + g[s \ {c[s]}]
  <2>1. c[s] \in S /\ s \ {c[s]} \in SUBSET S
    BY <1>3 DEF Picks
  <2>2. g[s \ {c[s]}] \in Int /\ f[c[s]] \in Int
    BY <1>3, <2>1
  <2>3. QED
    BY <2>2
<1>4. QED
  BY <1>1, <1>2, <1>3 DEF Adds, AddsBehind

\* Every nonempty set of naturals has a least element.
LEMMA LeastExists ==
  ASSUME NEW B, B \subseteq Nat, B # {}
  PROVE  \E m \in B : \A k \in B : m <= k
<1>1. PICK b \in B : b \in Nat
  OBVIOUS
<1> DEFINE Below == {k \in 0 .. b : \A j \in B : k <= j}
<1>2. IsFiniteSet(Below) /\ Below \subseteq Int /\ 0 \in Below
  <2>1. IsFiniteSet(0 .. b)
    BY <1>1, FS_Interval
  <2>2. Below \in SUBSET (0 .. b) /\ 0 \in Below /\ Below \subseteq Int
    BY <1>1
  <2> HIDE DEF Below
  <2>3. QED
    BY <2>1, <2>2, FS_Subset
<1>3. PICK m \in Below : \A k \in Below : m >= k
  <2> HIDE DEF Below
  <2>1. QED
    BY <1>2, GreatestExists
<1>4. m \in Nat /\ m + 1 \notin Below
  BY <1>1, <1>3
<1>5. PICK j \in B : ~ (m + 1 <= j)
  <2>1. CASE m = b
    BY <1>1, <1>4, <2>1
  <2>2. CASE m # b
    <3>1. m + 1 \in 0 .. b
      BY <1>1, <1>3, <2>2
    <3>2. QED
      BY <1>4, <3>1
  <2>3. QED
    BY <2>1, <2>2
<1>6. j = m
  BY <1>3, <1>4, <1>5
<1>7. QED
  BY <1>3, <1>6

\* Partial sums add up to the sum.
LEMMA PartialSums ==
  ASSUME NEW n \in Nat, NEW f, \A k \in 1 .. n : f[k] \in Int,
         NEW part, part[0] = 0, \A k \in 1 .. n : part[k] = part[k - 1] + f[k]
  PROVE  part[n] = SumOver(f, 1 .. n)
<1> DEFINE B == {k \in 0 .. n : part[k] # SumOver(f, 1 .. k)}
<1>1. SUFFICES ASSUME B # {} PROVE FALSE
  OBVIOUS
<1>2. PICK k \in B : \A j \in B : k <= j
  <2> HIDE DEF B
  <2>1. B \subseteq Nat
    BY DEF B
  <2>2. QED
    BY <1>1, <2>1, LeastExists
<1>3. k \in 0 .. n /\ part[k] # SumOver(f, 1 .. k)
  BY <1>2
<1>4. IsFiniteSet(1 .. k) /\ \A j \in 1 .. k : f[j] \in Int
  BY <1>3, FS_Interval
<1>5. CASE k = 0
  <2>1. 1 .. k = {}
    BY <1>5
  <2>2. SumOver(f, 1 .. k) = 0
    BY <1>4, <2>1, SumTakes
  <2>3. QED
    BY <1>3, <1>5, <2>2
<1>6. CASE k # 0
  <2>1. k \in 1 .. k /\ (1 .. k) \ {k} = 1 .. (k - 1) /\ k \in 1 .. n
    BY <1>3, <1>6
  <2>2. SumOver(f, 1 .. k) = f[k] + SumOver(f, 1 .. (k - 1)) /\ SumOver(f, 1 .. (k - 1)) \in Int
    BY <1>4, <2>1, SumTakes
  <2>3. part[k - 1] = SumOver(f, 1 .. (k - 1))
    <3>1. k - 1 \notin B
      BY <1>2, <1>3
    <3>2. k - 1 \in 0 .. n
      BY <2>1
    <3>3. QED
      BY <3>1, <3>2
  <2>4. part[k] = part[k - 1] + f[k] /\ f[k] \in Int
    BY <2>1
  <2>5. QED
    BY <1>3, <2>2, <2>3, <2>4
<1>7. QED
  BY <1>5, <1>6
-----------------------------------------------------------------------------

\* Division with remainder,
LEMMA Division ==
  ASSUME NEW a \in Int, NEW b \in Nat \ {0}
  PROVE  /\ a \div b \in Int /\ a % b \in Nat /\ a % b < b
         /\ a = b * (a \div b) + (a % b)
         /\ a \in Nat => a \div b \in Nat
OBVIOUS

\* which is unique.
LEMMA DivisionIsUnique ==
  ASSUME NEW b \in Nat \ {0}, NEW q \in Int, NEW r \in Nat, r < b
  PROVE  (b * q + r) % b = r /\ (b * q + r) \div b = q
<1> DEFINE a == b * q + r
           p == a \div b
           s == a % b
<1>1. p \in Int /\ s \in Nat /\ s < b /\ a = b * p + s
  BY Division
<1> HIDE DEF p, s
<1>2. b * (q - p) = s - r
  BY <1>1
<1>3. ~ (q - p >= 1)
  <2>1. q - p >= 1 => b * (q - p) >= b * 1
    BY <1>1
  <2>2. QED
    BY <2>1, <1>1, <1>2
<1>4. ~ (q - p <= -1)
  <2>1. q - p <= -1 => b * (q - p) <= b * (-1)
    BY <1>1
  <2>2. QED
    BY <2>1, <1>1, <1>2
<1>5. q = p
  BY <1>1, <1>3, <1>4
<1>6. s = r
  BY <1>1, <1>5
<1>7. QED
  BY <1>5, <1>6 DEF p, s
-----------------------------------------------------------------------------
\* g computes greatest common divisors as long as the second number is at most n.
Euclid(g, n) ==
  \A a \in Nat, b \in 0 .. n : g[<<a, b>>] = IF b = 0 THEN a ELSE g[<<b, a % b>>]

\* Euclid determines the greatest common divisors up to n,
LEMMA EuclidIsUnique ==
  ASSUME NEW n \in Nat, NEW g, Euclid(g, n), NEW h, Euclid(h, n)
  PROVE  \A a \in Nat, b \in 0 .. n : g[<<a, b>>] = h[<<a, b>>]
<1> DEFINE B == {b \in 0 .. n : \E a \in Nat : g[<<a, b>>] # h[<<a, b>>]}
<1>1. SUFFICES ASSUME B # {} PROVE FALSE
  OBVIOUS
<1>2. PICK b \in B : \A y \in B : b <= y
  <2> HIDE DEF B
  <2>1. B \subseteq Nat
    BY DEF B
  <2>2. QED
    BY <1>1, <2>1, LeastExists
<1>3. PICK a \in Nat : g[<<a, b>>] # h[<<a, b>>]
  BY <1>2
<1>4. b # 0
  BY <1>3 DEF Euclid
<1>5. a % b \in 0 .. n /\ a % b < b /\ b \in Nat
  BY <1>4, Division
<1>6. a % b \notin B
  BY <1>2, <1>5
<1>7. g[<<b, a % b>>] = h[<<b, a % b>>]
  BY <1>5, <1>6
<1>8. QED
  BY <1>3, <1>4, <1>7 DEF Euclid

\* and can be solved.
LEMMA EuclidExists ==
  \A n \in Nat : \E g : Euclid(g, n)
<1> DEFINE B == {n \in Nat : ~ \E g : Euclid(g, n)}
<1>1. SUFFICES ASSUME B # {} PROVE FALSE
  OBVIOUS
<1>2. PICK n \in B : \A y \in B : n <= y
  <2> HIDE DEF B
  <2>1. B \subseteq Nat
    BY DEF B
  <2>2. QED
    BY <1>1, <2>1, LeastExists
<1>3. CASE n = 0
  <2> DEFINE g == [p \in Nat \X (0 .. 0) |-> p[1]]
  <2>1. \A a \in Nat, b \in 0 .. 0 : g[<<a, b>>] = a /\ b = 0
    OBVIOUS
  <2> HIDE DEF g
  <2>2. Euclid(g, n)
    BY <1>3, <2>1 DEF Euclid
  <2>3. QED
    BY <1>2, <2>2
<1>4. CASE n # 0
  <2>1. n - 1 \in Nat /\ n - 1 \notin B
    BY <1>2, <1>4
  <2>2. PICK g : Euclid(g, n - 1)
    BY <2>1
  <2> DEFINE h == [p \in Nat \X (0 .. n) |-> IF p[2] < n THEN g[p] ELSE g[<<n, p[1] % n>>]]
  <2>below. \A a \in Nat, b \in 0 .. n :
          h[<<a, b>>] = IF b < n THEN g[<<a, b>>] ELSE g[<<n, a % n>>]
    OBVIOUS
  <2> HIDE DEF h
  <2>3. ASSUME NEW a \in Nat, NEW b \in 0 .. n
        PROVE  h[<<a, b>>] = IF b = 0 THEN a ELSE h[<<b, a % b>>]
    <3>1. CASE b = 0
      <4>1. n \in Nat /\ b < n /\ 0 \in 0 .. n - 1
        BY <1>2, <1>4, <3>1
      <4>2. QED
        BY <2>2, <2>below, <3>1, <4>1 DEF Euclid
    <3>2. CASE b # 0
      <4>1. a % b \in 0 .. n - 1 /\ a % b \in 0 .. n /\ a % b < n /\ b \in Nat /\ n \in Nat
        BY <1>2, <3>2, Division
      <4>2. h[<<b, a % b>>] = g[<<b, a % b>>]
        BY <2>below, <4>1
      <4>3. h[<<a, b>>] = g[<<b, a % b>>]
        <5>1. CASE b = n
          BY <2>below, <4>1, <5>1
        <5>2. CASE b < n
          <6>1. b \in 0 .. n - 1
            BY <4>1, <5>2
          <6>2. QED
            BY <2>2, <2>below, <3>2, <5>2, <6>1 DEF Euclid
        <5>3. QED
          BY <4>1, <5>1, <5>2
      <4>4. QED
        BY <3>2, <4>2, <4>3
    <3>3. QED
      BY <3>1, <3>2
  <2>4. Euclid(h, n)
    BY <2>3 DEF Euclid
  <2>5. QED
    BY <1>2, <2>4
<1>5. QED
  BY <1>3, <1>4

\* So gcd is what its recursion says.
LEMMA GcdUnfolds ==
  \A a \in Nat, b \in Nat : gcd[<<a, b>>] = IF b = 0 THEN a ELSE gcd[<<b, a % b>>]
<1> DEFINE e(n) == CHOOSE g : Euclid(g, n)
           whole == [p \in Nat \X Nat |-> e(p[2])[p]]
<1>1. \A n \in Nat : Euclid(e(n), n)
  BY EuclidExists, Zenon
<1> HIDE DEF e
<1>6. \A a \in Nat, b \in Nat : whole[<<a, b>>] = e(b)[<<a, b>>]
  OBVIOUS
<1>7. whole = [p \in Nat \X Nat |-> whole[p]]
  OBVIOUS
<1> HIDE DEF whole
<1>2. ASSUME NEW a \in Nat, NEW b \in Nat
      PROVE  whole[<<a, b>>] = IF b = 0 THEN a ELSE whole[<<b, a % b>>]
  <2>1. CASE b = 0
    <3>1. Euclid(e(0), 0) /\ 0 \in 0 .. 0
      BY <1>1
    <3>2. e(0)[<<a, 0>>] = a
      BY <3>1 DEF Euclid
    <3>3. QED
      BY <1>6, <2>1, <3>2
  <2>2. CASE b # 0
    <3>1. a % b \in Nat /\ a % b < b
      BY <2>2, Division
    <3>2. e(b)[<<a, b>>] = e(b)[<<b, a % b>>]
      BY <1>1, <2>2 DEF Euclid
    <3>3. Euclid(e(b), a % b)
      <4>1. Euclid(e(b), b) /\ \A c \in 0 .. a % b : c \in 0 .. b
        BY <1>1, <3>1
      <4>2. QED
        BY <4>1 DEF Euclid
    <3>4. e(b)[<<b, a % b>>] = e(a % b)[<<b, a % b>>]
      BY <1>1, <3>1, <3>3, EuclidIsUnique
    <3>5. QED
      BY <1>6, <2>2, <3>1, <3>2, <3>4
  <2>3. QED
    BY <2>1, <2>2
<1>3. whole = [p \in Nat \X Nat |-> IF p[2] = 0 THEN p[1] ELSE whole[<<p[2], p[1] % p[2]>>]]
  <2>1. \A p \in Nat \X Nat : p = <<p[1], p[2]>> /\ p[1] \in Nat /\ p[2] \in Nat
    OBVIOUS
  <2>2. \A p \in Nat \X Nat :
          whole[p] = IF p[2] = 0 THEN p[1] ELSE whole[<<p[2], p[1] % p[2]>>]
    BY <1>2, <2>1
  <2>3. QED
    BY <1>7, <2>2
<1>4. \E g : g = [p \in Nat \X Nat |-> IF p[2] = 0 THEN p[1] ELSE g[<<p[2], p[1] % p[2]>>]]
  BY <1>3
<1>5. gcd = [p \in Nat \X Nat |-> IF p[2] = 0 THEN p[1] ELSE gcd[<<p[2], p[1] % p[2]>>]]
  BY <1>4, Zenon DEF gcd
<1>8. QED
  BY <1>5

\* The greatest common divisor divides both.
LEMMA GcdDivides ==
  \A b \in Nat : \A a \in Nat :
    /\ gcd[<<a, b>>] \in Nat
    /\ a > 0 \/ b > 0 => gcd[<<a, b>>] > 0
    /\ \E q \in Nat, r \in Nat : a = gcd[<<a, b>>] * q /\ b = gcd[<<a, b>>] * r
<1> DEFINE Fine(a, b) ==
      /\ gcd[<<a, b>>] \in Nat
      /\ a > 0 \/ b > 0 => gcd[<<a, b>>] > 0
      /\ \E q \in Nat, r \in Nat : a = gcd[<<a, b>>] * q /\ b = gcd[<<a, b>>] * r
    B == {b \in Nat : \E a \in Nat : ~Fine(a, b)}
<1>1. SUFFICES ASSUME B # {} PROVE FALSE
  OBVIOUS
<1>2. PICK b \in B : \A y \in B : b <= y
  <2> HIDE DEF B
  <2>1. B \subseteq Nat
    BY DEF B
  <2>2. QED
    BY <1>1, <2>1, LeastExists
<1>3. PICK a \in Nat : ~Fine(a, b)
  BY <1>2
<1>4. CASE b = 0
  <2>1. gcd[<<a, b>>] = a
    BY <1>4, GcdUnfolds
  <2>2. a = a * 1 /\ b = a * 0
    BY <1>4
  <2>3. QED
    BY <1>3, <1>4, <2>1, <2>2
<1>5. CASE b # 0
  <2>1. b \in Nat \ {0} /\ a % b \in Nat /\ a % b < b /\ a \div b \in Nat
    BY <1>2, <1>5, Division
  <2>2. gcd[<<a, b>>] = gcd[<<b, a % b>>]
    BY <2>1, GcdUnfolds
  <2>3. Fine(b, a % b)
    <3> HIDE DEF Fine, B
    <3>1. a % b \notin B
      BY <1>2, <2>1
    <3>2. QED
      BY <2>1, <3>1 DEF B
  <2> DEFINE g == gcd[<<a, b>>]
  <2>4. PICK q \in Nat, r \in Nat : b = g * q /\ a % b = g * r
    BY <2>2, <2>3
  <2>5. a = g * (q * (a \div b) + r) /\ q * (a \div b) + r \in Nat
    <3>1. a = b * (a \div b) + (a % b)
      BY <2>1, Division
    <3>2. g \in Nat
      BY <2>2, <2>3
    <3> DEFINE m == a \div b
    <3> HIDE DEF g, m
    <3>3. a = (g * q) * m + g * r /\ m \in Nat
      BY <2>1, <2>4, <3>1 DEF m
    <3>4. (g * q) * m + g * r = g * (q * m + r)
      BY <3>2, <3>3
    <3>5. QED
      BY <3>3, <3>4 DEF m
  <2>6. QED
    BY <1>3, <2>1, <2>2, <2>3, <2>4, <2>5
<1>6. QED
  BY <1>4, <1>5

\* A common factor is a factor of the greatest common divisor.
LEMMA GcdScales ==
  ASSUME NEW c \in Nat \ {0}
  PROVE  \A b \in Nat : \A a \in Nat : gcd[<<c * a, c * b>>] = c * gcd[<<a, b>>]
<1> DEFINE B == {b \in Nat : \E a \in Nat : gcd[<<c * a, c * b>>] # c * gcd[<<a, b>>]}
<1>1. SUFFICES ASSUME B # {} PROVE FALSE
  OBVIOUS
<1>2. PICK b \in B : \A y \in B : b <= y
  <2> HIDE DEF B
  <2>1. B \subseteq Nat
    BY DEF B
  <2>2. QED
    BY <1>1, <2>1, LeastExists
<1>3. PICK a \in Nat : gcd[<<c * a, c * b>>] # c * gcd[<<a, b>>]
  BY <1>2
<1>4. b \in Nat /\ c * a \in Nat /\ c * b \in Nat
  BY <1>2
<1>5. CASE b = 0
  <2>1. c * b = 0
    BY <1>5
  <2>2. QED
    BY <1>3, <1>4, <1>5, <2>1, GcdUnfolds
<1>6. CASE b # 0
  <2>1. b \in Nat \ {0} /\ a % b \in Nat /\ a % b < b /\ a \div b \in Int
        /\ a = b * (a \div b) + (a % b)
    BY <1>4, <1>6, Division
  <2>2. c * b \in Nat \ {0}
    BY <2>1
  <2>3. (c * a) % (c * b) = c * (a % b)
    <3> DEFINE q == a \div b
               r == a % b
    <3>1. q \in Int /\ r \in Nat /\ r < b /\ a = b * q + r
      BY <2>1
    <3> HIDE DEF q, r
    <3>2. c * a = (c * b) * q + c * r
      BY <1>4, <3>1
    <3>3. c * r \in Nat /\ c * r < c * b
      BY <1>4, <3>1
    <3>4. ((c * b) * q + c * r) % (c * b) = c * r
      BY <2>2, <3>1, <3>3, DivisionIsUnique
    <3>5. QED
      BY <3>2, <3>4 DEF r
  <2>4. a % b \notin B
    BY <1>2, <2>1
  <2>5. gcd[<<c * b, c * (a % b)>>] = c * gcd[<<b, a % b>>]
    BY <2>1, <2>4
  <2>6. gcd[<<c * a, c * b>>] = gcd[<<c * b, c * (a % b)>>]
    BY <1>4, <2>2, <2>3, GcdUnfolds
  <2>7. gcd[<<a, b>>] = gcd[<<b, a % b>>]
    BY <2>1, GcdUnfolds
  <2>8. QED
    BY <1>3, <2>5, <2>6, <2>7
<1>7. QED
  BY <1>5, <1>6
-----------------------------------------------------------------------------
\* A magnitude is natural.
LEMMA MagnitudeType == \A i \in Int : Magnitude(i) \in Nat /\ (i # 0 => Magnitude(i) > 0)
  BY DEF Magnitude

\* Reducing a quotient finds the factor it takes out.
LEMMA Reduction ==
  ASSUME NEW q \in Quotients
  PROVE  \E g \in Nat \ {0}, n \in Int, d \in Nat \ {0} :
           /\ lowest[q] = [n |-> n, d |-> d]
           /\ q.n = g * n /\ q.d = g * d
           /\ gcd[<<Magnitude(n), d>>] = 1
<1>1. q.n \in Int /\ q.d \in Nat \ {0} /\ Magnitude(q.n) \in Nat
  BY MagnitudeType DEF Quotients
<1> DEFINE g == gcd[<<Magnitude(q.n), q.d>>]
<1>2. g \in Nat \ {0}
  BY <1>1, GcdDivides
<1>3. PICK m \in Nat, d \in Nat : Magnitude(q.n) = g * m /\ q.d = g * d
  BY <1>1, GcdDivides
<1> DEFINE n == IF q.n < 0 THEN -m ELSE m
<1>4. lowest[q] = [n |-> q.n \div g, d |-> q.d \div g]
  BY DEF lowest
<1> HIDE DEF g
<1>5. n \in Int /\ q.n = g * n /\ Magnitude(n) = m
  BY <1>1, <1>2, <1>3 DEF Magnitude
<1>6. d \in Nat \ {0}
  BY <1>1, <1>2, <1>3
<1> HIDE DEF n
<1>7. (g * n + 0) \div g = n /\ (g * d + 0) \div g = d
  <2>1. (g * n + 0) \div g = n
    BY <1>2, <1>5, DivisionIsUnique
  <2>2. (g * d + 0) \div g = d
    BY <1>2, <1>6, DivisionIsUnique
  <2>3. QED
    BY <2>1, <2>2
<1>8. q.n \div g = n /\ q.d \div g = d
  BY <1>1, <1>2, <1>3, <1>5, <1>6, <1>7
<1>9. gcd[<<m, d>>] = 1
  <2>1. gcd[<<g * m, g * d>>] = g * gcd[<<m, d>>]
    BY <1>2, <1>3, GcdScales
  <2>2. g = g * gcd[<<m, d>>]
    BY <1>3, <2>1 DEF g
  <2>3. gcd[<<m, d>>] \in Nat
    BY <1>3, GcdDivides
  <2> DEFINE k == gcd[<<m, d>>]
  <2> HIDE DEF k
  <2>4. g = g * k /\ k \in Nat
    BY <2>2, <2>3 DEF k
  <2>5. k = 1
    BY <1>2, <2>4
  <2>6. QED
    BY <2>5 DEF k
<1>10. QED
  BY <1>2, <1>3, <1>4, <1>5, <1>6, <1>8, <1>9

\* A ratio is in lowest terms, and is what it is a ratio of.
LEMMA RatioFacts ==
  ASSUME NEW n \in Int, NEW d \in Nat \ {0}
  PROVE  /\ Ratio(n, d) \in Fractions /\ Ratio(n, d) \in Quotients
         /\ Ratio(n, d).n \in Int /\ Ratio(n, d).d \in Nat \ {0}
         /\ Ratio(n, d).n * d = n * Ratio(n, d).d
         /\ \E g \in Nat \ {0} : n = g * Ratio(n, d).n /\ d = g * Ratio(n, d).d
<1> DEFINE q == [n |-> n, d |-> d]
<1>1. q \in Quotients /\ q.n = n /\ q.d = d
  BY DEF Quotients
<1> HIDE DEF q
<1>2. PICK g \in Nat \ {0}, m \in Int, e \in Nat \ {0} :
        /\ lowest[q] = [n |-> m, d |-> e]
        /\ q.n = g * m /\ q.d = g * e /\ gcd[<<Magnitude(m), e>>] = 1
  BY <1>1, Reduction
<1> DEFINE r == [n |-> m, d |-> e]
<1>3. Ratio(n, d) = r
  BY <1>2 DEF Ratio, q
<1>4. r \in Quotients /\ r.n = m /\ r.d = e
  BY DEF Quotients
<1>5. r \in Fractions
  BY <1>2, <1>4 DEF Fractions
<1>6. n = g * m /\ d = g * e
  BY <1>1, <1>2
<1>7. m * d = n * e
  <2>1. m * (g * e) = (g * m) * e
    OBVIOUS
  <2>2. QED
    BY <1>6, <2>1
<1> HIDE DEF r
<1>8. QED
  BY <1>3, <1>4, <1>5, <1>6, <1>7

\* The parts of a quotient.
LEMMA Typing ==
  ASSUME NEW a \in Quotients
  PROVE  a.n \in Int /\ a.d \in Nat \ {0} /\ a.d > 0
BY DEF Quotients

\* Fractions are quotients in lowest terms.
LEMMA FractionsAreQuotients == Fractions \subseteq Quotients
BY DEF Fractions

\* An integer is a quotient,
LEMMA WholeType == \A i \in Int : Whole(i) \in Quotients /\ Whole(i).n = i /\ Whole(i).d = 1
BY DEF Whole, Quotients

\* The operations on two quotients.
LEMMA OperationsAreRatios ==
  ASSUME NEW a \in Quotients, NEW b \in Quotients
  PROVE  /\ a ++ b = Ratio(a.n * b.d + b.n * a.d, a.d * b.d)
         /\ a -- b = Ratio(a.n * b.d - b.n * a.d, a.d * b.d)
         /\ a ** b = Ratio(a.n * b.n, a.d * b.d)
         /\ a \prec b <=> a.n * b.d < b.n * a.d
         /\ a \preceq b <=> a.n * b.d <= b.n * a.d
<1>1. a.n \in Int /\ a.d \in Nat \ {0} /\ b.n \in Int /\ b.d \in Nat \ {0}
  BY Typing
<1>2. /\ <<a, b>> \in Pairs /\ <<a, b>>[1] = a /\ <<a, b>>[2] = b
      /\ <<b, a>> \in Pairs /\ <<b, a>>[1] = b /\ <<b, a>>[2] = a
  BY DEF Pairs
<1>3. a ++ b = Ratio(a.n * b.d + b.n * a.d, a.d * b.d)
  BY <1>2 DEF sum, ++
<1>4. a ** b = Ratio(a.n * b.n, a.d * b.d)
  BY <1>2 DEF product, **
<1>5. a -- b = Ratio(a.n * b.d - b.n * a.d, a.d * b.d)
  <2> DEFINE c == opposite[b]
  <2>1. c = [n |-> -b.n, d |-> b.d]
    BY DEF opposite
  <2>2. c \in Quotients /\ c.n = -b.n /\ c.d = b.d
    BY <1>1, <2>1 DEF Quotients
  <2> HIDE DEF c
  <2>3. <<a, c>> \in Pairs /\ <<a, c>>[1] = a /\ <<a, c>>[2] = c
    BY <2>2 DEF Pairs
  <2>4. sum[<<a, c>>] = Ratio(a.n * c.d + c.n * a.d, a.d * c.d)
    BY <2>3 DEF sum
  <2>5. a.n * b.d + (-b.n) * a.d = a.n * b.d - b.n * a.d
    BY <1>1
  <2>6. QED
    BY <2>2, <2>4, <2>5 DEF c, --
<1>6. a \prec b <=> a.n * b.d < b.n * a.d
  BY <1>2 DEF less, \prec
<1>7. a \preceq b <=> ~ (b.n * a.d < a.n * b.d)
  BY <1>2 DEF less, \prec, \preceq
<1>8. a.n * b.d \in Int /\ b.n * a.d \in Int
  BY <1>1
<1>9. QED
  BY <1>3, <1>4, <1>5, <1>6, <1>7, <1>8

\* The operations give fractions.
LEMMA OperationTypes ==
  ASSUME NEW a \in Quotients, NEW b \in Quotients
  PROVE  /\ a ++ b \in Fractions /\ a -- b \in Fractions /\ a ** b \in Fractions
         /\ b.n # 0 => a // b \in Fractions
<1>1. a.n \in Int /\ a.d \in Nat \ {0} /\ b.n \in Int /\ b.d \in Nat \ {0}
  BY Typing
<1>2. /\ a.d * b.d \in Nat \ {0} /\ a.n * b.d + b.n * a.d \in Int
      /\ a.n * b.d - b.n * a.d \in Int /\ a.n * b.n \in Int
  BY <1>1
<1>3. a ++ b \in Fractions /\ a -- b \in Fractions /\ a ** b \in Fractions
  BY <1>2, OperationsAreRatios, RatioFacts
<1>4. ASSUME b.n # 0 PROVE a // b \in Fractions
  <2> DEFINE c == inverse[b]
  <2>1. c = [n |-> IF b.n > 0 THEN b.d ELSE -b.d, d |-> Magnitude(b.n)]
    BY DEF inverse
  <2>2. Magnitude(b.n) \in Nat \ {0}
    BY <1>1, <1>4, MagnitudeType
  <2>3. c \in Quotients
    BY <1>1, <2>1, <2>2 DEF Quotients
  <2> HIDE DEF c
  <2>4. a ** c \in Fractions
    <3>1. c.n \in Int /\ c.d \in Nat \ {0}
      BY <2>3, Typing
    <3>2. a.d * c.d \in Nat \ {0} /\ a.n * c.n \in Int
      BY <1>1, <3>1
    <3>3. QED
      BY <2>3, <3>2, OperationsAreRatios, RatioFacts
  <2>5. QED
    BY <2>4 DEF c, //, **
<1>5. QED
  BY <1>3, <1>4

\* A ratio compares as the quotient does that it reduces.
LEMMA RatioIsOrdered ==
  ASSUME NEW a \in Quotients, NEW n \in Int, NEW d \in Nat \ {0}
  PROVE  /\ a \preceq Ratio(n, d) <=> a.n * d <= n * a.d
         /\ Ratio(n, d) \preceq a <=> n * a.d <= a.n * d
<1>1. a.n \in Int /\ a.d \in Nat \ {0}
  BY Typing
<1> DEFINE r == Ratio(n, d)
<1>2. r \in Quotients /\ r.n \in Int /\ r.d \in Nat \ {0}
  BY RatioFacts
<1>3. PICK g \in Nat \ {0} : n = g * r.n /\ d = g * r.d
  BY RatioFacts
<1> DEFINE m == r.n
           e == r.d
<1> HIDE DEF r
<1>4. /\ a \preceq r <=> a.n * e <= m * a.d
      /\ r \preceq a <=> m * a.d <= a.n * e
  BY <1>2, OperationsAreRatios
<1>5. m \in Int /\ e \in Nat \ {0} /\ n = g * m /\ d = g * e
  BY <1>2, <1>3
<1> HIDE DEF m, e
<1>6. a.n * d = g * (a.n * e) /\ n * a.d = g * (m * a.d)
  BY <1>1, <1>5
<1> DEFINE x == a.n * e
           y == m * a.d
<1>7. x \in Int /\ y \in Int
  BY <1>1, <1>5
<1> HIDE DEF x, y
<1>8. (g * x <= g * y <=> x <= y) /\ (g * y <= g * x <=> y <= x)
  BY <1>7
<1>9. QED
  BY <1>4, <1>6, <1>8 DEF x, y, r

\* Adding what is not negative gives no less, and taking it away no more.
LEMMA SumsAreOrdered ==
  ASSUME NEW a \in Quotients, NEW b \in Quotients, Zero \preceq b
  PROVE  a \preceq a ++ b /\ a -- b \preceq a
<1>1. a.n \in Int /\ a.d \in Nat \ {0} /\ b.n \in Int /\ b.d \in Nat \ {0}
  BY Typing
<1>2. b.n >= 0
  <2>1. Zero \in Quotients /\ Zero.n = 0 /\ Zero.d = 1
    BY WholeType DEF Zero
  <2>2. 0 * b.d <= b.n * 1
    BY <2>1, OperationsAreRatios
  <2>3. QED
    BY <1>1, <2>2
<1> DEFINE d == a.d * b.d
           u == a.n * b.d + b.n * a.d
           v == a.n * b.d - b.n * a.d
<1>3. d \in Nat \ {0} /\ u \in Int /\ v \in Int
  BY <1>1
<1>4. b.n * a.d >= 0
  BY <1>1, <1>2
<1>5. a.n * d + (b.n * a.d) * a.d = u * a.d /\ v * a.d + (b.n * a.d) * a.d = a.n * d
  BY <1>1
<1>6. (b.n * a.d) * a.d >= 0
  BY <1>1, <1>4
<1>7. a.n * d <= u * a.d /\ v * a.d <= a.n * d
  BY <1>1, <1>3, <1>5, <1>6
<1> HIDE DEF d, u, v
<1>8. a \preceq Ratio(u, d)
  BY <1>1, <1>3, <1>7, RatioIsOrdered
<1>9. Ratio(v, d) \preceq a
  BY <1>1, <1>3, <1>7, RatioIsOrdered
<1>10. QED
  BY <1>8, <1>9, OperationsAreRatios DEF d, u, v

\* What is not below something is not below what is above it.
LEMMA LessIsOrder ==
  ASSUME NEW a \in Quotients, NEW b \in Quotients, NEW c \in Quotients, c \prec a, ~(c \prec b)
  PROVE  b \prec a
<1>1. /\ a.n \in Int /\ a.d \in Nat \ {0} /\ b.n \in Int /\ b.d \in Nat \ {0}
      /\ c.n \in Int /\ c.d \in Nat \ {0}
  BY Typing
<1>2. c.n * a.d < a.n * c.d /\ b.n * c.d <= c.n * b.d
  <2>1. c.n * b.d \in Int /\ b.n * c.d \in Int
    BY <1>1
  <2>2. QED
    BY <2>1, OperationsAreRatios
<1> DEFINE x == b.n * a.d
           y == a.n * b.d
<1>3. x \in Int /\ y \in Int
  BY <1>1
<1>4. (b.n * c.d) * a.d <= (c.n * b.d) * a.d
  BY <1>1, <1>2
<1>5. (c.n * a.d) * b.d < (a.n * c.d) * b.d
  BY <1>1, <1>2
<1>6. x * c.d = (b.n * c.d) * a.d /\ (c.n * b.d) * a.d = (c.n * a.d) * b.d /\ y * c.d = (a.n * c.d) * b.d
  BY <1>1
<1>7. x * c.d < y * c.d
  BY <1>1, <1>3, <1>4, <1>5, <1>6
<1> HIDE DEF x, y
<1>8. x < y
  BY <1>1, <1>3, <1>7
<1>9. QED
  BY <1>8, OperationsAreRatios DEF x, y

\* An integer is a fraction in lowest terms.
LEMMA WholeIsFraction == \A i \in Int : Whole(i) \in Fractions
<1> SUFFICES ASSUME NEW i \in Int PROVE Whole(i) \in Fractions
  OBVIOUS
<1> DEFINE m == Magnitude(i)
<1>1. Whole(i) \in Quotients /\ Whole(i).n = i /\ Whole(i).d = 1 /\ m \in Nat
  BY WholeType, MagnitudeType
<1> HIDE DEF m
<1>2. (1 * m + 0) % 1 = 0
  BY <1>1, DivisionIsUnique
<1>3. m % 1 = 0
  BY <1>1, <1>2
<1>4. \A a \in Nat : gcd[<<a, 0>>] = a
  BY GcdUnfolds
<1>5. \A a \in Nat : gcd[<<a, 1>>] = gcd[<<1, a % 1>>]
  BY GcdUnfolds
<1>6. gcd[<<m, 1>>] = gcd[<<1, 0>>]
  BY <1>1, <1>3, <1>5
<1>7. gcd[<<m, 1>>] = 1
  BY <1>4, <1>6
<1>8. QED
  BY <1>1, <1>7 DEF Fractions, m

\* Zero is one of them.
LEMMA ZeroType == Zero \in Fractions /\ Zero \in Quotients /\ Zero.n = 0 /\ Zero.d = 1
BY WholeType, WholeIsFraction DEF Zero

\* A number has one fraction in lowest terms.
LEMMA LowestTermsAreUnique ==
  ASSUME NEW a \in Fractions, NEW b \in Fractions, a.n * b.d = b.n * a.d
  PROVE  a = b
<1>1. /\ a \in Quotients /\ b \in Quotients
      /\ gcd[<<Magnitude(a.n), a.d>>] = 1 /\ gcd[<<Magnitude(b.n), b.d>>] = 1
  BY DEF Fractions
<1>2. a.n \in Int /\ a.d \in Nat \ {0} /\ b.n \in Int /\ b.d \in Nat \ {0}
  BY <1>1, Typing
<1> DEFINE m == Magnitude(a.n)
           k == Magnitude(b.n)
<1>3. m \in Nat /\ k \in Nat
  BY <1>2, MagnitudeType
<1>4. \A i \in Int, d \in Nat : Magnitude(i) * d = Magnitude(i * d)
  <2> SUFFICES ASSUME NEW i \in Int, NEW d \in Nat PROVE Magnitude(i) * d = Magnitude(i * d)
    OBVIOUS
  <2>1. CASE i >= 0
    <3>1. i * d >= 0
      BY <2>1
    <3>2. QED
      BY <2>1, <3>1 DEF Magnitude
  <2>2. CASE i < 0
    <3>1. (-i) * d = -(i * d) /\ (-i) * d >= 0 /\ i * d \in Int
      BY <2>2
    <3>2. QED
      BY <2>2, <3>1 DEF Magnitude
  <2>3. QED
    BY <2>1, <2>2
<1>5. m * b.d = k * a.d
  BY <1>2, <1>4
<1> HIDE DEF m, k
<1>6. gcd[<<b.d * m, b.d * a.d>>] = b.d * gcd[<<m, a.d>>]
  BY <1>2, <1>3, GcdScales
<1>7. gcd[<<a.d * k, a.d * b.d>>] = a.d * gcd[<<k, b.d>>]
  BY <1>2, <1>3, GcdScales
<1>8. b.d * m = a.d * k /\ b.d * a.d = a.d * b.d
  BY <1>2, <1>3, <1>5
<1>9. b.d * gcd[<<m, a.d>>] = a.d * gcd[<<k, b.d>>]
  BY <1>6, <1>7, <1>8
<1>10. a.d = b.d
  BY <1>1, <1>2, <1>9 DEF m, k
<1>11. a.n = b.n
  BY <1>2, <1>10
<1>12. QED
  BY <1>1, <1>10, <1>11 DEF Quotients

\* Equal ratios have the same lowest terms.
LEMMA RatioIsUnique ==
  ASSUME NEW n \in Int, NEW d \in Nat \ {0}, NEW m \in Int, NEW e \in Nat \ {0}, n * e = m * d
  PROVE  Ratio(n, d) = Ratio(m, e)
<1> DEFINE a == Ratio(n, d)
           b == Ratio(m, e)
<1>1. a \in Fractions /\ a.n \in Int /\ a.d \in Nat \ {0} /\ a.n * d = n * a.d
  BY RatioFacts
<1>2. b \in Fractions /\ b.n \in Int /\ b.d \in Nat \ {0} /\ b.n * e = m * b.d
  BY RatioFacts
<1> HIDE DEF a, b
<1>3. (a.n * b.d) * (d * e) = (b.n * a.d) * (d * e)
  <2>1. (a.n * b.d) * (d * e) = (a.n * d) * (b.d * e)
    BY <1>1, <1>2
  <2>2. (n * a.d) * (b.d * e) = (n * e) * (a.d * b.d)
    BY <1>1, <1>2
  <2>3. (m * d) * (a.d * b.d) = (m * b.d) * (a.d * d)
    BY <1>1, <1>2
  <2>4. (b.n * e) * (a.d * d) = (b.n * a.d) * (d * e)
    BY <1>1, <1>2
  <2>5. QED
    BY <1>1, <1>2, <2>1, <2>2, <2>3, <2>4
<1> DEFINE x == a.n * b.d
           y == b.n * a.d
           z == d * e
<1>4. x \in Int /\ y \in Int /\ z \in Nat \ {0}
  BY <1>1, <1>2
<1>5. x = y
  <2> HIDE DEF x, y, z
  <2>1. x * z = y * z
    BY <1>3 DEF x, y, z
  <2>2. QED
    BY <1>4, <2>1
<1>6. QED
  BY <1>1, <1>2, <1>5, LowestTermsAreUnique DEF a, b

\* A fraction is the ratio of its parts,
LEMMA FractionIsRatio ==
  ASSUME NEW a \in Fractions
  PROVE  a.n \in Int /\ a.d \in Nat \ {0} /\ a = Ratio(a.n, a.d)
<1>1. a.n \in Int /\ a.d \in Nat \ {0}
  BY FractionsAreQuotients, Typing
<1>2. Ratio(a.n, a.d) \in Fractions /\ Ratio(a.n, a.d).n * a.d = a.n * Ratio(a.n, a.d).d
  BY <1>1, RatioFacts
<1>3. QED
  BY <1>1, <1>2, LowestTermsAreUnique

\* and ratios are calculated with as fractions are.
LEMMA RatiosAddAndMultiply ==
  ASSUME NEW n \in Int, NEW d \in Nat \ {0}, NEW m \in Int, NEW e \in Nat \ {0}
  PROVE  /\ Ratio(n, d) ** Ratio(m, e) = Ratio(n * m, d * e)
         /\ Ratio(n, d) ++ Ratio(m, e) = Ratio(n * e + m * d, d * e)
         /\ Ratio(n, d) -- Ratio(m, e) = Ratio(n * e - m * d, d * e)
<1> DEFINE a == Ratio(n, d)
           b == Ratio(m, e)
<1>1. a \in Quotients /\ a.n \in Int /\ a.d \in Nat \ {0} /\ a.n * d = n * a.d
  BY RatioFacts
<1>2. b \in Quotients /\ b.n \in Int /\ b.d \in Nat \ {0} /\ b.n * e = m * b.d
  BY RatioFacts
<1> HIDE DEF a, b
<1>3. /\ a ++ b = Ratio(a.n * b.d + b.n * a.d, a.d * b.d)
      /\ a -- b = Ratio(a.n * b.d - b.n * a.d, a.d * b.d)
      /\ a ** b = Ratio(a.n * b.n, a.d * b.d)
  BY <1>1, <1>2, OperationsAreRatios
<1>4. /\ a.d * b.d \in Nat \ {0} /\ d * e \in Nat \ {0}
      /\ a.n * b.n \in Int /\ n * m \in Int
      /\ a.n * b.d \in Int /\ b.n * a.d \in Int /\ n * e \in Int /\ m * d \in Int
  BY <1>1, <1>2
<1>5. (a.n * b.n) * (d * e) = (n * m) * (a.d * b.d)
  <2>1. (a.n * b.n) * (d * e) = (a.n * d) * (b.n * e)
    BY <1>1, <1>2
  <2>2. (n * a.d) * (m * b.d) = (n * m) * (a.d * b.d)
    BY <1>1, <1>2
  <2>3. QED
    BY <1>1, <1>2, <2>1, <2>2
<1>6. (a.n * b.d) * (d * e) = (n * e) * (a.d * b.d)
  <2>1. (a.n * b.d) * (d * e) = (a.n * d) * (b.d * e)
    BY <1>1, <1>2
  <2>2. (n * a.d) * (b.d * e) = (n * e) * (a.d * b.d)
    BY <1>1, <1>2
  <2>3. QED
    BY <1>1, <2>1, <2>2
<1>7. (b.n * a.d) * (d * e) = (m * d) * (a.d * b.d)
  <2>1. (b.n * a.d) * (d * e) = (b.n * e) * (a.d * d)
    BY <1>1, <1>2
  <2>2. (m * b.d) * (a.d * d) = (m * d) * (a.d * b.d)
    BY <1>1, <1>2
  <2>3. QED
    BY <1>2, <2>1, <2>2
<1> DEFINE p == a.n * b.d
           q == b.n * a.d
           u == n * e
           v == m * d
           w == d * e
           z == a.d * b.d
<1>8. p \in Int /\ q \in Int /\ u \in Int /\ v \in Int /\ w \in Int /\ z \in Int /\ p * w = u * z /\ q * w = v * z
  BY <1>4, <1>6, <1>7
<1>9. (p + q) * w = (u + v) * z /\ (p - q) * w = (u - v) * z
  <2> HIDE DEF p, q, u, v, w, z
  <2>1. QED
    BY <1>8
<1>10. a ** b = Ratio(n * m, d * e)
  BY <1>3, <1>4, <1>5, RatioIsUnique
<1>11. a ++ b = Ratio(n * e + m * d, d * e)
  <2>1. p + q \in Int /\ u + v \in Int
    BY <1>4
  <2> HIDE DEF p, q, u, v
  <2>2. Ratio(p + q, z) = Ratio(u + v, w)
    BY <1>4, <1>9, <2>1, RatioIsUnique
  <2>3. QED
    BY <1>3, <2>2 DEF p, q, u, v
<1>12. a -- b = Ratio(n * e - m * d, d * e)
  <2>1. p - q \in Int /\ u - v \in Int
    BY <1>4
  <2> HIDE DEF p, q, u, v
  <2>2. Ratio(p - q, z) = Ratio(u - v, w)
    BY <1>4, <1>9, <2>1, RatioIsUnique
  <2>3. QED
    BY <1>3, <2>2 DEF p, q, u, v
<1>13. QED
  BY <1>10, <1>11, <1>12 DEF a, b

\* Dividing by what is positive.
LEMMA QuotientIsRatio ==
  ASSUME NEW a \in Fractions, NEW b \in Fractions, b.n > 0
  PROVE  a // b = Ratio(a.n * b.d, a.d * b.n)
<1>1. a \in Quotients /\ b \in Quotients /\ a.n \in Int /\ a.d \in Nat \ {0} /\ b.n \in Int /\ b.d \in Nat \ {0}
  BY FractionsAreQuotients, Typing
<1> DEFINE c == inverse[b]
<1>2. c = [n |-> b.d, d |-> b.n]
  BY <1>1 DEF inverse, Magnitude
<1>3. c \in Quotients /\ c.n = b.d /\ c.d = b.n
  BY <1>1, <1>2 DEF Quotients
<1> HIDE DEF c
<1>4. a ** c = Ratio(a.n * b.d, a.d * b.n)
  BY <1>1, <1>3, OperationsAreRatios
<1>5. QED
  BY <1>4 DEF c, //, **

\* Taking one away and giving it back,
LEMMA OneBack ==
  ASSUME NEW a \in Fractions
  PROVE  Whole(1) ++ (a -- Whole(1)) = a
<1>1. a.n \in Int /\ a.d \in Nat \ {0} /\ a = Ratio(a.n, a.d)
  BY FractionIsRatio
<1>2. Whole(1) = Ratio(1, 1)
  BY WholeIsFraction, WholeType, FractionIsRatio
<1> DEFINE n == a.n
           d == a.d
<1> HIDE DEF n, d
<1>3. n \in Int /\ d \in Nat \ {0} /\ a = Ratio(n, d)
  BY <1>1 DEF n, d
<1>4. a -- Whole(1) = Ratio(n * 1 - 1 * d, d * 1)
  BY <1>2, <1>3, RatiosAddAndMultiply
<1>5. n * 1 - 1 * d = n - d /\ d * 1 = d /\ n - d \in Int
  BY <1>3
<1>6. a -- Whole(1) = Ratio(n - d, d)
  BY <1>4, <1>5
<1>7. Ratio(1, 1) ++ Ratio(n - d, d) = Ratio(1 * d + (n - d) * 1, 1 * d)
  BY <1>3, <1>5, RatiosAddAndMultiply
<1>8. 1 * d + (n - d) * 1 = n /\ 1 * d = d
  BY <1>3
<1>9. QED
  BY <1>2, <1>3, <1>6, <1>7, <1>8

\* growing by nothing,
LEMMA GrowthOfNothing ==
  ASSUME NEW a \in Fractions, NEW c \in Fractions, c.n > 0
  PROVE  a ** (c // c) = a
<1>1. /\ a.n \in Int /\ a.d \in Nat \ {0} /\ a = Ratio(a.n, a.d)
      /\ c.n \in Nat \ {0} /\ c.d \in Nat \ {0}
  BY FractionIsRatio
<1> DEFINE x == c.n * c.d
           y == c.d * c.n
<1>2. x \in Nat \ {0} /\ y \in Nat \ {0} /\ x = y
  BY <1>1
<1>3. c // c = Ratio(x, y)
  BY QuotientIsRatio
<1> HIDE DEF x, y
<1>4. a ** (c // c) = Ratio(a.n * x, a.d * y)
  <2>1. \A n \in Int, d \in Nat \ {0} : Ratio(n, d) ** Ratio(x, y) = Ratio(n * x, d * y)
    BY <1>2, RatiosAddAndMultiply
  <2>2. QED
    BY <1>1, <1>3, <2>1, Zenon
<1>5. (a.n * x) * a.d = a.n * (a.d * y) /\ a.n * x \in Int /\ a.d * y \in Nat \ {0}
  BY <1>1, <1>2
<1>6. Ratio(a.n * x, a.d * y) = Ratio(a.n, a.d)
  BY <1>1, <1>5, RatioIsUnique
<1>7. QED
  BY <1>1, <1>4, <1>6

\* and growing twice.
LEMMA GrowthChains ==
  ASSUME NEW a \in Fractions, NEW c \in Fractions, c.n > 0, NEW p \in Fractions, p.n > 0, NEW q \in Fractions
  PROVE  (a ** (p // c)) ** (q // p) = a ** (q // c)
<1>1. /\ a.n \in Int /\ a.d \in Nat \ {0} /\ a = Ratio(a.n, a.d)
      /\ c.n \in Nat \ {0} /\ c.d \in Nat \ {0} /\ p.n \in Nat \ {0} /\ p.d \in Nat \ {0}
      /\ q.n \in Int /\ q.d \in Nat \ {0}
  BY FractionIsRatio
<1> DEFINE pc == p.n * c.d
           cp == p.d * c.n
           qp == q.n * p.d
           pq == q.d * p.n
           qc == q.n * c.d
           cq == q.d * c.n
           u == a.n * pc
           v == a.d * cp
           w == a.n * qc
           z == a.d * cq
<1>2. /\ pc \in Int /\ cp \in Nat \ {0} /\ qp \in Int /\ pq \in Nat \ {0} /\ qc \in Int /\ cq \in Nat \ {0}
      /\ p // c = Ratio(pc, cp) /\ q // p = Ratio(qp, pq) /\ q // c = Ratio(qc, cq)
  BY <1>1, QuotientIsRatio
<1>3. /\ pc * qp = (p.n * p.d) * qc /\ cp * pq = (p.n * p.d) * cq /\ p.n * p.d \in Nat \ {0}
  BY <1>1
<1> DEFINE s == p.n * p.d
<1> HIDE DEF pc, cp, qp, pq, qc, cq, s
<1>4. u \in Int /\ v \in Nat \ {0} /\ w \in Int /\ z \in Nat \ {0}
  BY <1>1, <1>2
<1>5. a ** (p // c) = Ratio(u, v) /\ a ** (q // c) = Ratio(w, z)
  <2>1. \A n \in Int, d \in Nat \ {0} : Ratio(n, d) ** Ratio(pc, cp) = Ratio(n * pc, d * cp)
    BY <1>2, RatiosAddAndMultiply
  <2>2. \A n \in Int, d \in Nat \ {0} : Ratio(n, d) ** Ratio(qc, cq) = Ratio(n * qc, d * cq)
    BY <1>2, RatiosAddAndMultiply
  <2>3. QED
    BY <1>1, <1>2, <2>1, <2>2, Zenon
<1>6. u * qp = s * w /\ v * pq = s * z /\ s \in Nat \ {0}
  <2>1. pc * qp = s * qc /\ cp * pq = s * cq /\ s \in Nat \ {0}
    BY <1>3 DEF s
  <2>2. (a.n * pc) * qp = a.n * (pc * qp) /\ a.n * (s * qc) = s * (a.n * qc)
    BY <1>1, <1>2, <2>1
  <2>3. (a.d * cp) * pq = a.d * (cp * pq) /\ a.d * (s * cq) = s * (a.d * cq)
    BY <1>1, <1>2, <2>1
  <2>4. QED
    BY <2>1, <2>2, <2>3
<1> HIDE DEF u, v, w, z
<1>7. (a ** (p // c)) ** (q // p) = Ratio(u * qp, v * pq)
  BY <1>2, <1>4, <1>5, RatiosAddAndMultiply
<1>8. (s * w) * z = w * (s * z) /\ s * w \in Int /\ s * z \in Nat \ {0}
  BY <1>4, <1>6
<1>9. Ratio(s * w, s * z) = Ratio(w, z)
  BY <1>4, <1>8, RatioIsUnique
<1>10. QED
  BY <1>5, <1>6, <1>7, <1>9
-----------------------------------------------------------------------------
(***************************************************************************)
(* Fractions of one denominator.                                           *)
(***************************************************************************)
Grid(d) == {Ratio(x, d) : x \in Int}

\* How many d-ths a fraction of the grid is.
Units(a, d) == CHOOSE x \in Int : a = Ratio(x, d)

\* A fraction of the grid is one number of d-ths.
LEMMA UnitsAreUnique ==
  ASSUME NEW d \in Nat \ {0}, NEW x \in Int
  PROVE  Ratio(x, d) \in Grid(d) /\ Units(Ratio(x, d), d) = x
<1> DEFINE r == Ratio(x, d)
<1>1. r.d \in Nat \ {0} /\ r.n \in Int /\ r.n * d = x * r.d
  BY RatioFacts
<1>2. ASSUME NEW y \in Int, r = Ratio(y, d) PROVE y = x
  <2>1. r.n * d = y * r.d
    BY <1>2, RatioFacts
  <2> HIDE DEF r
  <2>2. x * r.d = y * r.d
    BY <1>1, <2>1
  <2>3. QED
    BY <1>1, <2>2
<1>3. Units(r, d) = x
  <2>1. r = Ratio(x, d)
    OBVIOUS
  <2> HIDE DEF r
  <2>2. QED
    BY <1>2, <2>1 DEF Units
<1>4. QED
  BY <1>3 DEF Grid

LEMMA GridFacts ==
  ASSUME NEW d \in Nat \ {0}, NEW a \in Grid(d)
  PROVE  a \in Fractions /\ a \in Quotients /\ Units(a, d) \in Int /\ a = Ratio(Units(a, d), d)
<1>1. PICK x \in Int : a = Ratio(x, d)
  BY DEF Grid
<1>2. QED
  BY <1>1, UnitsAreUnique, RatioFacts

\* On a grid, fractions are equal when their numbers are,
LEMMA GridIsUnique ==
  ASSUME NEW d \in Nat \ {0}, NEW a \in Grid(d), NEW b \in Grid(d)
  PROVE  a = b <=> Units(a, d) = Units(b, d)
BY GridFacts, Zenon

\* are added, subtracted and compared as their numbers are,
LEMMA GridAdds ==
  ASSUME NEW d \in Nat \ {0}, NEW a \in Grid(d), NEW b \in Grid(d)
  PROVE  /\ a ++ b \in Grid(d) /\ Units(a ++ b, d) = Units(a, d) + Units(b, d)
         /\ a -- b \in Grid(d) /\ Units(a -- b, d) = Units(a, d) - Units(b, d)
<1> DEFINE x == Units(a, d)
           y == Units(b, d)
<1>1. x \in Int /\ y \in Int /\ a = Ratio(x, d) /\ b = Ratio(y, d)
  BY GridFacts
<1> HIDE DEF x, y
<1>2. a ++ b = Ratio(x * d + y * d, d * d) /\ a -- b = Ratio(x * d - y * d, d * d)
  BY <1>1, RatiosAddAndMultiply
<1>3. d * d \in Nat \ {0} /\ x + y \in Int /\ x - y \in Int /\ x * d + y * d \in Int /\ x * d - y * d \in Int
  BY <1>1
<1>4. (x * d + y * d) * d = (x + y) * (d * d) /\ (x * d - y * d) * d = (x - y) * (d * d)
  BY <1>1
<1>5. a ++ b = Ratio(x + y, d)
  BY <1>2, <1>3, <1>4, RatioIsUnique
<1>6. a -- b = Ratio(x - y, d)
  BY <1>2, <1>3, <1>4, RatioIsUnique
<1>7. QED
  BY <1>3, <1>5, <1>6, UnitsAreUnique DEF x, y

LEMMA GridOrders ==
  ASSUME NEW d \in Nat \ {0}, NEW a \in Grid(d), NEW b \in Grid(d)
  PROVE  /\ a \preceq b <=> Units(a, d) <= Units(b, d)
         /\ a \prec b <=> Units(a, d) < Units(b, d)
<1> DEFINE x == Units(a, d)
           y == Units(b, d)
<1>1. x \in Int /\ y \in Int /\ a = Ratio(x, d) /\ b = Ratio(y, d) /\ a \in Quotients /\ b \in Quotients
  BY GridFacts
<1> HIDE DEF x, y
<1>2. /\ a.n \in Int /\ a.d \in Nat \ {0} /\ a.n * d = x * a.d
      /\ b.n \in Int /\ b.d \in Nat \ {0} /\ b.n * d = y * b.d
  BY <1>1, RatioFacts
<1>3. (a.n * b.d) * d = x * (a.d * b.d) /\ (b.n * a.d) * d = y * (a.d * b.d)
  <2>1. (a.n * b.d) * d = (a.n * d) * b.d /\ (b.n * a.d) * d = (b.n * d) * a.d
    BY <1>2
  <2>2. (x * a.d) * b.d = x * (a.d * b.d) /\ (y * b.d) * a.d = y * (a.d * b.d)
    BY <1>1, <1>2
  <2>3. QED
    BY <1>2, <2>1, <2>2
<1> DEFINE p == a.n * b.d
           q == b.n * a.d
           e == a.d * b.d
<1>4. p \in Int /\ q \in Int /\ e \in Nat \ {0} /\ p * d = x * e /\ q * d = y * e
  BY <1>2, <1>3
<1>5. (p <= q <=> x <= y) /\ (p < q <=> x < y)
  <2> HIDE DEF p, q, e
  <2>1. (p <= q <=> p * d <= q * d) /\ (p < q <=> p * d < q * d)
    BY <1>4
  <2>2. (x <= y <=> x * e <= y * e) /\ (x < y <=> x * e < y * e)
    BY <1>1, <1>4
  <2>3. QED
    BY <1>4, <2>1, <2>2
<1>6. QED
  BY <1>1, <1>5, OperationsAreRatios DEF x, y

\* multiplied by integers,
LEMMA GridScales ==
  ASSUME NEW d \in Nat \ {0}, NEW a \in Grid(d), NEW k \in Int
  PROVE  /\ a ** Whole(k) \in Grid(d) /\ Units(a ** Whole(k), d) = Units(a, d) * k
         /\ Whole(k) ** a = a ** Whole(k)
<1> DEFINE x == Units(a, d)
<1>1. x \in Int /\ a = Ratio(x, d)
  BY GridFacts
<1>2. Whole(k) = Ratio(k, 1)
  BY WholeIsFraction, WholeType, FractionIsRatio
<1> HIDE DEF x
<1>3. a ** Whole(k) = Ratio(x * k, d * 1) /\ Whole(k) ** a = Ratio(k * x, 1 * d)
  BY <1>1, <1>2, RatiosAddAndMultiply
<1>4. d * 1 = d /\ 1 * d = d /\ k * x = x * k /\ x * k \in Int
  BY <1>1
<1>5. a ** Whole(k) = Ratio(x * k, d) /\ Whole(k) ** a = Ratio(x * k, d)
  BY <1>3, <1>4
<1>6. QED
  BY <1>4, <1>5, UnitsAreUnique DEF x

\* and have the magnitude that their numbers have.
LEMMA GridMagnitude ==
  ASSUME NEW d \in Nat \ {0}, NEW a \in Grid(d)
  PROVE  Absolute(a) \in Grid(d) /\ Units(Absolute(a), d) = Magnitude(Units(a, d))
<1> DEFINE x == Units(a, d)
<1>1. x \in Int /\ a = Ratio(x, d) /\ a \in Fractions
  BY GridFacts
<1> HIDE DEF x
<1>2. a.n \in Int /\ a.d \in Nat \ {0} /\ a.n * d = x * a.d /\ gcd[<<Magnitude(a.n), a.d>>] = 1
  BY <1>1, RatioFacts DEF Fractions
<1> DEFINE b == Absolute(a)
<1>3. Magnitude(a.n) \in Nat /\ Magnitude(Magnitude(a.n)) = Magnitude(a.n) /\ Magnitude(x) \in Nat
  BY <1>1, <1>2 DEF Magnitude
<1>4. b = [n |-> Magnitude(a.n), d |-> a.d]
  BY DEF Absolute
<1>5. b \in Fractions /\ b.n = Magnitude(a.n) /\ b.d = a.d
  BY <1>2, <1>3, <1>4 DEF Fractions, Quotients
<1> HIDE DEF b
<1>6. Magnitude(a.n) * d = Magnitude(x) * a.d
  <2>1. (a.n < 0 <=> x < 0)
    <3>1. (a.n < 0 <=> a.n * d < 0) /\ (x < 0 <=> x * a.d < 0)
      BY <1>1, <1>2
    <3>2. QED
      BY <1>2, <3>1
  <2>2. (-a.n) * d = -(a.n * d) /\ (-x) * a.d = -(x * a.d)
    BY <1>1, <1>2
  <2>3. QED
    BY <1>1, <1>2, <2>1, <2>2 DEF Magnitude
<1>7. b = Ratio(b.n, b.d)
  BY <1>5, FractionIsRatio
<1>8. Ratio(b.n, b.d) = Ratio(Magnitude(x), d)
  BY <1>1, <1>2, <1>3, <1>5, <1>6, RatioIsUnique
<1>9. QED
  BY <1>3, <1>7, <1>8, UnitsAreUnique DEF b, x

\* An integer is on every grid,
LEMMA WholeOnGrid ==
  ASSUME NEW d \in Nat \ {0}, NEW k \in Int
  PROVE  Whole(k) \in Grid(d) /\ Units(Whole(k), d) = k * d
<1>1. Whole(k) = Ratio(k, 1)
  BY WholeIsFraction, WholeType, FractionIsRatio
<1>2. k * d \in Int /\ k * d = (k * d) * 1
  OBVIOUS
<1>3. Ratio(k, 1) = Ratio(k * d, d)
  BY <1>2, RatioIsUnique
<1>4. QED
  BY <1>1, <1>2, <1>3, UnitsAreUnique

LEMMA ZeroOnGrid ==
  ASSUME NEW d \in Nat \ {0}
  PROVE  Zero \in Grid(d) /\ Units(Zero, d) = 0
BY WholeOnGrid, 0 * d = 0 DEF Zero

\* a fraction on that of its denominator, and a grid on the finer ones.
LEMMA FractionOnGrid ==
  ASSUME NEW a \in Fractions
  PROVE  a.d \in Nat \ {0} /\ a \in Grid(a.d)
BY FractionIsRatio DEF Grid

LEMMA FinerGrid ==
  ASSUME NEW d \in Nat \ {0}, NEW e \in Nat \ {0}
  PROVE  d * e \in Nat \ {0} /\ Grid(d) \subseteq Grid(d * e) /\ Grid(e) \subseteq Grid(d * e)
<1>1. d * e \in Nat \ {0}
  OBVIOUS
<1>2. ASSUME NEW x \in Int PROVE Ratio(x, d) = Ratio(x * e, d * e)
  <2>1. x * (d * e) = (x * e) * d /\ x * e \in Int
    OBVIOUS
  <2>2. QED
    BY <1>1, <2>1, RatioIsUnique
<1>3. ASSUME NEW x \in Int PROVE Ratio(x, e) = Ratio(x * d, d * e)
  <2>1. x * (d * e) = (x * d) * e /\ x * d \in Int
    OBVIOUS
  <2>2. QED
    BY <1>1, <2>1, RatioIsUnique
<1>4. \A x \in Int : x * d \in Int /\ x * e \in Int
  OBVIOUS
<1>5. QED
  BY <1>1, <1>2, <1>3, <1>4 DEF Grid

\* Two fractions have a common denominator,
LEMMA TwoOnGrid ==
  ASSUME NEW d \in Nat \ {0}, NEW a \in Fractions
  PROVE  \E e \in Nat \ {0} : Grid(d) \subseteq Grid(e) /\ a \in Grid(e)
BY FractionOnGrid, FinerGrid

\* and so have finitely many.
LEMMA CommonGrid ==
  ASSUME NEW S, IsFiniteSet(S), NEW f, \A x \in S : f[x] \in Fractions
  PROVE  \E d \in Nat \ {0} : \A x \in S : f[x] \in Grid(d)
<1> DEFINE B == {T \in SUBSET S : ~ \E d \in Nat \ {0} : \A x \in T : f[x] \in Grid(d)}
<1>1. SUFFICES ASSUME B # {} PROVE FALSE
  BY S \in SUBSET S
<1>2. PICK T \in B : \A U \in B : ~ (U \subseteq T /\ U # T)
  <2> HIDE DEF B
  <2>1. B \subseteq SUBSET S
    BY DEF B
  <2>2. QED
    BY <1>1, <2>1, SmallestSubset
<1>3. T \in SUBSET S /\ ~ \E d \in Nat \ {0} : \A x \in T : f[x] \in Grid(d)
  BY <1>2
<1>4. CASE T = {}
  BY <1>3, <1>4, 1 \in Nat \ {0}
<1>5. CASE T # {}
  <2>1. PICK x : x \in T
    BY <1>5
  <2>2. PICK d \in Nat \ {0} : \A y \in T \ {x} : f[y] \in Grid(d)
    <3>1. T \ {x} \in SUBSET S /\ T \ {x} \notin B
      BY <1>2, <1>3, <2>1
    <3>2. QED
      BY <3>1
  <2>3. PICK e \in Nat \ {0} : Grid(d) \subseteq Grid(e) /\ f[x] \in Grid(e)
    BY <1>3, <2>1, TwoOnGrid
  <2>4. \A y \in T : f[y] \in Grid(e)
    BY <2>2, <2>3
  <2>5. QED
    BY <1>3, <2>4
<1>6. QED
  BY <1>4, <1>5
-----------------------------------------------------------------------------
(***************************************************************************)
(* Sums that are compared, and sums that count                             *)
(***************************************************************************)
LEMMA SumScales ==
  ASSUME NEW S, IsFiniteSet(S), NEW c \in Int, NEW f, NEW h,
         \A x \in S : f[x] \in Int /\ h[x] = c * f[x]
  PROVE  SumOver(h, S) = c * SumOver(f, S)
<1>1. PICK e, a : Picks(e, S) /\ Adds(f, e, S, a)
  BY SumAdds
<1>2. \A s \in SUBSET S : a[s] \in Int
  BY <1>1, AddsType
<1> DEFINE b == [s \in SUBSET S |-> c * a[s]]
<1>3. Adds(h, e, S, b)
  <2> SUFFICES ASSUME NEW s \in SUBSET S
               PROVE  b[s] = IF s = {} THEN 0 ELSE h[e[s]] + b[s \ {e[s]}]
    BY DEF Adds
  <2>1. CASE s = {}
    BY <1>1, <2>1, c * 0 = 0 DEF Adds
  <2>2. CASE s # {}
    <3>1. e[s] \in S /\ s \ {e[s]} \in SUBSET S
      BY <1>1, <2>2 DEF Picks
    <3>2. a[s] = f[e[s]] + a[s \ {e[s]}] /\ a[s \ {e[s]}] \in Int /\ f[e[s]] \in Int /\ h[e[s]] = c * f[e[s]]
      BY <1>1, <1>2, <2>2, <3>1 DEF Adds
    <3>3. \A u, v \in Int : c * (u + v) = c * u + c * v
      OBVIOUS
    <3>4. c * a[s] = h[e[s]] + c * a[s \ {e[s]}]
      BY <3>2, <3>3
    <3>5. QED
      BY <2>2, <3>1, <3>4
  <2>3. QED
    BY <2>1, <2>2
<1>4. \A x \in S : h[x] \in Int
  BY \A u \in Int : c * u \in Int
<1>5. SumOver(f, S) = a[S] /\ SumOver(h, S) = b[S]
  <2> HIDE DEF b
  <2>1. S \in SUBSET S
    OBVIOUS
  <2>2. QED
    BY <1>1, <1>3, <1>4, <2>1, SumIsAny
<1>6. QED
  BY <1>5

LEMMA SumsCompare ==
  ASSUME NEW S, IsFiniteSet(S), NEW f, NEW g,
         \A x \in S : f[x] \in Int /\ g[x] \in Int /\ f[x] <= g[x]
  PROVE  SumOver(f, S) <= SumOver(g, S)
<1> DEFINE d == [x \in S |-> g[x] - f[x]]
<1>1. \A x \in S : d[x] \in Nat /\ d[x] \in Int /\ g[x] = f[x] + d[x]
  OBVIOUS
<1> HIDE DEF d
<1>2. SumOver(g, S) = SumOver(f, S) + SumOver(d, S)
  BY <1>1, SumOfSums
<1>3. SumOver(d, S) \in Nat
  BY <1>1, SumOfNaturals
<1>4. SumOver(f, S) \in Int
  BY SumTakes
<1>5. QED
  BY <1>2, <1>3, <1>4

\* To add ones is to count.
LEMMA SumCounts ==
  ASSUME NEW S, IsFiniteSet(S), NEW T \in SUBSET S, NEW f,
         \A x \in S : f[x] = IF x \in T THEN 1 ELSE 0
  PROVE  SumOver(f, S) = Cardinality(T)
<1> DEFINE B == {s \in SUBSET S : SumOver(f, s) # Cardinality(s \cap T)}
<1>1. SUFFICES ASSUME B # {} PROVE FALSE
  <2>1. S \cap T = T /\ S \in SUBSET S
    OBVIOUS
  <2>2. QED
    BY <1>1, <2>1
<1>2. PICK s \in B : \A t \in B : ~ (t \subseteq s /\ t # s)
  <2> HIDE DEF B
  <2>1. B \subseteq SUBSET S
    BY DEF B
  <2>2. QED
    BY <1>1, <2>1, SmallestSubset
<1>3. s \in SUBSET S /\ SumOver(f, s) # Cardinality(s \cap T) /\ IsFiniteSet(s)
  BY <1>2, FS_Subset
<1>4. \A x \in s : f[x] \in Int
  BY <1>3
<1>5. CASE s = {}
  <2>1. s \cap T = {}
    BY <1>5
  <2>2. SumOver(f, s) = 0
    BY <1>3, <1>4, <1>5, SumTakes
  <2>3. QED
    BY <1>3, <2>1, <2>2, FS_EmptySet
<1>6. CASE s # {}
  <2>1. PICK x : x \in s
    BY <1>6
  <2>2. s \ {x} \in SUBSET S /\ s \ {x} \notin B
    BY <1>2, <1>3, <2>1
  <2>3. SumOver(f, s \ {x}) = Cardinality((s \ {x}) \cap T)
    BY <2>2
  <2>4. SumOver(f, s) = f[x] + SumOver(f, s \ {x})
    BY <1>3, <1>4, <2>1, SumTakes
  <2>5. (s \ {x}) \cap T = (s \cap T) \ {x} /\ IsFiniteSet(s \cap T)
    BY <1>3, FS_Subset
  <2>6. Cardinality((s \cap T) \ {x}) = IF x \in T THEN Cardinality(s \cap T) - 1 ELSE Cardinality(s \cap T)
    BY <2>1, <2>5, FS_RemoveElement
  <2>7. Cardinality(s \cap T) \in Nat
    BY <2>5, FS_CardinalityType
  <2>8. f[x] = IF x \in T THEN 1 ELSE 0
    BY <1>3, <2>1
  <2>9. Cardinality((s \ {x}) \cap T) = IF x \in T THEN Cardinality(s \cap T) - 1 ELSE Cardinality(s \cap T)
    BY <2>5, <2>6
  <2>10. QED
    BY <1>3, <2>3, <2>4, <2>7, <2>8, <2>9
<1>7. QED
  BY <1>5, <1>6

-----------------------------------------------------------------------------
(***************************************************************************)
(* Ranks                                                                   *)
(*                                                                         *)
(* In a strict total order of the numbers from 1 to n, as many are before  *)
(* a number as its rank says, which runs from 0 to n - 1.                  *)
(***************************************************************************)
TotalOrder(before, n) ==
  /\ \A j, k \in 1 .. n : <<j, k>> \in before => <<k, j>> \notin before
  /\ \A j, k \in 1 .. n : j = k \/ <<j, k>> \in before \/ <<k, j>> \in before
  /\ \A i, j, k \in 1 .. n : <<i, j>> \in before /\ <<j, k>> \in before => <<i, k>> \in before

LEMMA RanksAreOneToOne ==
  ASSUME NEW n \in Nat, NEW before, TotalOrder(before, n), NEW rank,
         \A k \in 1 .. n : rank[k] = Cardinality({j \in 1 .. n : <<j, k>> \in before})
  PROVE  /\ \A k \in 1 .. n : rank[k] \in 0 .. n - 1
         /\ \A j, k \in 1 .. n : rank[j] < rank[k] <=> <<j, k>> \in before
         /\ \A r \in 0 .. n - 1 : \E k \in 1 .. n : rank[k] = r
<1> DEFINE Front(k) == {j \in 1 .. n : <<j, k>> \in before}
<1>1. IsFiniteSet(1 .. n) /\ Cardinality(1 .. n) = n
  BY FS_Interval
<1>2. ASSUME NEW k \in 1 .. n
      PROVE  IsFiniteSet(Front(k)) /\ rank[k] = Cardinality(Front(k)) /\ rank[k] \in 0 .. n - 1
  <2>1. Front(k) \in SUBSET (1 .. n) /\ k \notin Front(k)
    BY DEF TotalOrder
  <2>2. rank[k] = Cardinality(Front(k))
    OBVIOUS
  <2> HIDE DEF Front
  <2>3. IsFiniteSet(Front(k)) /\ Cardinality(Front(k)) <= n
        /\ (Cardinality(Front(k)) = n => Front(k) = 1 .. n)
    BY <1>1, <2>1, FS_Subset
  <2>4. Cardinality(Front(k)) \in Nat
    BY <2>3, FS_CardinalityType
  <2>5. QED
    BY <2>1, <2>2, <2>3, <2>4
<1> HIDE DEF Front
<1>7. \A k \in 1 .. n : rank[k] \in Int
  BY <1>2
<1>3. ASSUME NEW j \in 1 .. n, NEW k \in 1 .. n, <<j, k>> \in before
      PROVE  rank[j] < rank[k]
  <2>1. Front(j) \in SUBSET Front(k) /\ j \in Front(k) /\ j \notin Front(j)
    BY <1>3 DEF TotalOrder, Front
  <2>2. Cardinality(Front(j)) <= Cardinality(Front(k)) /\ Cardinality(Front(j)) # Cardinality(Front(k))
    BY <1>2, <2>1, FS_Subset
  <2>3. QED
    BY <1>2, <2>2
<1>4. \A j, k \in 1 .. n : rank[j] < rank[k] <=> <<j, k>> \in before
  <2> SUFFICES ASSUME NEW j \in 1 .. n, NEW k \in 1 .. n, rank[j] < rank[k], <<j, k>> \notin before
               PROVE  FALSE
    BY <1>3
  <2>1. rank[j] \in Int /\ rank[k] \in Int
    BY <1>7
  <2>2. <<k, j>> \in before
    BY <2>1 DEF TotalOrder
  <2>3. QED
    BY <1>3, <2>1, <2>2
<1>5. ASSUME NEW r \in 0 .. n - 1 PROVE \E k \in 1 .. n : rank[k] = r
  <2> DEFINE f == [k \in 1 .. n |-> rank[k]]
  <2>1. f \in [1 .. n -> 0 .. n - 1]
    BY <1>2
  <2>2. ASSUME NEW j \in 1 .. n, NEW k \in 1 .. n, f[j] = f[k] PROVE j = k
    <3>1. ~ (rank[j] < rank[k]) /\ ~ (rank[k] < rank[j])
      BY <1>7, <2>2
    <3>2. QED
      BY <1>4, <3>1 DEF TotalOrder
  <2>3. f \in Injection(1 .. n, 0 .. n - 1)
    <3> HIDE DEF f
    <3>1. QED
      BY <2>1, <2>2 DEF Injection, IsInjective
  <2>4. n - 1 \in Int /\ 0 \in Int /\ ~ (0 > n - 1)
    OBVIOUS
  <2>5. IsFiniteSet(0 .. n - 1) /\ Cardinality(0 .. n - 1) = n - 1 - 0 + 1
    BY <2>4, FS_Interval
  <2>6. f \in Surjection(1 .. n, 0 .. n - 1)
    <3> HIDE DEF f
    <3>1. Cardinality(0 .. n - 1) = Cardinality(1 .. n)
      BY <1>1, <2>5
    <3>2. QED
      BY <2>3, <2>5, <3>1, FS_Injection
  <2>7. PICK k \in 1 .. n : f[k] = r
    <3> HIDE DEF f
    <3>1. QED
      BY <2>6 DEF Surjection
  <2>8. QED
    BY <2>7
<1>6. QED
  BY <1>2, <1>4, <1>5

\* As many have a rank below u as u says.
LEMMA RanksBelow ==
  ASSUME NEW n \in Nat, NEW before, TotalOrder(before, n), NEW rank,
         \A k \in 1 .. n : rank[k] = Cardinality({j \in 1 .. n : <<j, k>> \in before}),
         NEW u \in 0 .. n
  PROVE  Cardinality({k \in 1 .. n : rank[k] < u}) = u
<1> DEFINE low == {k \in 1 .. n : rank[k] < u}
           f == [k \in low |-> rank[k]]
<1>1. /\ \A k \in 1 .. n : rank[k] \in 0 .. n - 1
      /\ \A j, k \in 1 .. n : rank[j] < rank[k] <=> <<j, k>> \in before
      /\ \A r \in 0 .. n - 1 : \E k \in 1 .. n : rank[k] = r
  BY RanksAreOneToOne, Zenon
<1>2. f \in [low -> 0 .. u - 1]
  BY <1>1
<1>3. ASSUME NEW j \in low, NEW k \in low, f[j] = f[k] PROVE j = k
  <2>1. ~ (rank[j] < rank[k]) /\ ~ (rank[k] < rank[j]) /\ j \in 1 .. n /\ k \in 1 .. n
    BY <1>1, <1>3
  <2>2. QED
    BY <1>1, <2>1 DEF TotalOrder
<1>4. ASSUME NEW r \in 0 .. u - 1 PROVE \E k \in low : f[k] = r
  <2>1. PICK k \in 1 .. n : rank[k] = r
    BY <1>1, r \in 0 .. n - 1
  <2>2. k \in low
    BY <2>1
  <2>3. QED
    BY <2>1, <2>2
<1>5. f \in Bijection(low, 0 .. u - 1)
  <2> HIDE DEF f, low
  <2>1. f \in Injection(low, 0 .. u - 1)
    BY <1>2, <1>3 DEF Injection, IsInjective
  <2>2. f \in Surjection(low, 0 .. u - 1)
    BY <1>2, <1>4 DEF Surjection
  <2>3. QED
    BY <2>1, <2>2 DEF Bijection
<1>6. IsFiniteSet(1 .. n)
  BY FS_Interval
<1>7. low \in SUBSET (1 .. n)
  OBVIOUS
<1> HIDE DEF f, low
<1>8. IsFiniteSet(low)
  BY <1>6, <1>7, FS_Subset
<1>9. Cardinality(0 .. u - 1) = Cardinality(low)
  <2>1. ExistsBijection(low, 0 .. u - 1)
    BY <1>5 DEF ExistsBijection
  <2>2. QED
    BY <1>8, <2>1, FS_Bijection
<1>10. Cardinality(0 .. u - 1) = u
  <2>1. u - 1 \in Int /\ 0 \in Int /\ (0 > u - 1 <=> u = 0)
    OBVIOUS
  <2>2. Cardinality(0 .. u - 1) = IF 0 > u - 1 THEN 0 ELSE u - 1 - 0 + 1
    BY <2>1, FS_Interval
  <2>3. QED
    BY <2>1, <2>2
<1>11. QED
  BY <1>9, <1>10 DEF low

-----------------------------------------------------------------------------
(***************************************************************************)
(* Recursion on an interval                                                *)
(***************************************************************************)
\* f starts at base and goes on by step.
Recurs(f, base, step, n) == f[0] = base /\ \A i \in 1 .. n : f[i] = step[<<i, f[i - 1]>>]

\* A function that is defined by recursion on an interval exists.
LEMMA RecursionExists ==
  ASSUME NEW n \in Nat, NEW V, NEW base \in V, NEW step \in [(1 .. n) \X V -> V]
  PROVE  \E f \in [0 .. n -> V] : Recurs(f, base, step, n)
<1> DEFINE Begins(f, m) == f[0] = base /\ \A i \in 1 .. m : f[i] = step[<<i, f[i - 1]>>]
           B == {m \in 0 .. n : ~ \E f \in [0 .. m -> V] : Begins(f, m)}
<1>1. SUFFICES ASSUME B # {} PROVE FALSE
  <2>1. n \in 0 .. n
    OBVIOUS
  <2>2. QED
    BY <1>1, <2>1 DEF Recurs
<1>2. PICK m \in B : \A k \in B : m <= k
  <2> HIDE DEF B
  <2>1. B \subseteq Nat
    BY DEF B
  <2>2. QED
    BY <1>1, <2>1, LeastExists
<1>3. m \in 0 .. n /\ ~ \E f \in [0 .. m -> V] : Begins(f, m)
  BY <1>2
<1>4. CASE m = 0
  <2> DEFINE f == [i \in {0} |-> base]
  <2>1. f \in [0 .. 0 -> V] /\ f[0] = base
    OBVIOUS
  <2> HIDE DEF f
  <2>2. Begins(f, 0)
    BY <2>1
  <2>3. QED
    BY <1>3, <1>4, <2>1, <2>2
<1>5. CASE m # 0
  <2>1. m - 1 \in 0 .. n /\ m \in 1 .. n /\ m - 1 \notin B
    <3> HIDE DEF B
    <3>1. QED
      BY <1>2, <1>3, <1>5
  <2>2. PICK f \in [0 .. m - 1 -> V] : Begins(f, m - 1)
    BY <2>1
  <2> HIDE DEF B
  <2> DEFINE next == step[<<m, f[m - 1]>>]
             h == [i \in 0 .. m |-> IF i = m THEN next ELSE f[i]]
  <2>3. next \in V
    <3>1. m - 1 \in 0 .. m - 1 /\ f[m - 1] \in V
      BY <2>1, <2>2
    <3>2. QED
      BY <2>1, <3>1
  <2>4. h[m] = next /\ \A i \in 0 .. m - 1 : h[i] = f[i] /\ f[i] \in V
    <3> HIDE DEF next
    <3>1. QED
      BY <2>1, <2>2
  <2>5. h \in [0 .. m -> V]
    <3> HIDE DEF next
    <3>1. ASSUME NEW i \in 0 .. m PROVE (IF i = m THEN next ELSE f[i]) \in V
      <4>1. i # m => i \in 0 .. m - 1
        BY <2>1
      <4>2. QED
        BY <2>3, <2>4, <4>1
    <3>2. QED
      BY <3>1
  <2> HIDE DEF h
  <2>6. ASSUME NEW i \in 1 .. m PROVE h[i] = step[<<i, h[i - 1]>>]
    <3>1. i - 1 \in 0 .. m - 1 /\ h[i - 1] = f[i - 1] /\ m \in Int
      BY <2>1, <2>4
    <3>2. CASE i = m
      BY <2>4, <3>1, <3>2 DEF next
    <3>3. CASE i # m
      <4>1. i \in 1 .. m - 1 /\ i \in 0 .. m - 1
        BY <3>1, <3>3
      <4>2. h[i] = f[i] /\ f[i] = step[<<i, f[i - 1]>>]
        BY <2>2, <2>4, <4>1
      <4>3. QED
        BY <3>1, <4>2
    <3>4. QED
      BY <3>2, <3>3
  <2>7. 0 \in 0 .. m - 1 /\ h[0] = base
    BY <2>1, <2>2, <2>4
  <2>8. Begins(h, m)
    BY <2>6, <2>7
  <2>9. QED
    BY <1>3, <2>5, <2>8
<1>6. QED
  BY <1>4, <1>5
===============================================================================
