---------------------------- MODULE SchedulerProofs ----------------------------
(***************************************************************************)
(* The execution scheduler keeps its parents' books, for every set of      *)
(* parents, schedules, observations and requests of the other clients:     *)
(* every step of SchedulerNext is a step the engine could take anyway      *)
(* (AnyStep), so that what MatchingEngineProofs says of the book and the   *)
(* tape holds of a shared engine, and the rest of the invariant relates    *)
(* the parents, the schedule and the child in submit_child to them.  Then  *)
(* the catch-up of the last slice, and, when all children are market       *)
(* orders, the refinement of WorkingOrder and what the reports say of the  *)
(* implementation shortfall.                                               *)
(***************************************************************************)
EXTENDS ExecutionReports, MatchingEngineProofs

\* What a parent's record says of how far the parent is executed.
Standing(q) ==
  /\ q \in ParentRecords
  /\ q.executed <= q.total
  /\ q.status = "Filled" <=> q.executed = q.total
  /\ q.status \in {"Pending", "Active"} => q.executed = 0
  /\ q.status = "PartiallyFilled" => q.executed > 0
  /\ q.status = "Pending" => q.children = {}

\* A parent's children are orders of the book, its fills trades of the tape, and what
\* it has executed is what these trades add up to.
ParentsAddUp ==
  \A p \in Parents :
    /\ parent[p].fills \subseteq DOMAIN trades
    /\ parent[p].children \subseteq active \cup completed
    /\ parent[p].known =>
         /\ Standing(parent[p])
         /\ parent[p].executed = SumOver(TradeQuantity, parent[p].fills)

SlicesOf(p) == {e \in Waiting : e.child.parent = p}

\* The slices stand in the order they are planned for, none of them twice.
SlicesAreOrdered ==
  /\ Sorted(schedule)
  /\ \A j, k \in DOMAIN schedule : schedule[j] = schedule[k] => j = k

\* The slices that wait belong to known parents, which count them.
SlicesAreKnown ==
  /\ SlicesAreOrdered
  /\ IsFiniteSet(Waiting)
  /\ \A e \in Waiting :
       parent[e.child.parent].known /\ e.child.side = parent[e.child.parent].side
  /\ \A p \in Parents : parent[p].known => parent[p].pending = Cardinality(SlicesOf(p))

\* The child in submit_child is an order of the book, in hand or through with the loop;
\* its parent is worked, has room for all of it, and has recorded nothing of it yet.
ChildInHand ==
  submitting # None =>
    LET i == submitting.id
        q == parent[submitting.parent]
    IN
    /\ i \in active \cup completed
    /\ taker \in {i, None} /\ error \in {"none", "overflow"}
    /\ q.known /\ ~IsTerminal(q) /\ q.status # "Pending"
    /\ order[i].side = q.side
    /\ order[i].original <= Unexecuted(q)
    /\ \A p \in Parents : i \notin parent[p].children /\ TradesOf(i) \cap parent[p].fills = {}

\* Between two children, advance_to has no order in the matching loop.
CallsNest == advancing # None /\ submitting = None => taker = None

\* What the scheduler adds to the engine's invariants.
WorkInvariant ==
  /\ SchedulerTypeOK
  /\ ParentsAddUp
  /\ SlicesAreKnown
  /\ ChildInHand
  /\ CallsNest

SchedulerInvariant == BookInvariant /\ TapeInvariant /\ WorkInvariant
-----------------------------------------------------------------------------
(***************************************************************************)
(* What the engine's steps keep.                                           *)
(***************************************************************************)
\* No order is forgotten.
LEMMA OrdersStay ==
  ASSUME BookInvariant, AnyStep
  PROVE  active \cup completed \subseteq active' \cup completed'
<1>1. ASSUME NEW r \in OrderRequests, Submit(r) \/ RejectSubmit(r)
      PROVE  active \cup completed \subseteq active' \cup completed'
  BY <1>1 DEF Submit, AddOrder, RejectSubmit
<1>2. ASSUME NEW i \in Ids, Cancel(i)
      PROVE  active \cup completed \subseteq active' \cup completed'
  BY <1>2 DEF Cancel, CancelOrder, MissingLevel, Complete
<1>3. ASSUME NEW i \in Ids, NEW m \in ModifyRequests, Modify(i, m)
      PROVE  active \cup completed \subseteq active' \cup completed'
  <2>1. ReplaceOrder(i, TargetPrice(i, m), TargetQuantity(i, m))
    BY <1>3 DEF Modify
  <2>2. QED
    BY <2>1 DEF ReplaceOrder, ShrinkInPlace, ShrinkNullLevel, GrowRequeue, ShrinkToExecuted,
       Reprice, MissingLevel, Complete
<1>4. CASE Match
  <2>1. CASE MatchFront
    BY <2>1 DEF MatchFront
  <2>2. CASE CompleteTaker \/ CancelRemainder \/ Rest \/ RestOverflows
    BY <2>2 DEF CompleteTaker, CancelRemainder, Rest, RestOverflows, Complete
  <2>3. QED
    BY <1>4, <2>1, <2>2 DEF Match, Matching
<1>5. CASE Refuse \/ UNCHANGED vars
  BY <1>5 DEF Refuse, vars
<1>6. QED
  BY <1>1, <1>2, <1>3, <1>4, <1>5 DEF AnyStep

\* No trade is forgotten or changed: the sums over recorded trades stay.
LEMMA TapeStays ==
  ASSUME BookInvariant, BookInvariant', AnyStep
  PROVE  /\ DOMAIN trades \subseteq DOMAIN trades'
         /\ \A i : TradesOf(i)' \cap DOMAIN trades = TradesOf(i)
         /\ \A F : F \subseteq DOMAIN trades =>
              SumOver(TradeQuantity', F) = SumOver(TradeQuantity, F)
<1>1. SeqX!IsPrefix(trades, trades')
  BY EveryStepIsSound DEF StepIsSound, HistoryStep
<1>2. TypeOK /\ TypeOK'
  BY DEF BookInvariant
<1>3. TapeFacts /\ TapeFacts'
  BY <1>2, TapeTypes, TapeTypesNext
<1>4. /\ trades \in Seq(Trades) /\ DOMAIN trades = 1 .. Len(trades) /\ Len(trades) \in Nat
      /\ trades' \in Seq(Trades) /\ DOMAIN trades' = 1 .. Len(trades') /\ Len(trades') \in Nat
  BY <1>3 DEF TapeFacts
<1>5. Len(trades) <= Len(trades') /\ SubSeq(trades, 1, Len(trades)) = SubSeq(trades', 1, Len(trades))
  BY <1>1 DEF SeqX!IsPrefix
<1>6. DOMAIN trades \subseteq DOMAIN trades'
  BY <1>4, <1>5
<1>7. \A k \in DOMAIN trades : trades'[k] = trades[k]
  <2> SUFFICES ASSUME NEW k \in 1 .. Len(trades) PROVE trades'[k] = trades[k]
    BY <1>4
  <2>1. SubSeq(trades, 1, Len(trades))[k] = trades[k]
    BY <1>4
  <2>2. SubSeq(trades', 1, Len(trades))[k] = trades'[k]
    BY <1>4, <1>5
  <2>3. QED
    BY <1>5, <2>1, <2>2
<1>8. \A i : TradesOf(i)' \cap DOMAIN trades = TradesOf(i)
  BY <1>6, <1>7 DEF TradesOf
<1>9. ASSUME NEW F, F \subseteq DOMAIN trades
      PROVE  SumOver(TradeQuantity', F) = SumOver(TradeQuantity, F)
  <2>1. IsFiniteSet(F)
    <3>1. IsFiniteSet(1 .. Len(trades))
      BY <1>4, FS_Interval
    <3>2. QED
      BY <1>4, <1>9, <3>1, FS_Subset
  <2>2. \A k \in F : TradeQuantity[k] \in Int /\ TradeQuantity'[k] = TradeQuantity[k]
    <3>1. \A k \in DOMAIN trades : TradeQuantity[k] \in Nat
      BY <1>3 DEF TapeFacts
    <3>2. \A k \in DOMAIN trades : TradeQuantity'[k] = TradeQuantity[k]
      BY <1>6, <1>7 DEF TradeQuantity
    <3>3. QED
      BY <1>9, <3>1, <3>2
  <2>3. QED
    BY <2>1, <2>2, SumSame
<1>10. QED
  BY <1>6, <1>8, <1>9

\* What the loop leaves alone of every order, and of the call.
LEMMA LoopKeeps ==
  ASSUME BookInvariant, Match
  PROVE  /\ \A i \in Ids : /\ order'[i].original = order[i].original
                           /\ order'[i].side = order[i].side /\ order'[i].type = order[i].type
         /\ taker' \in {taker, None} /\ error' \in {error, "overflow"}
<1>1. order \in [Ids -> Orders] /\ (taker # None => taker \in Ids)
  BY DEF BookInvariant, TypeOK
<1>2. CASE MatchFront
  <2>1. PICK maker \in active \ {taker}, trade \in Trades :
          \A i \in Ids : order'[i] = IF i \in {maker, taker}
                                    THEN Fill(order[i], trade.quantity, trade.price)
                                    ELSE order[i]
    BY <1>2, PartiesOfFill DEF Match
  <2>2. \A i \in Ids : order[i] \in Orders
    BY <1>1
  <2>3. \A o \in Orders : \A q, p :
          /\ Fill(o, q, p).original = o.original
          /\ Fill(o, q, p).side = o.side /\ Fill(o, q, p).type = o.type
    BY DEF Fill, Orders
  <2>4. taker' = taker /\ error' = error
    BY <1>2 DEF MatchFront
  <2>5. QED
    BY <2>1, <2>2, <2>3, <2>4
<1>3. CASE CompleteTaker
  BY <1>3 DEF CompleteTaker
<1>4. CASE CancelRemainder
  <2>1. order' = [order EXCEPT ![taker] = Cancelled(@)] /\ taker' = None /\ error' = error
    BY <1>4 DEF CancelRemainder
  <2>2. \A o \in Orders : /\ Cancelled(o).original = o.original /\ Cancelled(o).side = o.side
                          /\ Cancelled(o).type = o.type
    BY DEF Cancelled, Orders
  <2>3. QED
    BY <1>1, <2>1, <2>2
<1>5. CASE Rest
  BY <1>5 DEF Rest
<1>6. CASE RestOverflows
  BY <1>6 DEF RestOverflows
<1>7. QED
  BY <1>2, <1>3, <1>4, <1>5, <1>6 DEF Match, Matching
-----------------------------------------------------------------------------
(***************************************************************************)
(* submit_child.                                                           *)
(***************************************************************************)
\* A child goes in hand: its id was not used, and it has not traded.
NewInHand(c, quantity) ==
  /\ c.id \in Ids /\ c.id \notin active \cup completed
  /\ c.id \in active' /\ taker' = c.id /\ error' = "none"
  /\ quantity # 0
  /\ order'[c.id].original = quantity /\ order'[c.id].remaining = quantity
  /\ order'[c.id].side = c.side /\ order'[c.id].type = c.type
  /\ \A i \in active \cup completed : order'[i] = order[i]
  /\ UNCHANGED <<completed, trades>>
  /\ TradesOf(c.id)' = {}

\* A submission of the scheduler is a step of the engine: it puts the child in hand,
\* or is refused and ends the call.
LEMMA SendChildStep ==
  ASSUME BookInvariant, TapeInvariant, NEW c \in Children, NEW quantity \in Quantities,
         SendChild(c, quantity)
  PROVE  /\ AnyStep
         /\ \/ NewInHand(c, quantity) /\ submitting' = c /\ UNCHANGED advancing
            \/ advancing' = None /\ UNCHANGED <<submitting, order, active, completed, trades, taker>>
<1> DEFINE r == [id |-> c.id, side |-> c.side, type |-> c.type, price |-> c.price,
                 quantity |-> quantity]
<1>1. r \in OrderRequests
  BY DEF Children, OrderRequests
<1>2. \/ Submit(r) /\ submitting' = c /\ UNCHANGED advancing
      \/ RejectSubmit(r) /\ advancing' = None /\ UNCHANGED submitting
  BY DEF SendChild
<1>3. /\ r.id = c.id /\ r.side = c.side /\ r.type = c.type /\ r.quantity = quantity
      /\ c.id \in Ids \cup {ZeroId}
  BY DEF Children
<1> HIDE DEF r
<1>4. AnyStep
  BY <1>1, <1>2 DEF AnyStep
<1>5. CASE RejectSubmit(r) /\ advancing' = None /\ UNCHANGED submitting
  BY <1>4, <1>5 DEF RejectSubmit
<1>6. CASE Submit(r) /\ submitting' = c /\ UNCHANGED advancing
  <2> DEFINE price == IF r.type = "Limit" THEN r.price ELSE 0
             o == ActivatedOrder(r.side, r.type, price, r.quantity, nextSequence)
  <2>1. /\ r.id \notin active \cup completed /\ r.id # ZeroId /\ r.quantity # 0
        /\ order' = [order EXCEPT ![r.id] = o]
        /\ active' = active \cup {r.id} /\ taker' = r.id /\ error' = "none"
        /\ UNCHANGED <<completed, trades>>
    BY <1>6 DEF Submit, Acceptable, AddOrder, HasUsedOrderId
  <2>2. c.id \in Ids /\ order \in [Ids -> Orders]
    BY <1>3, <2>1 DEF BookInvariant, TypeOK
  <2>3. /\ o.original = quantity /\ o.remaining = quantity /\ o.side = c.side /\ o.type = c.type
    BY <1>3 DEF ActivatedOrder
  <2> HIDE DEF o
  <2>4. order'[c.id] = o /\ \A i \in active \cup completed : order'[i] = order[i]
    BY <1>3, <2>1, <2>2 DEF BookInvariant, TypeOK
  <2>5. TradesOf(c.id) = {}
    BY <1>3, <2>1 DEF TapeInvariant, TradesAreKnown, TradesOf
  <2>6. TradesOf(c.id)' = {}
    BY <2>1, <2>5 DEF TradesOf
  <2>7. NewInHand(c, quantity)
    BY <1>3, <2>1, <2>2, <2>3, <2>4, <2>6 DEF NewInHand
  <2>8. QED
    BY <1>4, <1>6, <2>7
<1>7. QED
  BY <1>2, <1>5, <1>6

\* The lesser of two quantities is one.
LEMMA LeastType ==
  ASSUME NEW a \in Nat, NEW b \in Quantities
  PROVE  Least(a, b) \in Quantities /\ Least(a, b) <= b
BY MaxQuantityAssumption DEF Least, Quantities

\* What is left of a parent is a Quantity.
LEMMA UnexecutedType ==
  ASSUME NEW q, Standing(q)
  PROVE  Unexecuted(q) \in Quantities
<1>1. q.total \in Quantities /\ q.executed \in Quantities /\ q.executed <= q.total
  BY DEF Standing, ParentRecords
<1>2. QED
  BY <1>1, MaxQuantityAssumption DEF Unexecuted, Quantities

\* No slice is larger than what is left of its parent.
LEMMA SliceQuantityType ==
  ASSUME NEW q, Standing(q), NEW planned \in Quantities
  PROVE  SliceQuantity(q, planned) \in Quantities /\ SliceQuantity(q, planned) <= Unexecuted(q)
<1>1. Unexecuted(q) \in Quantities /\ Unexecuted(q) \in Nat /\ planned \in Nat
  BY UnexecutedType, MaxQuantityAssumption DEF Quantities
<1>2. Least(planned, Unexecuted(q)) \in Quantities /\ Least(planned, Unexecuted(q)) <= Unexecuted(q)
  BY <1>1, LeastType
<1>3. QED
  BY <1>1, <1>2 DEF SliceQuantity

\* Nor is what participation asks for, whatever the rate.
LEMMA POVQuantityType ==
  ASSUME NEW q, Standing(q), NEW o \in Observations
  PROVE  POVQuantity(q, o) \in Quantities /\ POVQuantity(q, o) <= Unexecuted(q)
<1>1. o.num \in Nat \ {0} /\ o.den \in Nat \ {0} /\ o.volume \in Quantities
  BY SchedulerAssumption
<1>2. o.num * o.volume \in Nat
  <2>1. o.num \in Nat /\ o.volume \in Nat
    BY <1>1, MaxQuantityAssumption DEF Quantities
  <2>2. \A a, b \in Nat : a * b \in Nat
    OBVIOUS
  <2>3. QED
    BY <2>1, <2>2
<1>3. (o.num * o.volume) \div o.den \in Nat
  <2>1. \A a \in Nat, d \in Nat \ {0} : a \div d \in Nat
    OBVIOUS
  <2>2. QED
    BY <1>1, <1>2, <2>1
<1>4. Unexecuted(q) \in Quantities
  BY UnexecutedType
<1>5. QED
  BY <1>3, <1>4, LeastType DEF POVQuantity
-----------------------------------------------------------------------------
(***************************************************************************)
(* The operations of a parent order.                                       *)
(***************************************************************************)
\* What an operation that records no execution leaves alone.
SameBooks(q, new) ==
  /\ new.known = q.known /\ new.side = q.side /\ new.total = q.total
  /\ new.executed = q.executed /\ new.children = q.children /\ new.fills = q.fills

\* So is the record of a new parent.
LEMMA PendingStands ==
  ASSUME NEW o \in Offers, NEW n \in Nat
  PROVE  LET q == PendingParent(o.side, o.total, o.start, o.end, n)
         IN  /\ Standing(q) /\ q.known /\ q.side = o.side /\ q.pending = n
             /\ q.executed = 0 /\ q.children = {} /\ q.fills = {}
<1> DEFINE q == PendingParent(o.side, o.total, o.start, o.end, n)
<1>1. /\ o.side \in Sides /\ o.total \in Quantities \ {0} /\ o.start \in Times /\ o.end \in Times
  BY SchedulerAssumption
<1>2. 0 \in Quantities /\ o.total > 0
  BY <1>1, MaxQuantityAssumption DEF Quantities
<1>3. q \in ParentRecords
  BY <1>1, <1>2 DEF PendingParent, ParentRecords, ParentStatuses
<1>4. /\ q.known /\ q.side = o.side /\ q.pending = n /\ q.executed = 0 /\ q.total = o.total
      /\ q.children = {} /\ q.fills = {} /\ q.status = "Pending"
  BY DEF PendingParent
<1>5. o.total \in Nat
  BY <1>1, MaxQuantityAssumption DEF Quantities
<1> HIDE DEF q
<1>6. Standing(q)
  BY <1>2, <1>3, <1>4, <1>5 DEF Standing
<1>7. QED
  BY <1>4, <1>6 DEF q

\* One slice less to go changes nothing else of a parent.
LEMMA CountedDownStands ==
  ASSUME NEW q, Standing(q), NEW n \in Nat
  PROVE  LET new == [q EXCEPT !.pending = n]
         IN  Standing(new) /\ SameBooks(q, new) /\ new.pending = n /\ new.status = q.status
BY DEF Standing, ParentRecords, SameBooks

\* An activated parent has the same books, and is worked.
LEMMA ActivatedStands ==
  ASSUME NEW q, Standing(q), ~IsTerminal(q)
  PROVE  LET new == Activated(q)
         IN  /\ Standing(new) /\ SameBooks(q, new) /\ new.pending = q.pending
             /\ ~IsTerminal(new) /\ new.status # "Pending" /\ new.observed = q.observed
BY DEF Standing, ParentRecords, ParentStatuses, SameBooks, Activated, IsTerminal

\* Observed volume is counted within a Quantity.
LEMMA CountedStands ==
  ASSUME NEW q, Standing(q), ~IsTerminal(q), NEW o \in Observations,
         o.volume <= MaxQuantity - q.observed
  PROVE  LET new == Counted(q, o)
         IN  /\ Standing(new) /\ SameBooks(q, new) /\ new.pending = q.pending
             /\ ~IsTerminal(new) /\ new.status # "Pending"
<1> DEFINE a == Activated(q)
<1>1. /\ Standing(a) /\ SameBooks(q, a) /\ a.pending = q.pending
      /\ ~IsTerminal(a) /\ a.status # "Pending" /\ a.observed = q.observed
  BY ActivatedStands
<1>2. a.observed + o.volume \in Quantities
  <2>1. a.observed \in Quantities /\ o.volume \in Quantities
    BY <1>1, SchedulerAssumption DEF Standing, ParentRecords
  <2>2. QED
    BY <1>1, <2>1, MaxQuantityAssumption DEF Quantities
<1> HIDE DEF a
<1>3. LET new == [a EXCEPT !.observed = @ + o.volume]
      IN  /\ Standing(new) /\ SameBooks(a, new) /\ new.pending = a.pending
          /\ new.status = a.status
  BY <1>1, <1>2 DEF Standing, ParentRecords, SameBooks
<1>4. QED
  BY <1>1, <1>3 DEF a, Counted, SameBooks, IsTerminal

\* A cancel or an expiry ends a parent with the books it has.
LEMMA EndedStands ==
  ASSUME NEW q, Standing(q), ~IsTerminal(q), NEW status \in {"Cancelled", "Expired"}
  PROVE  LET new == [q EXCEPT !.status = status]
         IN  Standing(new) /\ SameBooks(q, new) /\ new.pending = q.pending
BY DEF Standing, ParentRecords, ParentStatuses, SameBooks, IsTerminal

\* A parent with the execution of child i, the trades T, recorded.
Recorded(q, f, i, T) == [RecordFill(q, f) EXCEPT !.children = @ \cup {i}, !.fills = @ \cup T]

\* The status an execution leaves follows from what remains.
LEMMA RecordedStands ==
  ASSUME NEW q, Standing(q), ~IsTerminal(q), q.status # "Pending",
         NEW f \in Nat, f <= Unexecuted(q), NEW i \in Ids, NEW T \in SUBSET Nat
  PROVE  LET new == Recorded(q, f, i, T)
         IN  /\ Standing(new)
             /\ new.known = q.known /\ new.side = q.side /\ new.pending = q.pending
             /\ new.executed = q.executed + f
             /\ new.children = q.children \cup {i} /\ new.fills = q.fills \cup T
<1> DEFINE s == IF f = 0 THEN q.status
                ELSE IF f = Unexecuted(q) THEN "Filled" ELSE "PartiallyFilled"
           r == [q EXCEPT !.executed = @ + f, !.status = s,
                          !.children = @ \cup {i}, !.fills = @ \cup T]
<1>1. q \in ParentRecords /\ q.total \in Quantities /\ q.executed \in Quantities
  BY DEF Standing, ParentRecords
<1>2. /\ q.total \in Nat /\ q.executed \in Nat /\ q.total <= MaxQuantity /\ MaxQuantity \in Nat
      /\ q.executed <= q.total /\ f <= q.total - q.executed
  BY <1>1, MaxQuantityAssumption DEF Quantities, Standing, Unexecuted
<1>3. q.executed + f \in Quantities /\ q.executed + f <= q.total
  BY <1>2 DEF Quantities
<1>4. /\ s \in ParentStatuses /\ s # "Pending"
      /\ s = "Filled" <=> q.executed + f = q.total
      /\ s \in {"Pending", "Active"} => q.executed + f = 0
      /\ s = "PartiallyFilled" => q.executed + f > 0
  <2>1. q.status \in ParentStatuses /\ q.status \notin {"Pending", "Filled", "Cancelled", "Expired"}
    BY <1>1 DEF ParentRecords, IsTerminal
  <2>2. q.executed # q.total /\ (q.status = "Active" => q.executed = 0)
        /\ (q.status = "PartiallyFilled" => q.executed > 0)
    BY <2>1 DEF Standing
  <2>3. QED
    BY <1>2, <2>1, <2>2 DEF ParentStatuses, Unexecuted
<1> HIDE DEF s
<1>5. r \in ParentRecords /\ r.total = q.total /\ r.status = s
      /\ r.known = q.known /\ r.side = q.side /\ r.pending = q.pending
      /\ r.executed = q.executed + f
      /\ r.children = q.children \cup {i} /\ r.fills = q.fills \cup T
  BY <1>1, <1>3, <1>4 DEF ParentRecords
<1>6. Standing(r)
  BY <1>3, <1>4, <1>5 DEF Standing
<1>7. r = Recorded(q, f, i, T)
  BY <1>1 DEF RecordFill, Recorded, s, ParentRecords
<1>8. QED
  BY <1>5, <1>6, <1>7
-----------------------------------------------------------------------------
(***************************************************************************)
(* What steps keep of the parents' books and of the schedule.              *)
(***************************************************************************)
\* A step that records nothing, whatever the engine does in it.
LEMMA BooksStay ==
  ASSUME BookInvariant, BookInvariant', ParentsAddUp, AnyStep,
         \A p \in Parents : /\ SameBooks(parent[p], parent'[p])
                            /\ parent[p].known => Standing(parent'[p])
  PROVE  ParentsAddUp'
<1>1. /\ DOMAIN trades \subseteq DOMAIN trades'
      /\ \A F : F \subseteq DOMAIN trades => SumOver(TradeQuantity', F) = SumOver(TradeQuantity, F)
      /\ active \cup completed \subseteq active' \cup completed'
  BY TapeStays, OrdersStay
<1> SUFFICES ASSUME NEW p \in Parents
             PROVE  /\ parent'[p].fills \subseteq DOMAIN trades'
                    /\ parent'[p].children \subseteq active' \cup completed'
                    /\ parent'[p].known =>
                         /\ Standing(parent'[p])
                         /\ parent'[p].executed = SumOver(TradeQuantity', parent'[p].fills)
  BY DEF ParentsAddUp, Standing, ParentRecords
<1>2. /\ parent[p].fills \subseteq DOMAIN trades
      /\ parent[p].children \subseteq active \cup completed
      /\ parent[p].known => parent[p].executed = SumOver(TradeQuantity, parent[p].fills)
  BY DEF ParentsAddUp
<1>3. /\ parent'[p].fills = parent[p].fills /\ parent'[p].children = parent[p].children
      /\ parent'[p].executed = parent[p].executed /\ parent'[p].known = parent[p].known
  BY DEF SameBooks
<1>4. parent'[p].known => Standing(parent'[p])
  BY <1>3
<1>5. SumOver(TradeQuantity', parent[p].fills) = SumOver(TradeQuantity, parent[p].fills)
  BY <1>1, <1>2
<1>6. QED
  BY <1>1, <1>2, <1>3, <1>4, <1>5

\* What waits is a child, with its place among its parent's.
LEMMA WaitingType ==
  ASSUME SchedulerTypeOK
  PROVE  /\ \A e \in Waiting : e.child \in Children /\ e.slot \in Nat
         /\ \A k \in DOMAIN schedule : schedule[k] \in Waiting
         /\ Len(schedule) \in Nat /\ DOMAIN schedule = 1 .. Len(schedule)
<1> DEFINE Slices == [child : Children, slot : Nat]
<1>1. schedule \in Seq(Slices)
  BY DEF SchedulerTypeOK
<1> HIDE DEF Slices
<1>2. /\ Len(schedule) \in Nat /\ DOMAIN schedule = 1 .. Len(schedule)
      /\ \A k \in DOMAIN schedule : schedule[k] \in Slices
  BY <1>1
<1>3. \A e \in Slices : e.child \in Children /\ e.slot \in Nat
  BY DEF Slices
<1>4. QED
  BY <1>2, <1>3 DEF Waiting, SeqX!ToSet

\* A slice that is taken out leaves the others in their order.
LEMMA SliceLeaves ==
  ASSUME SchedulerTypeOK, SlicesAreOrdered,
         NEW k \in DOMAIN schedule, schedule' = SeqX!RemoveAt(schedule, k)
  PROVE  /\ Waiting' = Waiting \ {schedule[k]}
         /\ schedule' \in Seq([child : Children, slot : Nat])
         /\ SlicesAreOrdered'
<1> DEFINE Slices == [child : Children, slot : Nat]
           n == Len(schedule)
           s == SubSeq(schedule, 1, k - 1)
           t == SubSeq(schedule, k + 1, n)
           at(j) == IF j < k THEN j ELSE j + 1
<1>0. schedule \in Seq(Slices)
  BY DEF SchedulerTypeOK
<1> HIDE DEF Slices
<1>1. /\ n \in Nat /\ DOMAIN schedule = 1 .. n /\ k \in 1 .. n
      /\ \A j \in 1 .. n : schedule[j] \in Slices
  BY <1>0
<1>2. /\ s \in Seq(Slices) /\ Len(s) = k - 1 /\ \A j \in 1 .. k - 1 : s[j] = schedule[j]
  <2>1. \A j \in 1 .. k - 1 : schedule[j] \in Slices
    BY <1>1
  <2>2. QED
    BY <1>1, <2>1, SubSeqProperties, Z3
<1>3. /\ t \in Seq(Slices) /\ Len(t) = n - k
      /\ \A j \in 1 .. n - k : t[j] = schedule[k + j]
  <2>1. \A j \in k + 1 .. n : schedule[j] \in Slices
    BY <1>1
  <2>2. QED
    BY <1>1, <2>1, SubSeqProperties, Z3
<1> HIDE DEF s, t
<1>4. schedule' = s \o t
  BY DEF SeqX!RemoveAt, s, t
<1>5. /\ schedule' \in Seq(Slices) /\ Len(schedule') = n - 1
      /\ \A j \in 1 .. n - 1 : schedule'[j] = IF j <= k - 1 THEN s[j] ELSE t[j - (k - 1)]
  <2>1. /\ s \o t \in Seq(Slices) /\ Len(s \o t) = Len(s) + Len(t)
        /\ \A j \in 1 .. Len(s) + Len(t) :
             (s \o t)[j] = IF j <= Len(s) THEN s[j] ELSE t[j - Len(s)]
    BY <1>2, <1>3, ConcatProperties
  <2>2. Len(s) + Len(t) = n - 1
    BY <1>1, <1>2, <1>3
  <2>3. QED
    BY <1>2, <1>4, <2>1, <2>2
<1>6. DOMAIN schedule' = 1 .. n - 1
  BY <1>1, <1>5
<1>7. \A j \in 1 .. n - 1 : /\ schedule'[j] = schedule[at(j)]
                           /\ at(j) \in 1 .. n /\ at(j) # k
  <2> SUFFICES ASSUME NEW j \in 1 .. n - 1
               PROVE  schedule'[j] = schedule[at(j)] /\ at(j) \in 1 .. n /\ at(j) # k
    OBVIOUS
  <2>1. CASE j < k
    <3>1. j <= k - 1 /\ j \in 1 .. k - 1 /\ at(j) = j
      BY <1>1, <2>1
    <3>2. QED
      BY <1>1, <1>2, <1>5, <3>1
  <2>2. CASE ~(j < k)
    <3>1. /\ ~(j <= k - 1) /\ j - (k - 1) \in 1 .. n - k /\ k + (j - (k - 1)) = j + 1
          /\ at(j) = j + 1 /\ j + 1 \in 1 .. n /\ j + 1 # k
      BY <1>1, <2>2
    <3>2. schedule'[j] = t[j - (k - 1)] /\ t[j - (k - 1)] = schedule[k + (j - (k - 1))]
      BY <1>3, <1>5, <3>1
    <3>3. QED
      BY <3>1, <3>2
  <2>3. QED
    BY <2>1, <2>2
<1>8. \A i, j \in 1 .. n - 1 : (i < j => at(i) < at(j)) /\ (at(i) = at(j) => i = j)
  BY <1>1
<1>9. \A m \in (1 .. n) \ {k} : \E j \in 1 .. n - 1 : at(j) = m
  <2> SUFFICES ASSUME NEW m \in (1 .. n) \ {k} PROVE \E j \in 1 .. n - 1 : at(j) = m
    OBVIOUS
  <2>1. CASE m < k
    <3>1. m \in 1 .. n - 1 /\ at(m) = m
      BY <1>1, <2>1
    <3>2. QED
      BY <3>1
  <2>2. CASE m > k
    <3>1. m - 1 \in 1 .. n - 1 /\ at(m - 1) = m
      BY <1>1, <2>2
    <3>2. QED
      BY <3>1
  <2>3. QED
    BY <1>1, <2>1, <2>2
<1> HIDE DEF at
<1>10. Waiting' = Waiting \ {schedule[k]}
  <2>1. ASSUME NEW e \in Waiting' PROVE e \in Waiting \ {schedule[k]}
    <3>1. PICK j \in 1 .. n - 1 : e = schedule'[j]
      BY <1>6 DEF Waiting, SeqX!ToSet
    <3>2. e = schedule[at(j)] /\ at(j) \in DOMAIN schedule /\ at(j) # k
      BY <1>1, <1>7, <3>1
    <3>3. QED
      BY <3>2 DEF SlicesAreOrdered, Waiting, SeqX!ToSet
  <2>2. ASSUME NEW e \in Waiting, e # schedule[k] PROVE e \in Waiting'
    <3>1. PICK m \in DOMAIN schedule : e = schedule[m]
      BY DEF Waiting, SeqX!ToSet
    <3>2. PICK j \in 1 .. n - 1 : at(j) = m
      BY <1>1, <1>9, <2>2, <3>1
    <3>3. e = schedule'[j] /\ j \in DOMAIN schedule'
      BY <1>6, <1>7, <3>1, <3>2
    <3>4. QED
      BY <3>3 DEF Waiting, SeqX!ToSet
  <2>3. QED
    BY <2>1, <2>2
<1>11. SlicesAreOrdered'
  <2>1. ASSUME NEW i \in DOMAIN schedule', NEW j \in DOMAIN schedule', i < j
        PROVE  ~Precedes(schedule'[j].child, schedule'[i].child)
    <3>1. /\ at(i) \in DOMAIN schedule /\ at(j) \in DOMAIN schedule /\ at(i) < at(j)
          /\ schedule'[i] = schedule[at(i)] /\ schedule'[j] = schedule[at(j)]
      BY <1>1, <1>6, <1>7, <1>8, <2>1
    <3>2. QED
      BY <3>1 DEF SlicesAreOrdered, Sorted
  <2>2. ASSUME NEW i \in DOMAIN schedule', NEW j \in DOMAIN schedule', schedule'[i] = schedule'[j]
        PROVE  i = j
    BY <1>1, <1>6, <1>7, <1>8, <2>2 DEF SlicesAreOrdered
  <2>3. QED
    BY <2>1, <2>2 DEF SlicesAreOrdered, Sorted, Precedes
<1>12. QED
  BY <1>5, <1>10, <1>11 DEF Slices

\* A step that takes no slice.
LEMMA SlicesStay ==
  ASSUME SchedulerTypeOK, SlicesAreKnown, schedule' = schedule,
         \A p \in Parents : /\ parent'[p].known = parent[p].known
                            /\ parent'[p].side = parent[p].side
                            /\ parent'[p].pending = parent[p].pending
  PROVE  SlicesAreKnown'
<1>1. \A e \in Waiting : e.child.parent \in Parents
  BY WaitingType DEF Children
<1>2. Waiting' = Waiting /\ \A p : SlicesOf(p)' = SlicesOf(p)
  BY DEF Waiting, SlicesOf
<1>3. SlicesAreOrdered'
  BY DEF SlicesAreKnown, SlicesAreOrdered, Sorted, Precedes
<1>4. QED
  BY <1>1, <1>2, <1>3 DEF SlicesAreKnown

\* The parent of a slice has counted it.
LEMMA SliceIsCounted ==
  ASSUME SchedulerTypeOK, SlicesAreKnown, NEW e \in Waiting
  PROVE  /\ e.child.parent \in Parents /\ parent[e.child.parent].known
         /\ parent[e.child.parent].pending - 1 \in Nat
         /\ IsFiniteSet(SlicesOf(e.child.parent))
<1> DEFINE p == e.child.parent
<1>1. p \in Parents
  BY WaitingType DEF Children
<1>2. IsFiniteSet(SlicesOf(p)) /\ e \in SlicesOf(p)
  BY FS_Subset DEF SlicesAreKnown, SlicesOf
<1>3. Cardinality(SlicesOf(p)) \in Nat /\ Cardinality(SlicesOf(p)) # 0
  BY <1>2, FS_CardinalityType, FS_EmptySet
<1>4. parent[p].known /\ parent[p].pending = Cardinality(SlicesOf(p))
  BY <1>1 DEF SlicesAreKnown
<1>5. QED
  BY <1>1, <1>2, <1>3, <1>4

\* A slice is taken, and no longer counted.
LEMMA SliceIsTaken ==
  ASSUME SchedulerTypeOK, SlicesAreKnown,
         NEW k \in DOMAIN schedule, schedule' = SeqX!RemoveAt(schedule, k),
         \A p \in Parents :
           /\ parent'[p].known = parent[p].known /\ parent'[p].side = parent[p].side
           /\ parent'[p].pending = IF p = schedule[k].child.parent THEN parent[p].pending - 1
                                                                   ELSE parent[p].pending
  PROVE  SlicesAreKnown'
<1> DEFINE e == schedule[k]
<1>0. e \in Waiting /\ Waiting' = Waiting \ {e} /\ SlicesAreOrdered'
  BY SliceLeaves, WaitingType DEF SlicesAreKnown
<1> HIDE DEF e
<1>1. \A f \in Waiting : f.child.parent \in Parents
  BY WaitingType DEF Children
<1>2. IsFiniteSet(Waiting')
  BY <1>0, FS_RemoveElement DEF SlicesAreKnown
<1>3. ASSUME NEW p \in Parents, parent[p].known
      PROVE  parent'[p].pending = Cardinality(SlicesOf(p)')
  <2>1. SlicesOf(p)' = SlicesOf(p) \ {e} /\ IsFiniteSet(SlicesOf(p))
    BY <1>0, FS_Subset DEF SlicesOf, SlicesAreKnown
  <2>2. e \in SlicesOf(p) <=> p = e.child.parent
    BY <1>0 DEF SlicesOf
  <2>3. parent[p].pending = Cardinality(SlicesOf(p))
    BY <1>3 DEF SlicesAreKnown
  <2>4. Cardinality(SlicesOf(p) \ {e}) =
          IF e \in SlicesOf(p) THEN Cardinality(SlicesOf(p)) - 1 ELSE Cardinality(SlicesOf(p))
    BY <2>1, FS_RemoveElement
  <2>5. QED
    BY <2>1, <2>2, <2>3, <2>4 DEF e
<1>4. QED
  BY <1>0, <1>1, <1>2, <1>3 DEF SlicesAreKnown

\* A schedule has as many entries as children.
LEMMA EntriesAreCounted ==
  ASSUME NEW o \in Offers
  PROVE  /\ IsFiniteSet(Entries(o)) /\ Cardinality(Entries(o)) = Len(o.schedule)
         /\ \A e \in Entries(o) : /\ e.slot \in DOMAIN o.schedule /\ e.child = o.schedule[e.slot]
                                  /\ e.child \in Children /\ e.slot \in Nat
<1> DEFINE s == o.schedule
           f == [k \in 1 .. Len(s) |-> [child |-> s[k], slot |-> k]]
<1>1. s \in Seq(Children) /\ DOMAIN s = 1 .. Len(s) /\ Len(s) \in Nat
  BY SchedulerAssumption
<1>2. \A k \in DOMAIN s : s[k] \in Children
  BY <1>1
<1>3. \A e \in Entries(o) : /\ e.slot \in DOMAIN s /\ e.child = s[e.slot]
                            /\ e.child \in Children /\ e.slot \in Nat
  BY <1>1, <1>2 DEF Entries
<1>4. f \in Bijection(1 .. Len(s), Entries(o))
  <2>1. f \in [1 .. Len(s) -> Entries(o)]
    BY <1>1 DEF Entries
  <2>2. \A a, b \in 1 .. Len(s) : f[a] = f[b] => a = b
    <3> SUFFICES ASSUME NEW a \in 1 .. Len(s), NEW b \in 1 .. Len(s), f[a] = f[b] PROVE a = b
      OBVIOUS
    <3>1. f[a].slot = a /\ f[b].slot = b
      OBVIOUS
    <3>2. QED
      BY <3>1
  <2>3. \A e \in Entries(o) : \E k \in 1 .. Len(s) : f[k] = e
    BY <1>1 DEF Entries
  <2>4. QED
    BY <2>1, <2>2, <2>3 DEF Bijection, Injection, Surjection, IsInjective
<1>5. IsFiniteSet(1 .. Len(s)) /\ Cardinality(1 .. Len(s)) = Len(s)
  BY <1>1, FS_Interval
<1>6. ExistsBijection(1 .. Len(s), Entries(o))
  BY <1>4 DEF ExistsBijection
<1>7. IsFiniteSet(Entries(o)) /\ Cardinality(Entries(o)) = Len(s)
  BY <1>5, <1>6, FS_Bijection
<1>8. QED
  BY <1>3, <1>7

\* The entries of the schedule, and those add_parent brings, are slices.
LEMMA EntriesAreSlices ==
  ASSUME SchedulerTypeOK, NEW o \in Offers
  PROVE  \A e \in Waiting \cup Entries(o) : e \in [child : Children, slot : Nat]
<1>1. \A e \in Waiting : e \in [child : Children, slot : Nat]
  <2> DEFINE Slices == [child : Children, slot : Nat]
  <2>1. schedule \in Seq(Slices)
    BY DEF SchedulerTypeOK
  <2> HIDE DEF Slices
  <2>2. \A e \in Waiting : e \in Slices
    BY <2>1 DEF Waiting, SeqX!ToSet
  <2>3. QED
    BY <2>2 DEF Slices
<1>2. \A k \in DOMAIN o.schedule : o.schedule[k] \in Children /\ k \in Nat
  BY SchedulerAssumption
<1>3. \A e \in Entries(o) : e \in [child : Children, slot : Nat]
  BY <1>2 DEF Entries
<1>4. QED
  BY <1>1, <1>3

\* An operation on one parent that records no execution.
LEMMA OneParentChanges ==
  ASSUME BookInvariant, BookInvariant', WorkInvariant, AnyStep,
         NEW p \in Parents, parent[p].known,
         NEW new, Standing(new), SameBooks(parent[p], new),
         parent' = [parent EXCEPT ![p] = new]
  PROVE  /\ parent' \in [Parents -> ParentRecords]
         /\ parent'[p] = new /\ \A q \in Parents \ {p} : parent'[q] = parent[q]
         /\ \A q \in Parents : SameBooks(parent[q], parent'[q])
         /\ ParentsAddUp'
         /\ new.pending = parent[p].pending /\ schedule' = schedule => SlicesAreKnown'
<1>1. parent \in [Parents -> ParentRecords] /\ new \in ParentRecords
  BY DEF WorkInvariant, SchedulerTypeOK, Standing
<1>2. /\ parent' \in [Parents -> ParentRecords]
      /\ parent'[p] = new /\ \A q \in Parents \ {p} : parent'[q] = parent[q]
  BY <1>1
<1>3. \A q \in Parents : SameBooks(parent[q], parent'[q])
  BY <1>2 DEF SameBooks
<1>4. \A q \in Parents : parent[q].known => Standing(parent'[q])
  BY <1>2 DEF WorkInvariant, ParentsAddUp
<1>5. ParentsAddUp'
  BY <1>3, <1>4, BooksStay DEF WorkInvariant
<1>6. ASSUME new.pending = parent[p].pending, schedule' = schedule PROVE SlicesAreKnown'
  <2>1. \A q \in Parents : /\ parent'[q].known = parent[q].known
                           /\ parent'[q].side = parent[q].side
                           /\ parent'[q].pending = parent[q].pending
    BY <1>2, <1>3, <1>6 DEF SameBooks
  <2>2. QED
    BY <1>6, <2>1, SlicesStay DEF WorkInvariant
<1>7. QED
  BY <1>2, <1>3, <1>5, <1>6

\* The types of the variables a step leaves alone.
LEMMA TypesStay ==
  ASSUME BookInvariant, BookInvariant', SchedulerTypeOK, AnyStep,
         parent' \in [Parents -> ParentRecords],
         schedule' \in Seq([child : Children, slot : Nat]), childIds' \subseteq Ids, traced' = traced,
         clock' \in Times \cup {None}, advancing' \in Times \cup {None},
         submitting' \in Children \cup {None}
  PROVE  SchedulerTypeOK'
<1>1. DOMAIN trades \subseteq DOMAIN trades'
  BY TapeStays
<1>2. traced' \subseteq (DOMAIN trades') \X Ids
  BY <1>1 DEF SchedulerTypeOK
<1>3. QED
  BY <1>2 DEF SchedulerTypeOK
-----------------------------------------------------------------------------
(***************************************************************************)
(* One lemma per action.                                                   *)
(***************************************************************************)
\* A parent that is known has a record in order.
LEMMA KnownStands ==
  ASSUME WorkInvariant, NEW p \in Parents, parent[p].known
  PROVE  Standing(parent[p])
BY DEF WorkInvariant, ParentsAddUp

\* The slice that advance_to is at.
LEMMA SliceAtHand ==
  ASSUME WorkInvariant, NEW e \in Waiting
  PROVE  /\ e.child \in Children /\ e.child.parent \in Parents
         /\ parent[e.child.parent].known /\ Standing(parent[e.child.parent])
         /\ SliceQuantity(parent[e.child.parent], e.child.quantity) \in Quantities
         /\ SliceQuantity(parent[e.child.parent], e.child.quantity)
              <= Unexecuted(parent[e.child.parent])
<1>1. e.child \in Children
  BY WaitingType DEF WorkInvariant
<1>2. e.child.parent \in Parents /\ e.child.quantity \in Quantities
  BY <1>1 DEF Children
<1>3. parent[e.child.parent].known
  BY DEF WorkInvariant, SlicesAreKnown
<1>4. Standing(parent[e.child.parent])
  BY <1>2, <1>3, KnownStands
<1>5. QED
  BY <1>1, <1>2, <1>3, <1>4, SliceQuantityType

\* The child that on_market_volume makes.
POVChild(o) ==
  [id |-> o.id, parent |-> o.parent, side |-> parent[o.parent].side,
   quantity |-> POVQuantity(parent[o.parent], o), type |-> "Market", price |-> None,
   time |-> o.time, sequence |-> o.sequence]

\* What on_market_volume is called with, and the child it would send.
LEMMA VolumeAtHand ==
  ASSUME WorkInvariant, NEW o \in Observations, Observed(o)
  PROVE  /\ o.parent \in Parents /\ parent[o.parent].known /\ Standing(parent[o.parent])
         /\ o.time \in Times /\ o.id \in Ids \cup {ZeroId}
         /\ POVChild(o) \in Children
         /\ POVQuantity(parent[o.parent], o) \in Quantities
         /\ POVQuantity(parent[o.parent], o) <= Unexecuted(parent[o.parent])
<1>1. /\ o.parent \in Parents /\ o.time \in Times
      /\ o.id \in Ids \cup {ZeroId} /\ o.sequence \in Nat
  BY SchedulerAssumption
<1>2. parent[o.parent].known
  BY DEF Observed
<1>3. Standing(parent[o.parent])
  BY <1>1, <1>2, KnownStands
<1>4. parent[o.parent].side \in Sides
  BY <1>3 DEF Standing, ParentRecords
<1>5. /\ POVQuantity(parent[o.parent], o) \in Quantities
      /\ POVQuantity(parent[o.parent], o) <= Unexecuted(parent[o.parent])
  BY <1>3, POVQuantityType
<1>6. POVChild(o) \in Children
  BY <1>1, <1>4, <1>5 DEF POVChild, Children, OrderTypes
<1>7. QED
  BY <1>1, <1>2, <1>3, <1>5, <1>6

\* Every step of the scheduler is a step the engine can take, or leaves it alone.
LEMMA SchedulerTakesAnyStep ==
  ASSUME SchedulerInvariant, [SchedulerNext]_allVars
  PROVE  AnyStep
<1> USE DEF SchedulerInvariant
<1>1. ASSUME UNCHANGED vars PROVE AnyStep
  BY <1>1 DEF AnyStep
<1>2. CASE Clients
  <2>1. ASSUME NEW r \in Requests, Submit(r) \/ RejectSubmit(r) PROVE AnyStep
    BY <2>1, RequestsAssumption DEF AnyStep
  <2>2. QED
    BY <1>2, <2>1 DEF Clients, AnyStep
<1>3. CASE EngineStep
  BY <1>3 DEF EngineStep, AnyStep
<1>4. ASSUME NEW k \in DOMAIN schedule, SubmitChild(k) PROVE AnyStep
  <2> DEFINE e == schedule[k]
  <2>1. /\ SendChild(e.child, SliceQuantity(parent[e.child.parent], e.child.quantity))
        /\ e \in Waiting
    BY <1>4, WaitingType DEF SubmitChild, WorkInvariant
  <2> HIDE DEF e
  <2>2. QED
    BY <2>1, SliceAtHand, SendChildStep
<1>5. ASSUME NEW o \in Observations, Participate(o) PROVE AnyStep
  <2>1. Observed(o) /\ SendChild(POVChild(o), POVQuantity(parent[o.parent], o))
    BY <1>5 DEF Participate, POVChild
  <2>2. QED
    BY <2>1, VolumeAtHand, SendChildStep
<1>6. ASSUME NEW o \in Offers, AddParent(o) PROVE UNCHANGED vars
  BY <1>6 DEF AddParent
<1>7. ASSUME NEW p \in Parents, CancelParent(p) PROVE UNCHANGED vars
  BY <1>7 DEF CancelParent
<1>8. ASSUME NEW t \in Times, StartAdvance(t) PROVE UNCHANGED vars
  BY <1>8 DEF StartAdvance
<1>9. ASSUME NEW o \in Observations, IgnoreVolume(o) \/ ExpireOnVolume(o) \/ CountVolume(o)
      PROVE  UNCHANGED vars
  BY <1>9 DEF IgnoreVolume, ExpireOnVolume, CountVolume
<1>10. ASSUME NEW k \in DOMAIN schedule, SkipChild(k) PROVE UNCHANGED vars
  BY <1>10 DEF SkipChild
<1>11. ASSUME Record \/ Abort \/ FinishAdvance PROVE UNCHANGED vars
  BY <1>11 DEF Record, Abort, FinishAdvance
<1>12. ASSUME UNCHANGED allVars PROVE UNCHANGED vars
  BY <1>12 DEF allVars
<1>13. QED
  BY <1>1, <1>2, <1>3, <1>4, <1>5, <1>6, <1>7, <1>8, <1>9, <1>10, <1>11, <1>12
  DEF SchedulerNext, Running
\* At first there are no parents, no slices and no child in hand.
LEMMA WorkStarts ==
  ASSUME SchedulerInit
  PROVE  WorkInvariant
<1>1. /\ parent = [p \in Parents |-> BlankParent]
      /\ schedule = <<>> /\ childIds = {} /\ traced = {}
      /\ clock = None /\ advancing = None /\ submitting = None
  BY DEF SchedulerInit
<1>2. BlankParent \in ParentRecords
  <2>1. 0 \in Quantities /\ 0 \in Times
    BY MaxQuantityAssumption, SchedulerAssumption DEF Quantities, Times
  <2>2. QED
    BY <2>1 DEF BlankParent, PendingParent, ParentRecords, Sides, ParentStatuses
<1>3. SchedulerTypeOK
  BY <1>1, <1>2 DEF SchedulerTypeOK
<1>4. \A p \in Parents : ~parent[p].known /\ parent[p].children = {} /\ parent[p].fills = {}
  BY <1>1 DEF BlankParent, PendingParent
<1>5. ParentsAddUp
  BY <1>4 DEF ParentsAddUp
<1>6. SlicesAreKnown
  <2>1. DOMAIN schedule = {}
    BY <1>1
  <2>2. Waiting = {}
    BY <2>1 DEF Waiting, SeqX!ToSet
  <2>3. QED
    BY <1>4, <2>1, <2>2, FS_EmptySet DEF SlicesAreKnown, SlicesAreOrdered, Sorted
<1>7. QED
  BY <1>1, <1>3, <1>5, <1>6 DEF WorkInvariant, ChildInHand, CallsNest

\* The slices that add_parent brings are put in order with those that wait.
LEMMA SlicesMerge ==
  ASSUME SchedulerTypeOK, SlicesAreKnown, NEW o \in Offers, schedule' \in Merged(Entries(o))
  PROVE  /\ Waiting' = Waiting \cup Entries(o)
         /\ schedule' \in Seq([child : Children, slot : Nat])
         /\ SlicesAreOrdered'
<1> DEFINE W == Waiting \cup Entries(o)
           n == Cardinality(W)
<1>1. IsFiniteSet(W) /\ n \in Nat
  BY EntriesAreCounted, FS_Union, FS_CardinalityType DEF SlicesAreKnown
<1>2. \A e \in W : e \in [child : Children, slot : Nat]
  BY EntriesAreSlices
<1>3. /\ schedule' \in [1 .. n -> W] /\ Sorted(schedule')
      /\ \A j, k \in 1 .. n : j # k => schedule'[j] # schedule'[k]
  <2>1. schedule' \in SeqX!SetToSeqs(W) /\ Sorted(schedule')
    BY DEF Merged
  <2> HIDE DEF W
  <2>2. SeqX!Cardinality(W) = Cardinality(W)
    BY DEF SeqX!Cardinality, Cardinality
  <2>3. QED
    BY <2>1, <2>2 DEF SeqX!SetToSeqs
<1> HIDE DEF n, W
<1>4. schedule' \in Surjection(1 .. n, W)
  <2>1. schedule' \in Injection(1 .. n, W)
    BY <1>3 DEF Injection, IsInjective
  <2>2. Cardinality(1 .. n) = Cardinality(W)
    BY <1>1, FS_Interval DEF n
  <2>3. QED
    BY <1>1, <2>1, <2>2, FS_Injection
<1>5. Waiting' = W
  BY <1>3, <1>4 DEF Surjection, Waiting, SeqX!ToSet
<1>6. schedule' \in Seq([child : Children, slot : Nat])
  <2> DEFINE Slices == [child : Children, slot : Nat]
  <2>1. \A e \in W : e \in Slices
    BY <1>2
  <2> HIDE DEF Slices
  <2>2. schedule' \in [1 .. n -> Slices]
    BY <1>3, <2>1
  <2>3. schedule' \in Seq(Slices)
    BY <1>1, <2>2, IsASeq
  <2>4. QED
    BY <2>3 DEF Slices
<1>7. SlicesAreOrdered'
  BY <1>3 DEF SlicesAreOrdered, Sorted, Precedes
<1>8. QED
  BY <1>5, <1>6, <1>7 DEF W

\* A new parent brings its slices, and has executed nothing.
LEMMA AddParentStep ==
  ASSUME SchedulerInvariant, NEW o \in Offers, AddParent(o)
  PROVE  WorkInvariant'
<1> USE DEF SchedulerInvariant
<1> DEFINE p == o.parent
           new == PendingParent(o.side, o.total, o.start, o.end, Len(o.schedule))
<1>1. /\ p \in Parents /\ o.schedule \in Seq(Children) /\ Len(o.schedule) \in Nat
      /\ DOMAIN o.schedule = 1 .. Len(o.schedule)
  BY SchedulerAssumption
<1>2. /\ Quiet /\ ValidOffer(o)
      /\ parent' = [parent EXCEPT ![p] = new]
      /\ schedule' \in Merged(Entries(o))
      /\ childIds' = childIds \cup {o.schedule[k].id : k \in DOMAIN o.schedule}
      /\ UNCHANGED <<vars, traced, clock, advancing, submitting>>
  BY DEF AddParent
<1>3. /\ Standing(new) /\ new.known /\ new.side = o.side /\ new.pending = Len(o.schedule)
      /\ new.executed = 0 /\ new.children = {} /\ new.fills = {}
  BY <1>1, PendingStands
<1> HIDE DEF new
<1>4. ~parent[p].known /\ \A k \in DOMAIN o.schedule : ValidChild(o.schedule[k], o)
  BY <1>2 DEF ValidOffer
<1>5. /\ parent \in [Parents -> ParentRecords] /\ new \in ParentRecords
      /\ \A e \in Waiting : e.child \in Children /\ e.slot \in Nat
      /\ childIds \subseteq Ids
  BY <1>3, WaitingType DEF WorkInvariant, SchedulerTypeOK, Standing
<1>6. /\ parent' \in [Parents -> ParentRecords] /\ parent'[p] = new
      /\ \A q \in Parents \ {p} : parent'[q] = parent[q]
  BY <1>1, <1>2, <1>5
<1>7. /\ IsFiniteSet(Entries(o)) /\ Cardinality(Entries(o)) = Len(o.schedule)
      /\ \A e \in Entries(o) : /\ e.slot \in DOMAIN o.schedule /\ e.child = o.schedule[e.slot]
                               /\ e.child \in Children /\ e.slot \in Nat
  BY EntriesAreCounted
<1>8. \A e \in Entries(o) : e.child.parent = p /\ e.child.side = o.side
  BY <1>4, <1>7 DEF ValidChild
<1>9. \A e \in Waiting : e.child.parent \in Parents \ {p}
  BY <1>4, <1>5 DEF WorkInvariant, SlicesAreKnown, Children
<1>10. /\ TradeQuantity' = TradeQuantity /\ trades' = trades /\ taker' = taker
       /\ active' = active /\ completed' = completed
  BY <1>2 DEF vars, TradeQuantity
<1>11. childIds' \subseteq Ids
  <2>1. \A k \in DOMAIN o.schedule : o.schedule[k].id \in Ids
    <3>1. \A k \in DOMAIN o.schedule : o.schedule[k] \in Children /\ o.schedule[k].id # ZeroId
      BY <1>1, <1>4 DEF ValidChild
    <3>2. QED
      BY <3>1 DEF Children
  <2>2. QED
    BY <1>2, <1>5, <2>1
<1>12. /\ Waiting' = Waiting \cup Entries(o) /\ SlicesAreOrdered'
       /\ schedule' \in Seq([child : Children, slot : Nat])
  BY <1>2, SlicesMerge DEF WorkInvariant
<1>13. SchedulerTypeOK'
  BY <1>2, <1>5, <1>6, <1>10, <1>11, <1>12 DEF WorkInvariant, SchedulerTypeOK
<1>14. ParentsAddUp'
  <2>1. SumOver(TradeQuantity, {}) = 0
    BY FS_EmptySet, SumTakes
  <2> SUFFICES ASSUME NEW q \in Parents
               PROVE  /\ parent'[q].fills \subseteq DOMAIN trades'
                      /\ parent'[q].children \subseteq active' \cup completed'
                      /\ parent'[q].known =>
                           /\ Standing(parent'[q])
                           /\ parent'[q].executed = SumOver(TradeQuantity', parent'[q].fills)
    BY DEF ParentsAddUp, Standing, ParentRecords
  <2>2. CASE q = p
    BY <1>3, <1>6, <1>10, <2>1, <2>2
  <2>3. CASE q # p
    BY <1>6, <1>10, <2>3 DEF WorkInvariant, ParentsAddUp
  <2>4. QED
    BY <2>2, <2>3
<1>15. SlicesAreKnown'
  <2>1. IsFiniteSet(Waiting')
    BY <1>7, <1>12, FS_Union DEF WorkInvariant, SlicesAreKnown
  <2>2. ASSUME NEW e \in Waiting'
        PROVE  parent'[e.child.parent].known /\ e.child.side = parent'[e.child.parent].side
    <3>1. CASE e \in Waiting
      BY <1>6, <1>9, <3>1 DEF WorkInvariant, SlicesAreKnown
    <3>2. CASE e \in Entries(o)
      BY <1>3, <1>6, <1>8, <3>2
    <3>3. QED
      BY <1>12, <3>1, <3>2
  <2>3. SlicesOf(p)' = Entries(o)
    BY <1>8, <1>9, <1>12 DEF SlicesOf
  <2>4. \A q \in Parents \ {p} : SlicesOf(q)' = SlicesOf(q)
    BY <1>8, <1>12 DEF SlicesOf
  <2>5. ASSUME NEW q \in Parents, parent'[q].known
        PROVE  parent'[q].pending = Cardinality(SlicesOf(q)')
    BY <1>3, <1>6, <1>7, <2>3, <2>4, <2>5 DEF WorkInvariant, SlicesAreKnown
  <2>6. QED
    BY <1>12, <2>1, <2>2, <2>5 DEF SlicesAreKnown
<1>16. ChildInHand' /\ CallsNest'
  BY <1>2, <1>10 DEF ChildInHand, CallsNest, Quiet
<1>17. QED
  BY <1>13, <1>14, <1>15, <1>16 DEF WorkInvariant

\* A cancelled parent keeps its books and its slices.
LEMMA CancelParentStep ==
  ASSUME SchedulerInvariant, BookInvariant', AnyStep, NEW p \in Parents, CancelParent(p)
  PROVE  WorkInvariant'
<1> USE DEF SchedulerInvariant
<1> DEFINE new == [parent[p] EXCEPT !.status = "Cancelled"]
<1>1. /\ Quiet /\ parent[p].known /\ ~IsTerminal(parent[p])
      /\ parent' = [parent EXCEPT ![p] = new]
      /\ UNCHANGED <<vars, schedule, childIds, traced, clock, advancing, submitting>>
  BY DEF CancelParent
<1>2. Standing(new) /\ SameBooks(parent[p], new) /\ new.pending = parent[p].pending
  BY <1>1, KnownStands, EndedStands
<1> HIDE DEF new
<1>3. /\ parent' \in [Parents -> ParentRecords]
      /\ ParentsAddUp' /\ SlicesAreKnown'
  BY <1>1, <1>2, OneParentChanges
<1>4. SchedulerTypeOK'
  BY <1>1, <1>3, TypesStay DEF WorkInvariant, SchedulerTypeOK
<1>5. ChildInHand' /\ CallsNest'
  BY <1>1 DEF ChildInHand, CallsNest, Quiet
<1>6. QED
  BY <1>3, <1>4, <1>5 DEF WorkInvariant

\* A step that changes no parent and no schedule, inside no call.
LEMMA ParentsUntouched ==
  ASSUME SchedulerInvariant, BookInvariant', AnyStep,
         UNCHANGED <<parent, schedule, childIds, traced>>,
         clock' \in Times \cup {None}, advancing' \in Times \cup {None},
         submitting' \in Children \cup {None}
  PROVE  SchedulerTypeOK' /\ ParentsAddUp' /\ SlicesAreKnown'
<1> USE DEF SchedulerInvariant
<1>1. SchedulerTypeOK'
  BY TypesStay DEF WorkInvariant, SchedulerTypeOK
<1>2. \A p \in Parents : /\ SameBooks(parent[p], parent'[p])
                         /\ parent[p].known => Standing(parent'[p])
  BY DEF SameBooks, WorkInvariant, ParentsAddUp
<1>3. ParentsAddUp'
  BY <1>2, BooksStay DEF WorkInvariant
<1>4. SlicesAreKnown'
  BY SlicesStay DEF WorkInvariant
<1>5. QED
  BY <1>1, <1>3, <1>4

\* advance_to begins with no child in hand and no order in the loop.
LEMMA StartAdvanceStep ==
  ASSUME SchedulerInvariant, BookInvariant', AnyStep, NEW t \in Times, StartAdvance(t)
  PROVE  WorkInvariant'
<1> USE DEF SchedulerInvariant
<1>1. /\ Quiet /\ advancing' = t
      /\ UNCHANGED <<vars, parent, schedule, childIds, traced, clock, submitting>>
  BY DEF StartAdvance
<1>2. /\ clock' \in Times \cup {None} /\ submitting' \in Children \cup {None}
      /\ advancing' \in Times \cup {None}
  BY <1>1 DEF WorkInvariant, SchedulerTypeOK
<1>3. SchedulerTypeOK' /\ ParentsAddUp' /\ SlicesAreKnown'
  BY <1>1, <1>2, ParentsUntouched
<1>4. ChildInHand' /\ CallsNest'
  BY <1>1 DEF ChildInHand, CallsNest, Quiet, Idle, vars
<1>5. QED
  BY <1>3, <1>4 DEF WorkInvariant

\* on_market_volume without a child.
LEMMA VolumeStep ==
  ASSUME SchedulerInvariant, BookInvariant', AnyStep, NEW o \in Observations,
         IgnoreVolume(o) \/ ExpireOnVolume(o) \/ CountVolume(o)
  PROVE  WorkInvariant'
<1> USE DEF SchedulerInvariant
<1> DEFINE p == o.parent
<1>1. /\ Observed(o) /\ Quiet /\ clock' = o.time
      /\ UNCHANGED <<vars, schedule, traced, childIds, advancing, submitting>>
  BY DEF IgnoreVolume, ExpireOnVolume, CountVolume, Observed
<1>2. p \in Parents /\ parent[p].known /\ Standing(parent[p]) /\ o.time \in Times
  BY <1>1, VolumeAtHand
<1>3. /\ clock' \in Times \cup {None} /\ submitting' \in Children \cup {None}
      /\ advancing' \in Times \cup {None} /\ childIds' \subseteq Ids
  BY <1>1, <1>2 DEF WorkInvariant, SchedulerTypeOK
<1>4. ChildInHand' /\ CallsNest'
  BY <1>1 DEF ChildInHand, CallsNest, Quiet
<1>5. CASE IgnoreVolume(o)
  <2>1. UNCHANGED <<parent, schedule, childIds, traced>>
    BY <1>1, <1>5 DEF IgnoreVolume
  <2>2. SchedulerTypeOK' /\ ParentsAddUp' /\ SlicesAreKnown'
    BY <1>3, <2>1, ParentsUntouched
  <2>3. QED
    BY <1>4, <2>2 DEF WorkInvariant
<1>6. ASSUME NEW new, Standing(new), SameBooks(parent[p], new),
             new.pending = parent[p].pending, parent' = [parent EXCEPT ![p] = new]
      PROVE  WorkInvariant'
  <2>1. parent' \in [Parents -> ParentRecords] /\ ParentsAddUp' /\ SlicesAreKnown'
    BY <1>1, <1>2, <1>6, OneParentChanges
  <2>2. SchedulerTypeOK'
    BY <1>1, <1>3, <2>1, TypesStay DEF WorkInvariant, SchedulerTypeOK
  <2>3. QED
    BY <1>4, <2>1, <2>2 DEF WorkInvariant
<1>7. CASE ExpireOnVolume(o)
  <2> DEFINE new == [parent[p] EXCEPT !.status = "Expired"]
  <2>1. ~IsTerminal(parent[p]) /\ parent' = [parent EXCEPT ![p] = new]
    BY <1>7 DEF ExpireOnVolume, CanGenerateChildren
  <2>2. Standing(new) /\ SameBooks(parent[p], new) /\ new.pending = parent[p].pending
    BY <1>2, <2>1, EndedStands
  <2> HIDE DEF new
  <2>3. QED
    BY <1>6, <2>1, <2>2
<1>8. CASE CountVolume(o)
  <2> DEFINE new == Counted(parent[p], o)
  <2>1. /\ ~IsTerminal(parent[p]) /\ o.volume <= MaxQuantity - parent[p].observed
        /\ parent' = [parent EXCEPT ![p] = new]
    BY <1>8 DEF CountVolume, InWindow, CanGenerateChildren, VolumeFits
  <2>2. Standing(new) /\ SameBooks(parent[p], new) /\ new.pending = parent[p].pending
    BY <1>2, <2>1, CountedStands
  <2> HIDE DEF new
  <2>3. QED
    BY <1>6, <2>1, <2>2
<1>9. QED
  BY <1>5, <1>7, <1>8

\* A child goes in hand for a parent that has room for it.
LEMMA GoesInHand ==
  ASSUME WorkInvariant, NEW c \in Children, NEW quantity, NewInHand(c, quantity), submitting' = c,
         \A p \in Parents : SameBooks(parent[p], parent'[p]),
         parent'[c.parent].known, ~IsTerminal(parent'[c.parent]),
         parent'[c.parent].status # "Pending", parent'[c.parent].side = c.side,
         quantity <= Unexecuted(parent'[c.parent])
  PROVE  ChildInHand'
<1>1. /\ c.id \in active' /\ taker' = c.id /\ error' = "none" /\ c.id \notin active \cup completed
      /\ order'[c.id].side = c.side /\ order'[c.id].original = quantity
      /\ TradesOf(c.id)' = {}
  BY DEF NewInHand
<1>2. \A p \in Parents : c.id \notin parent'[p].children
  BY <1>1 DEF SameBooks, WorkInvariant, ParentsAddUp
<1>3. QED
  BY <1>1, <1>2 DEF ChildInHand

\* on_market_volume with a child: the volume is counted and the child goes in hand.
LEMMA ParticipateStep ==
  ASSUME SchedulerInvariant, BookInvariant', AnyStep, NEW o \in Observations, Participate(o)
  PROVE  WorkInvariant'
<1> USE DEF SchedulerInvariant
<1> DEFINE p == o.parent
           new == Counted(parent[p], o)
           c == POVChild(o)
           quantity == POVQuantity(parent[p], o)
<1>1. /\ Observed(o) /\ Quiet /\ clock' = o.time
      /\ UNCHANGED <<schedule, traced>>
      /\ ~IsTerminal(parent[p]) /\ o.volume <= MaxQuantity - parent[p].observed
      /\ o.id # ZeroId
      /\ parent' = [parent EXCEPT ![p] = new]
      /\ childIds' = childIds \cup {o.id}
      /\ SendChild(c, quantity)
  BY DEF Participate, Observed, InWindow, CanGenerateChildren, VolumeFits, POVChild
<1>2. /\ p \in Parents /\ parent[p].known /\ Standing(parent[p]) /\ o.time \in Times
      /\ o.id \in Ids \cup {ZeroId} /\ c \in Children /\ quantity \in Quantities
      /\ quantity <= Unexecuted(parent[p])
  BY <1>1, VolumeAtHand
<1>3. /\ Standing(new) /\ SameBooks(parent[p], new) /\ new.pending = parent[p].pending
      /\ ~IsTerminal(new) /\ new.status # "Pending"
  BY <1>1, <1>2, CountedStands
<1>4. c.parent = p /\ c.side = parent[p].side
  BY DEF POVChild
<1> HIDE DEF new, c, quantity
<1>5. /\ parent' \in [Parents -> ParentRecords] /\ parent'[p] = new
      /\ \A q \in Parents : SameBooks(parent[q], parent'[q])
      /\ ParentsAddUp' /\ SlicesAreKnown'
  BY <1>1, <1>2, <1>3, OneParentChanges
<1>6. \/ NewInHand(c, quantity) /\ submitting' = c /\ UNCHANGED advancing
      \/ advancing' = None /\ UNCHANGED <<submitting, order, active, completed, trades, taker>>
  BY <1>1, <1>2, SendChildStep
<1>7. SchedulerTypeOK'
  <2>1. childIds' \subseteq Ids /\ clock' \in Times \cup {None}
    BY <1>1, <1>2 DEF WorkInvariant, SchedulerTypeOK
  <2>2. advancing' \in Times \cup {None} /\ submitting' \in Children \cup {None}
    BY <1>2, <1>6 DEF WorkInvariant, SchedulerTypeOK
  <2>3. QED
    BY <1>1, <1>5, <2>1, <2>2, TypesStay DEF WorkInvariant, SchedulerTypeOK
<1>8. ChildInHand'
  <2>1. CASE NewInHand(c, quantity) /\ submitting' = c
    <3>1. Unexecuted(new) = Unexecuted(parent[p]) /\ new.known /\ new.side = c.side
      BY <1>2, <1>3, <1>4 DEF SameBooks, Unexecuted
    <3>2. QED
      BY <1>2, <1>3, <1>4, <1>5, <2>1, <3>1, GoesInHand
  <2>2. CASE submitting' = submitting
    BY <1>1, <2>2 DEF ChildInHand, Quiet
  <2>3. QED
    BY <1>6, <2>1, <2>2
<1>9. CallsNest'
  BY <1>1, <1>6 DEF CallsNest, Quiet
<1>10. QED
  BY <1>5, <1>7, <1>8, <1>9 DEF WorkInvariant

\* A skipped slice leaves the schedule and its parent's count.
LEMMA SkipChildStep ==
  ASSUME SchedulerInvariant, BookInvariant', AnyStep, NEW k \in DOMAIN schedule, SkipChild(k)
  PROVE  WorkInvariant'
<1> USE DEF SchedulerInvariant
<1> DEFINE p == schedule[k].child.parent
           n == parent[p].pending - 1
           new == [parent[p] EXCEPT !.pending = n]
<1>1. /\ advancing # None /\ submitting = None
      /\ schedule' = SeqX!RemoveAt(schedule, k)
      /\ parent' = [parent EXCEPT ![p].pending = n]
      /\ UNCHANGED <<vars, childIds, traced, clock, advancing, submitting>>
  BY DEF SkipChild
<1>2. p \in Parents /\ parent[p].known /\ n \in Nat /\ Standing(parent[p])
  BY WaitingType, SliceIsCounted, SliceAtHand DEF WorkInvariant
<1> HIDE DEF n
<1>3. Standing(new) /\ SameBooks(parent[p], new) /\ new.pending = n
  BY <1>2, CountedDownStands
<1>4. parent' = [parent EXCEPT ![p] = new]
  BY <1>1
<1> HIDE DEF new
<1>5. /\ parent' \in [Parents -> ParentRecords] /\ parent'[p] = new
      /\ \A q \in Parents \ {p} : parent'[q] = parent[q]
      /\ \A q \in Parents : SameBooks(parent[q], parent'[q])
      /\ ParentsAddUp'
  BY <1>2, <1>3, <1>4, OneParentChanges
<1>6. SlicesAreKnown'
  <2>1. \A q \in Parents :
          /\ parent'[q].known = parent[q].known /\ parent'[q].side = parent[q].side
          /\ parent'[q].pending = IF q = p THEN parent[q].pending - 1 ELSE parent[q].pending
    BY <1>3, <1>5 DEF SameBooks, n
  <2>2. QED
    BY <1>1, <2>1, SliceIsTaken DEF WorkInvariant
<1>7. SchedulerTypeOK'
  <2>1. schedule' \in Seq([child : Children, slot : Nat])
    BY <1>1, SliceLeaves DEF WorkInvariant, SlicesAreKnown
  <2>2. QED
    BY <1>1, <1>5, <2>1, TypesStay DEF WorkInvariant, SchedulerTypeOK
<1>8. ChildInHand' /\ CallsNest'
  BY <1>1 DEF WorkInvariant, ChildInHand, CallsNest, vars
<1>9. QED
  BY <1>5, <1>6, <1>7, <1>8 DEF WorkInvariant

\* A submitted slice leaves the schedule and its parent's count, and goes in hand.
LEMMA SubmitChildStep ==
  ASSUME SchedulerInvariant, BookInvariant', AnyStep, NEW k \in DOMAIN schedule, SubmitChild(k)
  PROVE  WorkInvariant'
<1> USE DEF SchedulerInvariant
<1> DEFINE c == schedule[k].child
           p == c.parent
           n == parent[p].pending - 1
           a == Activated(parent[p])
           new == [a EXCEPT !.pending = n]
           quantity == SliceQuantity(parent[p], c.quantity)
<1>1. /\ advancing # None /\ submitting = None
      /\ ~IsTerminal(parent[p])
      /\ schedule' = SeqX!RemoveAt(schedule, k)
      /\ parent' = [parent EXCEPT ![p] = [Activated(parent[p]) EXCEPT !.pending = @ - 1]]
      /\ SendChild(c, quantity)
      /\ UNCHANGED <<childIds, traced, clock>>
  BY DEF SubmitChild, CanGenerateChildren
<1>2. /\ p \in Parents /\ parent[p].known /\ n \in Nat /\ Standing(parent[p])
      /\ c \in Children /\ quantity \in Quantities /\ quantity <= Unexecuted(parent[p])
  BY WaitingType, SliceIsCounted, SliceAtHand DEF WorkInvariant
<1> HIDE DEF quantity
<1>3. /\ Standing(a) /\ SameBooks(parent[p], a) /\ a.pending = parent[p].pending
      /\ ~IsTerminal(a) /\ a.status # "Pending"
  BY <1>1, <1>2, ActivatedStands
<1>4. parent' = [parent EXCEPT ![p] = new]
  BY <1>1, <1>3
<1> HIDE DEF n, a
<1>5. Standing(new) /\ SameBooks(a, new) /\ new.pending = n /\ new.status = a.status
  BY <1>2, <1>3, CountedDownStands
<1> HIDE DEF new
<1>6. /\ SameBooks(parent[p], new) /\ ~IsTerminal(new) /\ new.status # "Pending"
  BY <1>3, <1>5 DEF SameBooks, IsTerminal
<1>7. /\ parent' \in [Parents -> ParentRecords] /\ parent'[p] = new
      /\ \A q \in Parents \ {p} : parent'[q] = parent[q]
      /\ \A q \in Parents : SameBooks(parent[q], parent'[q])
      /\ ParentsAddUp'
  BY <1>2, <1>4, <1>5, <1>6, OneParentChanges
<1>8. SlicesAreKnown'
  <2>1. \A q \in Parents :
          /\ parent'[q].known = parent[q].known /\ parent'[q].side = parent[q].side
          /\ parent'[q].pending = IF q = p THEN parent[q].pending - 1 ELSE parent[q].pending
    BY <1>5, <1>7 DEF SameBooks, n
  <2>2. QED
    BY <1>1, <2>1, SliceIsTaken DEF WorkInvariant
<1>9. \/ NewInHand(c, quantity) /\ submitting' = c /\ UNCHANGED advancing
      \/ advancing' = None /\ UNCHANGED <<submitting, order, active, completed, trades, taker>>
  BY <1>1, <1>2, SendChildStep
<1>10. SchedulerTypeOK'
  <2>1. schedule' \in Seq([child : Children, slot : Nat])
    BY <1>1, SliceLeaves DEF WorkInvariant, SlicesAreKnown
  <2>2. /\ advancing' \in Times \cup {None} /\ submitting' \in Children \cup {None}
        /\ childIds' \subseteq Ids /\ clock' \in Times \cup {None}
    BY <1>1, <1>2, <1>9 DEF WorkInvariant, SchedulerTypeOK
  <2>3. QED
    BY <1>1, <1>7, <2>1, <2>2, TypesStay DEF WorkInvariant
<1>11. ChildInHand'
  <2>1. CASE NewInHand(c, quantity) /\ submitting' = c
    <3>1. Unexecuted(new) = Unexecuted(parent[p]) /\ new.known /\ new.side = parent[p].side
      BY <1>2, <1>6 DEF SameBooks, Unexecuted
    <3>2. c.side = parent[p].side
      BY WaitingType DEF WorkInvariant, SlicesAreKnown
    <3>3. QED
      BY <1>2, <1>6, <1>7, <2>1, <3>1, <3>2, GoesInHand
  <2>2. CASE submitting' = submitting
    BY <1>1, <2>2 DEF ChildInHand
  <2>3. QED
    BY <1>9, <2>1, <2>2
<1>12. CallsNest'
  <2>1. CASE submitting' = c
    BY <1>2, <2>1, SchedulerAssumption DEF CallsNest
  <2>2. CASE advancing' = None
    BY <2>2 DEF CallsNest
  <2>3. QED
    BY <1>9, <2>1, <2>2
<1>13. QED
  BY <1>7, <1>8, <1>10, <1>11, <1>12 DEF WorkInvariant

\* At the end of advance_to, parents expire and nothing else changes.
LEMMA FinishAdvanceStep ==
  ASSUME SchedulerInvariant, BookInvariant', AnyStep, FinishAdvance
  PROVE  WorkInvariant'
<1> USE DEF SchedulerInvariant
<1>1. /\ advancing # None /\ submitting = None /\ clock' = advancing /\ advancing' = None
      /\ UNCHANGED <<vars, schedule, childIds, traced, submitting>>
      /\ parent' = [p \in Parents |->
           IF parent[p].known /\ ~IsTerminal(parent[p]) /\ parent[p].end <= advancing
           THEN [parent[p] EXCEPT !.status = "Expired"] ELSE parent[p]]
  BY DEF FinishAdvance
<1>2. ASSUME NEW p \in Parents
      PROVE  /\ parent'[p] \in ParentRecords
             /\ SameBooks(parent[p], parent'[p]) /\ parent'[p].pending = parent[p].pending
             /\ parent[p].known => Standing(parent'[p])
  <2>1. CASE parent'[p] = parent[p]
    BY <2>1, KnownStands DEF SameBooks, WorkInvariant, SchedulerTypeOK
  <2>2. CASE /\ parent[p].known /\ ~IsTerminal(parent[p])
             /\ parent'[p] = [parent[p] EXCEPT !.status = "Expired"]
    <3>1. Standing(parent[p])
      BY <2>2, KnownStands
    <3>2. LET new == [parent[p] EXCEPT !.status = "Expired"]
          IN  Standing(new) /\ SameBooks(parent[p], new) /\ new.pending = parent[p].pending
      BY <2>2, <3>1, EndedStands
    <3>3. QED
      BY <2>2, <3>2 DEF Standing
  <2>3. QED
    BY <1>1, <2>1, <2>2
<1>3. parent' \in [Parents -> ParentRecords]
  BY <1>1, <1>2
<1>4. ParentsAddUp'
  BY <1>2, BooksStay DEF WorkInvariant
<1>5. SlicesAreKnown'
  BY <1>1, <1>2, SlicesStay DEF WorkInvariant, SameBooks
<1>6. SchedulerTypeOK'
  BY <1>1, <1>3, TypesStay DEF WorkInvariant, SchedulerTypeOK
<1>7. ChildInHand' /\ CallsNest'
  BY <1>1 DEF ChildInHand, CallsNest
<1>8. QED
  BY <1>4, <1>5, <1>6, <1>7 DEF WorkInvariant

\* A submission that threw leaves its parent's books as they were.
LEMMA AbortStep ==
  ASSUME SchedulerInvariant, BookInvariant', AnyStep, Abort
  PROVE  WorkInvariant'
<1> USE DEF SchedulerInvariant
<1>1. /\ submitting' = None /\ advancing' = None
      /\ UNCHANGED <<vars, parent, schedule, childIds, traced, clock>>
  BY DEF Abort
<1>2. SchedulerTypeOK' /\ ParentsAddUp' /\ SlicesAreKnown'
  BY <1>1, ParentsUntouched DEF WorkInvariant, SchedulerTypeOK
<1>3. QED
  BY <1>1, <1>2 DEF WorkInvariant, ChildInHand, CallsNest

\* What the engine has filled of an order it knows is a quantity no larger than the order.
LEMMA FilledType ==
  ASSUME BookInvariant, TapeInvariant, NEW i \in active \cup completed
  PROVE  /\ i \in Ids /\ order[i] \in Orders
         /\ FilledQuantity(order[i]) \in Nat
         /\ FilledQuantity(order[i]) <= order[i].original
         /\ FilledQuantity(order[i]) = SumOver(TradeQuantity, TradesOf(i))
<1>1. i \in Ids /\ order[i] \in Orders
  BY DEF BookInvariant, TypeOK
<1>2. FilledQuantity(order[i]) = SumOver(TradeQuantity, TradesOf(i))
  BY DEF TapeInvariant, FillsOf
<1>3. IsFiniteSet(TradesOf(i)) /\ \A k \in TradesOf(i) : TradeQuantity[k] \in Nat
  BY TapeTypes DEF BookInvariant, TapeFacts
<1>4. SumOver(TradeQuantity, TradesOf(i)) \in Nat
  BY <1>3, SumOfNaturals
<1>5. order[i].original \in Nat /\ order[i].remaining \in Nat
  BY <1>1, MaxQuantityAssumption DEF Orders, Quantities
<1>6. FilledQuantity(order[i]) <= order[i].original
  BY <1>5 DEF FilledQuantity
<1>7. QED
  BY <1>1, <1>2, <1>4, <1>6

\* The trades of the child join the fills, which stay the parent's executed quantity.
LEMMA RecordStep ==
  ASSUME SchedulerInvariant, BookInvariant', AnyStep, Record
  PROVE  WorkInvariant'
<1> USE DEF SchedulerInvariant
<1> DEFINE i == submitting.id
           p == submitting.parent
           q == parent[p]
           f == FilledQuantity(order[i])
           T == TradesOf(i)
           new == Recorded(q, f, i, T)
<1>1. /\ submitting # None /\ taker = None
      /\ parent' = [parent EXCEPT ![p] = new]
      /\ traced' = traced \cup Traced(i)
      /\ submitting' = None
      /\ UNCHANGED <<vars, schedule, childIds, clock, advancing>>
  BY DEF Record, Executed, Recorded
<1>2. submitting \in Children /\ p \in Parents
  BY <1>1 DEF WorkInvariant, SchedulerTypeOK, Children
<1>3. /\ i \in active \cup completed
      /\ q.known /\ ~IsTerminal(q) /\ q.status # "Pending"
      /\ order[i].original <= Unexecuted(q)
      /\ i \notin q.children /\ T \cap q.fills = {}
  BY <1>1, <1>2 DEF WorkInvariant, ChildInHand
<1>4. Standing(q) /\ Unexecuted(q) \in Quantities
  BY <1>2, <1>3, KnownStands, UnexecutedType
<1>5. /\ i \in Ids /\ order[i] \in Orders /\ f \in Nat /\ f <= order[i].original
      /\ f = SumOver(TradeQuantity, T)
  BY <1>3, FilledType
<1>6. TapeFacts
  BY TapeTypes DEF BookInvariant
<1>7. /\ T \subseteq DOMAIN trades /\ DOMAIN trades \subseteq Nat /\ IsFiniteSet(DOMAIN trades)
      /\ \A k \in DOMAIN trades : TradeQuantity[k] \in Nat
  <2>1. Len(trades) \in Nat /\ DOMAIN trades = 1 .. Len(trades)
    BY <1>6 DEF TapeFacts
  <2>2. IsFiniteSet(1 .. Len(trades))
    BY <2>1, FS_Interval
  <2>3. QED
    BY <1>6, <2>1, <2>2 DEF TapeFacts
<1>8. f <= Unexecuted(q)
  <2>1. order[i].original \in Nat /\ Unexecuted(q) \in Nat
    BY <1>4, <1>5, MaxQuantityAssumption DEF Orders, Quantities
  <2>2. QED
    BY <1>3, <1>5, <2>1
<1>9. T \in SUBSET Nat
  BY <1>7
<1> HIDE DEF q, f, T, i
<1>10. /\ Standing(new)
       /\ new.known = q.known /\ new.side = q.side /\ new.pending = q.pending
       /\ new.executed = q.executed + f
       /\ new.children = q.children \cup {i} /\ new.fills = q.fills \cup T
  <2> HIDE DEF new
  <2>1. Standing(new)
    BY <1>3, <1>4, <1>5, <1>8, <1>9, RecordedStands DEF new
  <2>2. /\ new.side = q.side /\ new.pending = q.pending
        /\ new.children = q.children \cup {i} /\ new.fills = q.fills \cup T
    BY <1>3, <1>4, <1>5, <1>8, <1>9, RecordedStands DEF new
  <2>3. new.executed = q.executed + f
    BY <1>3, <1>4, <1>5, <1>8, <1>9, RecordedStands DEF new
  <2>4. new.known = q.known
    BY <1>4 DEF new, Recorded, RecordFill, Standing, ParentRecords
  <2>5. QED
    BY <2>1, <2>2, <2>3, <2>4
<1> HIDE DEF new, p
<1>11. /\ parent' \in [Parents -> ParentRecords] /\ parent'[p] = new
       /\ \A r \in Parents \ {p} : parent'[r] = parent[r]
  BY <1>1, <1>2, <1>10 DEF WorkInvariant, SchedulerTypeOK, Standing
<1>12. /\ TradeQuantity' = TradeQuantity /\ trades' = trades /\ taker' = taker
       /\ active' = active /\ completed' = completed
  BY <1>1 DEF vars, TradeQuantity
<1>13. q.fills \subseteq DOMAIN trades /\ q.executed = SumOver(TradeQuantity, q.fills)
       /\ q.children \subseteq active \cup completed
  BY <1>2, <1>3 DEF WorkInvariant, ParentsAddUp, q
<1>14. SumOver(TradeQuantity, q.fills \cup T) = q.executed + f
  <2>1. IsFiniteSet(q.fills) /\ IsFiniteSet(T)
    BY <1>7, <1>13, FS_Subset
  <2>2. \A k \in q.fills \cup T : TradeQuantity[k] \in Int
    BY <1>7, <1>13
  <2>3. q.fills \cap T = {}
    BY <1>3
  <2>4. SumOver(TradeQuantity, q.fills \cup T)
          = SumOver(TradeQuantity, q.fills) + SumOver(TradeQuantity, T)
    BY <2>1, <2>2, <2>3, SumOfTwo
  <2>5. QED
    BY <1>5, <1>13, <2>4
<1>15. ParentsAddUp'
  <2> SUFFICES ASSUME NEW r \in Parents
               PROVE  /\ parent'[r].fills \subseteq DOMAIN trades'
                      /\ parent'[r].children \subseteq active' \cup completed'
                      /\ parent'[r].known =>
                           /\ Standing(parent'[r])
                           /\ parent'[r].executed = SumOver(TradeQuantity', parent'[r].fills)
    BY DEF ParentsAddUp, Standing, ParentRecords
  <2>1. CASE r = p
    <3>1. parent'[r] = new
      BY <1>11, <2>1
    <3>2. new.fills \subseteq DOMAIN trades /\ new.children \subseteq active \cup completed
      BY <1>3, <1>7, <1>10, <1>13
    <3>3. new.executed = SumOver(TradeQuantity, new.fills)
      BY <1>10, <1>14
    <3>4. QED
      BY <1>10, <1>12, <3>1, <3>2, <3>3
  <2>2. CASE r # p
    BY <1>11, <1>12, <2>2 DEF WorkInvariant, ParentsAddUp
  <2>3. QED
    BY <2>1, <2>2
<1>16. SlicesAreKnown'
  <2>1. \A r \in Parents : /\ parent'[r].known = parent[r].known
                           /\ parent'[r].side = parent[r].side
                           /\ parent'[r].pending = parent[r].pending
    BY <1>10, <1>11 DEF q
  <2>2. QED
    BY <1>1, <2>1, SlicesStay DEF WorkInvariant
<1>17. SchedulerTypeOK'
  <2>1. traced' \subseteq (DOMAIN trades') \X Ids
    BY <1>1, <1>5, <1>7, <1>12 DEF WorkInvariant, SchedulerTypeOK, Traced, T
  <2>2. QED
    BY <1>1, <1>11, <1>12, <2>1 DEF WorkInvariant, SchedulerTypeOK
<1>18. ChildInHand' /\ CallsNest'
  BY <1>1, <1>12 DEF ChildInHand, CallsNest
<1>19. QED
  BY <1>15, <1>16, <1>17, <1>18 DEF WorkInvariant

\* The engine moves, in its loop or for another client.
LEMMA EngineMoves ==
  ASSUME SchedulerInvariant, BookInvariant', AnyStep, UNCHANGED schedulerVars,
         submitting # None => Match \/ UNCHANGED vars,
         advancing # None /\ submitting = None => taker' = None
  PROVE  WorkInvariant'
<1> USE DEF SchedulerInvariant
<1>1. UNCHANGED <<parent, schedule, childIds, traced, clock, advancing, submitting>>
  BY DEF schedulerVars
<1>2. SchedulerTypeOK' /\ ParentsAddUp' /\ SlicesAreKnown'
  BY <1>1, ParentsUntouched DEF WorkInvariant, SchedulerTypeOK
<1>3. ChildInHand'
  <2> SUFFICES ASSUME submitting # None PROVE ChildInHand'
    BY <1>1 DEF ChildInHand
  <2> DEFINE q == parent[submitting.parent]
  <2>1. PICK i : i = submitting.id
    OBVIOUS
  <2>2. /\ i \in active \cup completed
        /\ taker \in {i, None} /\ error \in {"none", "overflow"}
        /\ q.known /\ ~IsTerminal(q) /\ q.status # "Pending"
        /\ order[i].side = q.side
        /\ order[i].original <= Unexecuted(q)
        /\ \A p \in Parents : i \notin parent[p].children /\ TradesOf(i) \cap parent[p].fills = {}
    BY <2>1 DEF WorkInvariant, ChildInHand
  <2>3. i \in active' \cup completed'
    BY <2>2, OrdersStay
  <2>4. TradesOf(i)' \cap DOMAIN trades = TradesOf(i)
    BY TapeStays
  <2>5. \A p \in Parents : TradesOf(i)' \cap parent[p].fills = {}
    BY <2>2, <2>4 DEF WorkInvariant, ParentsAddUp
  <2>6. i \in Ids
    BY <2>2 DEF BookInvariant, TypeOK
  <2>7. /\ order'[i].original = order[i].original /\ order'[i].side = order[i].side
        /\ taker' \in {taker, None} /\ error' \in {error, "overflow"}
    <3>1. CASE Match
      BY <2>6, <3>1, LoopKeeps
    <3>2. CASE UNCHANGED vars
      BY <3>2 DEF vars
    <3>3. QED
      BY <3>1, <3>2
  <2>8. QED
    BY <1>1, <2>2, <2>3, <2>5, <2>7, <2>1 DEF ChildInHand
<1>4. CallsNest'
  BY <1>1 DEF CallsNest
<1>5. QED
  BY <1>2, <1>3, <1>4 DEF WorkInvariant

\* The invariant is inductive.
LEMMA SchedulerStep ==
  ASSUME SchedulerInvariant, [SchedulerNext]_allVars
  PROVE  SchedulerInvariant'
<1>1. AnyStep
  BY SchedulerTakesAnyStep
<1>2. BookInvariant' /\ TapeInvariant'
  BY <1>1, NextStep, TapeStep DEF SchedulerInvariant
<1>3. CASE Clients
  <2>1. Quiet /\ UNCHANGED schedulerVars
    BY <1>3 DEF Clients
  <2>2. WorkInvariant'
    BY <1>1, <1>2, <2>1, EngineMoves DEF Quiet
  <2>3. QED
    BY <1>2, <2>2 DEF SchedulerInvariant
<1>4. CASE EngineStep
  <2>1. Match /\ UNCHANGED schedulerVars
    BY <1>4 DEF EngineStep
  <2>2. taker # None
    BY <2>1 DEF Match, Matching, MatchFront, CompleteTaker, CancelRemainder, Rest,
       RestOverflows, MatchingOver
  <2>3. ~(advancing # None /\ submitting = None)
    BY <2>2 DEF SchedulerInvariant, WorkInvariant, CallsNest
  <2>4. WorkInvariant'
    BY <1>1, <1>2, <2>1, <2>3, EngineMoves
  <2>5. QED
    BY <1>2, <2>4 DEF SchedulerInvariant
<1>5. CASE UNCHANGED allVars
  <2>1. UNCHANGED vars /\ UNCHANGED schedulerVars /\ taker' = taker
    BY <1>5 DEF allVars, vars
  <2>2. advancing # None /\ submitting = None => taker' = None
    BY <2>1 DEF SchedulerInvariant, WorkInvariant, CallsNest
  <2>3. WorkInvariant'
    BY <1>1, <1>2, <2>1, <2>2, EngineMoves
  <2>4. QED
    BY <1>2, <2>3 DEF SchedulerInvariant
<1>6. ASSUME NEW o \in Offers, AddParent(o) PROVE WorkInvariant'
  BY <1>6, AddParentStep
<1>7. ASSUME NEW p \in Parents, CancelParent(p) PROVE WorkInvariant'
  BY <1>1, <1>2, <1>7, CancelParentStep
<1>8. ASSUME NEW t \in Times, StartAdvance(t) PROVE WorkInvariant'
  BY <1>1, <1>2, <1>8, StartAdvanceStep
<1>9. ASSUME NEW o \in Observations,
             IgnoreVolume(o) \/ ExpireOnVolume(o) \/ CountVolume(o) \/ Participate(o)
      PROVE  WorkInvariant'
  BY <1>1, <1>2, <1>9, VolumeStep, ParticipateStep
<1>10. ASSUME NEW k \in DOMAIN schedule, SkipChild(k) \/ SubmitChild(k) PROVE WorkInvariant'
  BY <1>1, <1>2, <1>10, SkipChildStep, SubmitChildStep
<1>11. CASE Record \/ Abort \/ FinishAdvance
  BY <1>1, <1>2, <1>11, RecordStep, AbortStep, FinishAdvanceStep DEF SchedulerInvariant
<1>12. QED
  BY <1>2, <1>3, <1>4, <1>5, <1>6, <1>7, <1>8, <1>9, <1>10, <1>11
  DEF SchedulerNext, Running, SchedulerInvariant
-----------------------------------------------------------------------------
(***************************************************************************)
(* The theorems.                                                           *)
(***************************************************************************)

\* The engine's invariants hold while the scheduler and other clients share it, and
\* the parents, the schedule and the child in hand agree with it in every state.
THEOREM SchedulerIsConsistent == SchedulerSpec => []SchedulerInvariant
<1>1. SchedulerInit => SchedulerInvariant
  BY InitStep, TapeStarts, WorkStarts DEF SchedulerInit, SchedulerInvariant
<1>2. SchedulerInvariant /\ [SchedulerNext]_allVars => SchedulerInvariant'
  BY SchedulerStep
<1>3. QED
  BY <1>1, <1>2, PTL DEF SchedulerSpec

\* A parent's status says how far it is executed, the counter of pending slices is the
\* number of entries left, and no quantity of a parent leaves its type: no parent is
\* executed beyond its total, whatever the other clients do to its children.
THEOREM LifecyclesAreKept == SchedulerSpec => []LifecycleOK
<1>1. SchedulerInvariant => LifecycleOK
  <2> SUFFICES ASSUME SchedulerInvariant PROVE LifecycleOK
    OBVIOUS
  <2> USE DEF SchedulerInvariant, WorkInvariant
  <2>1. ASSUME NEW p \in Known
        PROVE  /\ parent[p].status = "Filled" <=> parent[p].executed = parent[p].total
               /\ parent[p].status \in {"Pending", "Active"} => parent[p].executed = 0
               /\ parent[p].status = "PartiallyFilled" => parent[p].executed > 0
               /\ parent[p].status = "Pending" => InMarket(p) = {}
               /\ parent[p].pending = Cardinality({e \in Waiting : e.child.parent = p})
    <3>1. p \in Parents /\ parent[p].known
      BY DEF Known
    <3>2. Standing(parent[p])
      BY <3>1, KnownStands
    <3>3. parent[p].pending = Cardinality({e \in Waiting : e.child.parent = p})
      BY <3>1 DEF SlicesAreKnown, SlicesOf
    <3>4. ASSUME parent[p].status = "Pending" PROVE InMarket(p) = {}
      <4>1. parent[p].children = {}
        BY <3>2, <3>4 DEF Standing
      <4>2. submitting # None => submitting.parent # p
        BY <3>4 DEF ChildInHand
      <4>3. QED
        BY <4>1, <4>2 DEF InMarket
    <3>5. QED
      BY <3>2, <3>3, <3>4 DEF Standing
  <2>2. QED
    BY <2>1 DEF LifecycleOK
<1>2. QED
  BY <1>1, SchedulerIsConsistent, PTL

\* What build_execution_summary asserts holds in every state, also after a call of the
\* engine that threw: a parent's executed quantity is the sum of the fills recorded for it.
THEOREM SummariesAddUp == SchedulerSpec => []SummaryAddsUp
<1>1. SchedulerInvariant => SummaryAddsUp
  BY SumOfTheModel
  DEF SchedulerInvariant, WorkInvariant, ParentsAddUp, SummaryAddsUp, Known, TradeQuantity
<1>2. QED
  BY <1>1, SchedulerIsConsistent, PTL

\* A parent that has ended keeps its fills, children and status.
LEMMA EndedStays ==
  ASSUME SchedulerInvariant, [SchedulerNext]_allVars, NEW p \in Known, IsTerminal(parent[p])
  PROVE  /\ parent'[p] = [parent[p] EXCEPT !.pending = parent'[p].pending]
         /\ InMarket(p)' = InMarket(p)
<1> USE DEF SchedulerInvariant, WorkInvariant
<1>1. /\ p \in Parents /\ parent[p].known /\ parent[p] \in ParentRecords
      /\ parent \in [Parents -> ParentRecords]
  BY DEF Known, SchedulerTypeOK
<1>2. submitting # None => submitting.parent # p
  BY DEF ChildInHand
<1>3. ASSUME parent'[p].children = parent[p].children,
             parent'[p] = [parent[p] EXCEPT !.pending = parent'[p].pending],
             submitting' = None \/ submitting' = submitting \/ submitting'.parent # p
      PROVE  /\ parent'[p] = [parent[p] EXCEPT !.pending = parent'[p].pending]
             /\ InMarket(p)' = InMarket(p)
  <2>1. submitting' # None => submitting'.parent # p
    BY <1>2, <1>3
  <2>2. InMarket(p) = parent[p].children
    BY <1>2 DEF InMarket
  <2>3. InMarket(p)' = parent'[p].children
    BY <2>1 DEF InMarket
  <2>4. QED
    BY <1>3, <2>2, <2>3
<1>4. ASSUME parent'[p] = parent[p],
             submitting' = None \/ submitting' = submitting \/ submitting'.parent # p
      PROVE  /\ parent'[p] = [parent[p] EXCEPT !.pending = parent'[p].pending]
             /\ InMarket(p)' = InMarket(p)
  <2>1. parent[p] = [parent[p] EXCEPT !.pending = parent[p].pending]
    BY <1>1 DEF ParentRecords
  <2>2. QED
    BY <1>3, <1>4, <2>1
<1>5. ASSUME NEW o \in Offers, AddParent(o) PROVE parent'[p] = parent[p] /\ submitting' = submitting
  <2>1. o.parent # p
    BY <1>1, <1>5 DEF AddParent, ValidOffer
  <2>2. QED
    BY <1>1, <1>5, <2>1 DEF AddParent
<1>6. ASSUME NEW q \in Parents, CancelParent(q)
      PROVE  parent'[p] = parent[p] /\ submitting' = submitting
  BY <1>1, <1>6 DEF CancelParent
<1>7. ASSUME NEW t \in Times, StartAdvance(t) PROVE parent'[p] = parent[p] /\ submitting' = submitting
  BY <1>7 DEF StartAdvance
<1>8. ASSUME NEW o \in Observations, IgnoreVolume(o) \/ ExpireOnVolume(o) \/ CountVolume(o)
      PROVE  parent'[p] = parent[p] /\ submitting' = submitting
  BY <1>1, <1>8 DEF IgnoreVolume, ExpireOnVolume, CountVolume, CanGenerateChildren, InWindow
<1>9. ASSUME NEW o \in Observations, Participate(o)
      PROVE  parent'[p] = parent[p] /\ (submitting' = submitting \/ submitting'.parent # p)
  <2>1. o.parent # p
    BY <1>9 DEF Participate, InWindow, CanGenerateChildren
  <2>2. parent'[p] = parent[p]
    BY <1>1, <1>9, <2>1 DEF Participate
  <2>3. /\ Observed(o) /\ SendChild(POVChild(o), POVQuantity(parent[o.parent], o))
    BY <1>9 DEF Participate, POVChild
  <2>4. submitting' = POVChild(o) \/ submitting' = submitting
    BY <2>3 DEF SendChild
  <2>5. QED
    BY <2>1, <2>2, <2>4 DEF POVChild
<1>10. ASSUME NEW k \in DOMAIN schedule, SubmitChild(k)
       PROVE  parent'[p] = parent[p] /\ (submitting' = submitting \/ submitting'.parent # p)
  <2> DEFINE e == schedule[k]
  <2>1. e.child.parent # p
    BY <1>10 DEF SubmitChild, CanGenerateChildren
  <2>2. parent'[p] = parent[p]
    BY <1>1, <1>10, <2>1 DEF SubmitChild
  <2>3. submitting' = e.child \/ submitting' = submitting
    BY <1>10 DEF SubmitChild, SendChild
  <2>4. QED
    BY <2>1, <2>2, <2>3
<1>11. ASSUME NEW k \in DOMAIN schedule, SkipChild(k)
       PROVE  /\ parent'[p].children = parent[p].children
              /\ parent'[p] = [parent[p] EXCEPT !.pending = parent'[p].pending]
              /\ submitting' = submitting
  <2> DEFINE e == schedule[k]
  <2>1. /\ parent' = [parent EXCEPT ![e.child.parent].pending = parent[e.child.parent].pending - 1]
        /\ submitting' = submitting
    BY <1>11 DEF SkipChild
  <2>2. CASE e.child.parent = p
    <3>1. parent'[p] = [parent[p] EXCEPT !.pending = parent[p].pending - 1]
      BY <1>1, <2>1, <2>2
    <3>2. QED
      BY <1>1, <2>1, <3>1 DEF ParentRecords
  <2>3. CASE e.child.parent # p
    <3>1. parent'[p] = parent[p]
      BY <1>1, <2>1, <2>3
    <3>2. QED
      BY <1>1, <2>1, <3>1 DEF ParentRecords
  <2>4. QED
    BY <2>2, <2>3
<1>12. ASSUME Record PROVE parent'[p] = parent[p] /\ submitting' = None
  BY <1>1, <1>2, <1>12 DEF Record
<1>13. ASSUME Abort PROVE parent'[p] = parent[p] /\ submitting' = None
  BY <1>13 DEF Abort
<1>14. ASSUME FinishAdvance PROVE parent'[p] = parent[p] /\ submitting' = submitting
  BY <1>1, <1>14 DEF FinishAdvance
<1>15. ASSUME Clients \/ EngineStep \/ UNCHANGED allVars
       PROVE  parent'[p] = parent[p] /\ submitting' = submitting
  BY <1>15 DEF Clients, EngineStep, allVars, schedulerVars
<1>16. QED
  BY <1>3, <1>4, <1>5, <1>6, <1>7, <1>8, <1>9, <1>10, <1>11, <1>12, <1>13, <1>14, <1>15
  DEF SchedulerNext, Running

\* Fills, children and status of a parent that was filled, cancelled or has expired are
\* final: no slice, no volume and no fill reaches it again.
THEOREM EndedParentsStay == SchedulerSpec => EndIsFinal
<1>1. SchedulerInvariant /\ [SchedulerNext]_allVars =>
        [\A p \in Known : IsTerminal(parent[p]) =>
           /\ parent'[p] = [parent[p] EXCEPT !.pending = parent'[p].pending]
           /\ InMarket(p)' = InMarket(p)]_allVars
  BY EndedStays
<1>2. QED
  BY <1>1, SchedulerIsConsistent, PTL DEF SchedulerSpec, EndIsFinal

\* The child that advance_to submits comes from the front of what is left.
LEMMA FrontIsSubmitted ==
  ASSUME SchedulerInvariant, [SchedulerNext]_allVars,
         advancing # None, submitting = None, submitting' # None, NEW e \in Waiting'
  PROVE  /\ e.child.time >= submitting'.time
         /\ e.child.time = submitting'.time => e.child.sequence >= submitting'.sequence
<1>1. PICK k \in DOMAIN schedule : SubmitChild(k) /\ submitting' = schedule[k].child
  <2>1. \/ \E k \in DOMAIN schedule : SubmitChild(k)
        \/ submitting' = submitting \/ submitting' = None
    <3>1. ASSUME NEW o \in Observations, Participate(o) PROVE FALSE
      BY <3>1 DEF Participate, Observed, Quiet
    <3>2. CASE UNCHANGED allVars \/ Clients \/ EngineStep
      BY <3>2 DEF allVars, schedulerVars, Clients, EngineStep
    <3>3. ASSUME NEW k \in DOMAIN schedule, SkipChild(k) PROVE submitting' = submitting
      BY <3>3 DEF SkipChild
    <3>4. CASE Record \/ Abort \/ FinishAdvance
      BY <3>4 DEF Record, Abort, FinishAdvance
    <3>5. ASSUME NEW o \in Observations, IgnoreVolume(o) \/ ExpireOnVolume(o) \/ CountVolume(o)
          PROVE  submitting' = submitting
      BY <3>5 DEF IgnoreVolume, ExpireOnVolume, CountVolume
    <3>6. ASSUME NEW o \in Offers, AddParent(o) PROVE submitting' = submitting
      BY <3>6 DEF AddParent
    <3>7. ASSUME NEW p \in Parents, CancelParent(p) PROVE submitting' = submitting
      BY <3>7 DEF CancelParent
    <3>8. ASSUME NEW t \in Times, StartAdvance(t) PROVE submitting' = submitting
      BY <3>8 DEF StartAdvance
    <3>9. QED
      BY <3>1, <3>2, <3>3, <3>4, <3>5, <3>6, <3>7, <3>8 DEF SchedulerNext, Running
  <2>2. PICK k \in DOMAIN schedule : SubmitChild(k)
    BY <2>1
  <2>3. submitting' = schedule[k].child
    BY <2>2 DEF SubmitChild, SendChild
  <2>4. QED
    BY <2>2, <2>3
<1> DEFINE f == schedule[k]
<1> USE DEF SchedulerInvariant, WorkInvariant
<1>2. k \in NextDue(advancing) /\ Waiting' = Waiting \ {f}
  BY <1>1, SliceLeaves DEF SubmitChild, SlicesAreKnown
<1>3. PICK j \in DOMAIN schedule : e = schedule[j] /\ j # k
  BY <1>2 DEF Waiting, SeqX!ToSet
<1>4. /\ e.child.time \in Nat /\ f.child.time \in Nat /\ advancing \in Nat
      /\ e.child.sequence \in Nat /\ f.child.sequence \in Nat /\ j \in Nat /\ k \in Nat
  <2>1. /\ e.child \in Children /\ f.child \in Children /\ advancing \in Times
        /\ j \in Nat /\ k \in Nat
    BY <1>3, WaitingType DEF SchedulerTypeOK
  <2>2. QED
    BY <2>1, SchedulerAssumption DEF Children, Times
<1>5. f.child.time <= advancing /\ (j \in Due(advancing) => k <= j)
  BY <1>2 DEF NextDue, Due
<1>6. CASE j \in Due(advancing)
  <2>1. ~Precedes(e.child, f.child)
    BY <1>3, <1>4, <1>5, <1>6 DEF SlicesAreKnown, SlicesAreOrdered, Sorted
  <2>2. QED
    BY <1>1, <1>4, <2>1 DEF Precedes
<1>7. CASE j \notin Due(advancing)
  <2>1. ~(e.child.time <= advancing)
    BY <1>3, <1>7 DEF Due
  <2>2. e.child.time > f.child.time
    BY <1>4, <1>5, <2>1
  <2>3. QED
    BY <1>1, <1>4, <2>2
<1>8. QED
  BY <1>6, <1>7

\* Slices are submitted in the order they were planned for, across all parents.
THEOREM SlicesKeepTheirOrder == SchedulerSpec => NoChildIsOvertaken
<1>1. SchedulerInvariant /\ [SchedulerNext]_allVars =>
        [advancing # None /\ submitting = None /\ submitting' # None =>
           \A e \in Waiting' :
             /\ e.child.time >= submitting'.time
             /\ e.child.time = submitting'.time => e.child.sequence >= submitting'.sequence]_allVars
  BY FrontIsSubmitted
<1>2. QED
  BY <1>1, SchedulerIsConsistent, PTL DEF SchedulerSpec, NoChildIsOvertaken
-----------------------------------------------------------------------------
(***************************************************************************)
(* The last slice catches up.                                              *)
(***************************************************************************)
\* A last slice asks for everything that is left of its parent; what is left of the
\* child when the loop is over, no level of the other side would give it.
CatchUpInvariant ==
  CatchUp /\ advancing # None /\ submitting # None =>
    LET o == order[submitting.id]
        q == parent[submitting.parent]
    IN
    /\ q.pending = 0 => o.original = Unexecuted(q)
    /\ taker = None /\ error = "none" /\ o.remaining > 0 =>
         \A p \in levels[Opposite(q.side)] : ~Reaches(o, p)

\* The loop leaves an order unfilled only when no level is left that it reaches.
LEMMA LoopIsOver ==
  ASSUME BookInvariant, MatchingOver, order[taker].remaining > 0
  PROVE  \A p \in levels[Opposite(order[taker].side)] : ~Reaches(order[taker], p)
<1> DEFINE far == Opposite(order[taker].side)
           t == order[taker]
<1>1. taker \in Ids /\ t \in Orders /\ t.side \in Sides /\ t.price \in Prices \cup {0}
  BY DEF MatchingOver, BookInvariant, TypeOK, Orders
<1>2. far = (IF t.side = "Buy" THEN "Sell" ELSE "Buy") /\ far \in Sides
  BY <1>1 DEF Opposite, Sides
<1>3. levels[far] \subseteq Prices
  BY <1>2 DEF BookInvariant, TypeOK
<1>4. levels[far] = {} \/ \E p \in levels[far] : IsBest(far, p) /\ ~Reaches(t, p)
  BY <1>1 DEF MatchingOver, Orders
<1>5. ASSUME NEW p \in levels[far], IsBest(far, p), ~Reaches(t, p), NEW q \in levels[far]
      PROVE  ~Reaches(t, q)
  <2>1. p \in Nat /\ q \in Nat /\ t.price \in Nat
    <3>1. p \in Prices /\ q \in Prices
      BY <1>3, <1>5
    <3>2. Prices \subseteq Nat
      BY PricesAssumption
    <3>3. p \in Nat /\ q \in Nat
      BY <3>1, <3>2
    <3>4. t.price \in Nat
      <4>1. \A x : x \in Prices \cup {0} => x \in Nat
        BY <3>2
      <4>2. QED
        BY <1>1, <4>1, Zenon
    <3>5. QED
      BY <3>3, <3>4
  <2>2. q = p \/ (IF far = "Buy" THEN p > q ELSE p < q)
    BY <1>5 DEF IsBest, Better
  <2>3. QED
    BY <1>1, <1>2, <1>5, <2>1, <2>2 DEF Reaches, Sides
<1>6. QED
  BY <1>4, <1>5

\* The loop of a child in hand keeps the invariant: it ends with nothing left of the
\* child, with nothing left for it, or with an error.
LEMMA LoopCatchesUp ==
  ASSUME SchedulerInvariant, CatchUpInvariant, EngineStep
  PROVE  CatchUpInvariant'
<1> USE DEF SchedulerInvariant, WorkInvariant
<1>1. Match /\ UNCHANGED <<parent, advancing, submitting>>
  BY DEF EngineStep, schedulerVars
<1> SUFFICES ASSUME CatchUp, advancing # None, submitting # None
             PROVE  CatchUpInvariant'
  BY <1>1 DEF CatchUpInvariant
<1>2. PICK i : i = submitting.id
  OBVIOUS
<1> DEFINE q == parent[submitting.parent]
<1>3. /\ i \in Ids /\ taker \in {i, None} /\ order[i].side = q.side
      /\ q.pending = 0 => order[i].original = Unexecuted(q)
  BY <1>2 DEF ChildInHand, BookInvariant, TypeOK, CatchUpInvariant
<1>4. taker # None
  BY <1>1 DEF Match, Matching, MatchFront, CompleteTaker, CancelRemainder, Rest,
     RestOverflows, MatchingOver
<1>5. taker = i /\ q' = q /\ submitting'.id = i
  BY <1>1, <1>2, <1>3, <1>4
<1>6. /\ order'[i].original = order[i].original /\ order[i] \in Orders
      /\ order \in [Ids -> Orders] /\ order[i].side \in Sides
  BY <1>1, <1>3, LoopKeeps DEF BookInvariant, TypeOK, Orders
<1>7. ASSUME taker' = None, error' = "none", order'[i].remaining > 0
      PROVE  \A p \in levels'[Opposite(q.side)] : ~Reaches(order'[i], p)
  <2>1. CASE MatchFront
    BY <1>4, <1>7, <2>1 DEF MatchFront
  <2>2. CASE CompleteTaker
    BY <1>5, <1>7, <2>2 DEF CompleteTaker
  <2>3. CASE CancelRemainder
    <3>1. /\ order' = [order EXCEPT ![i] = Cancelled(@)] /\ levels' = levels
          /\ MatchingOver /\ order[taker].remaining > 0
      BY <1>5, <2>3 DEF CancelRemainder
    <3>2. order'[i] = Cancelled(order[i])
      BY <1>3, <1>6, <3>1
    <3>3. /\ order'[i].type = order[i].type /\ order'[i].side = order[i].side
          /\ order'[i].price = order[i].price
      BY <1>6, <3>2 DEF Cancelled, Orders
    <3>4. \A p \in levels[Opposite(q.side)] : ~Reaches(order[i], p)
      BY <1>3, <1>5, <3>1, LoopIsOver
    <3>5. QED
      BY <3>1, <3>3, <3>4 DEF Reaches
  <2>4. CASE Rest
    <3>1. order' = order /\ MatchingOver /\ order[taker].remaining > 0
      BY <2>4 DEF Rest
    <3>2. \A p \in levels[Opposite(q.side)] : ~Reaches(order[i], p)
      BY <1>3, <1>5, <3>1, LoopIsOver
    <3>3. levels'[Opposite(q.side)] = levels[Opposite(q.side)]
      <4>1. \E L : levels' = [levels EXCEPT ![order[i].side] = L]
        BY <1>5, <2>4 DEF Rest, SetLevel
      <4>2. Opposite(q.side) # order[i].side /\ Opposite(q.side) \in Sides
        BY <1>3, <1>6 DEF Opposite, Sides
      <4>3. QED
        BY <4>1, <4>2 DEF BookInvariant, TypeOK
    <3>4. QED
      BY <3>1, <3>2, <3>3
  <2>5. CASE RestOverflows
    BY <1>7, <2>5 DEF RestOverflows
  <2>6. QED
    BY <1>1, <2>1, <2>2, <2>3, <2>4, <2>5 DEF Match, Matching
<1>8. QED
  BY <1>1, <1>3, <1>5, <1>6, <1>7 DEF CatchUpInvariant

\* A slice that goes in hand last asks for everything that is left.
LEMMA LastSliceAsks ==
  ASSUME SchedulerInvariant, NEW k \in DOMAIN schedule, SubmitChild(k)
  PROVE  CatchUpInvariant'
<1> USE DEF SchedulerInvariant
<1> DEFINE c == schedule[k].child
           p == c.parent
           a == Activated(parent[p])
           new == [a EXCEPT !.pending = parent[p].pending - 1]
           quantity == SliceQuantity(parent[p], c.quantity)
<1>1. /\ submitting = None /\ ~IsTerminal(parent[p])
      /\ parent' = [parent EXCEPT ![p] = [Activated(parent[p]) EXCEPT !.pending = @ - 1]]
      /\ SendChild(c, quantity)
  BY DEF SubmitChild, CanGenerateChildren
<1>2. /\ p \in Parents /\ parent[p].pending - 1 \in Nat /\ Standing(parent[p])
      /\ c \in Children /\ quantity \in Quantities
  BY WaitingType, SliceIsCounted, SliceAtHand DEF WorkInvariant
<1>3. Standing(a) /\ SameBooks(parent[p], a) /\ a.pending = parent[p].pending
  BY <1>1, <1>2, ActivatedStands
<1>4. parent' = [parent EXCEPT ![p] = new]
  BY <1>1, <1>3
<1>5. new.pending = parent[p].pending - 1 /\ Unexecuted(new) = Unexecuted(parent[p])
  BY <1>3 DEF Standing, ParentRecords, SameBooks, Unexecuted
<1>6. parent[p].pending = 1 /\ CatchUp => quantity = Unexecuted(parent[p])
  BY DEF SliceQuantity
<1>7. parent[p].pending \in Nat
  BY <1>2 DEF Standing, ParentRecords
<1> HIDE DEF new, quantity
<1>8. parent'[p] = new
  BY <1>2, <1>4 DEF WorkInvariant, SchedulerTypeOK
<1>9. \/ NewInHand(c, quantity) /\ submitting' = c
      \/ submitting' = submitting
  BY <1>1, <1>2, SendChildStep
<1>10. CASE NewInHand(c, quantity) /\ submitting' = c
  <2>1. /\ order'[c.id].original = quantity /\ taker' = c.id /\ c.id \in Ids
        /\ submitting'.id = c.id /\ submitting'.parent = p
    BY <1>10 DEF NewInHand
  <2>2. taker' # None
    BY <2>1, NoneAssumption
  <2>3. CatchUp /\ parent'[p].pending = 0 => order'[c.id].original = Unexecuted(parent'[p])
    BY <1>5, <1>6, <1>7, <1>8, <2>1
  <2>4. QED
    BY <2>1, <2>2, <2>3 DEF CatchUpInvariant
<1>11. CASE submitting' = submitting
  BY <1>1, <1>11 DEF CatchUpInvariant
<1>12. QED
  BY <1>9, <1>10, <1>11

\* The invariant of the catch-up is inductive next to the scheduler's.
LEMMA CatchUpStep ==
  ASSUME SchedulerInvariant, CatchUpInvariant, [SchedulerNext]_allVars
  PROVE  CatchUpInvariant'
<1>1. CASE EngineStep
  BY <1>1, LoopCatchesUp
<1>2. ASSUME NEW k \in DOMAIN schedule, SubmitChild(k) PROVE CatchUpInvariant'
  BY <1>2, LastSliceAsks
<1>3. CASE UNCHANGED allVars
  BY <1>3 DEF CatchUpInvariant, allVars, vars, schedulerVars, Reaches
<1>4. CASE submitting' = None \/ advancing' = None
  BY <1>4 DEF CatchUpInvariant
<1>5. ASSUME NEW o \in Observations,
             IgnoreVolume(o) \/ ExpireOnVolume(o) \/ CountVolume(o) \/ Participate(o)
      PROVE  submitting' = None \/ advancing' = None
  BY <1>5 DEF IgnoreVolume, ExpireOnVolume, CountVolume, Participate, Observed, Quiet, SendChild
<1>6. ASSUME NEW o \in Offers, AddParent(o) PROVE submitting' = None
  BY <1>6 DEF AddParent, Quiet
<1>7. ASSUME NEW p \in Parents, CancelParent(p) PROVE submitting' = None
  BY <1>7 DEF CancelParent, Quiet
<1>8. ASSUME NEW t \in Times, StartAdvance(t) PROVE submitting' = None
  BY <1>8 DEF StartAdvance, Quiet
<1>9. ASSUME NEW k \in DOMAIN schedule, SkipChild(k) PROVE submitting' = None
  BY <1>9 DEF SkipChild
<1>10. CASE Record \/ Abort \/ FinishAdvance \/ Clients
  BY <1>4, <1>10 DEF Record, Abort, FinishAdvance, Clients, Quiet, schedulerVars
<1>11. QED
  BY <1>1, <1>2, <1>3, <1>4, <1>5, <1>6, <1>7, <1>8, <1>9, <1>10 DEF SchedulerNext, Running

\* When a last slice is recorded, it is filled or no level is left that it reaches.
LEMMA LastSliceReturns ==
  ASSUME SchedulerInvariant, CatchUpInvariant, [SchedulerNext]_allVars, NEW p \in Known,
         CatchUp, advancing # None, submitting # None, submitting.parent = p,
         submitting' = None, submitting.id \in parent'[p].children, parent[p].pending = 0
  PROVE  \/ parent'[p].status = "Filled"
         \/ \A q \in levels[Opposite(parent[p].side)] : ~Reaches(order[submitting.id], q)
<1> USE DEF SchedulerInvariant, WorkInvariant
<1>1. /\ submitting.id \in active \cup completed
      /\ submitting.id \notin parent[p].children
      /\ ~IsTerminal(parent[p]) /\ parent[p].known /\ p \in Parents
  BY DEF Known, ChildInHand
<1>2. Record
  <2>1. CASE Abort
    BY <1>1, <2>1 DEF Abort
  <2>2. CASE Clients \/ EngineStep \/ UNCHANGED allVars
    BY <1>1, <2>2 DEF Clients, EngineStep, allVars, schedulerVars
  <2>3. ASSUME NEW o \in Observations,
               IgnoreVolume(o) \/ ExpireOnVolume(o) \/ CountVolume(o) \/ Participate(o)
        PROVE  FALSE
    BY <2>3 DEF IgnoreVolume, ExpireOnVolume, CountVolume, Participate, Observed, Quiet
  <2>4. ASSUME NEW o \in Offers, AddParent(o) PROVE FALSE
    BY <2>4 DEF AddParent, Quiet
  <2>5. ASSUME NEW q \in Parents, CancelParent(q) PROVE FALSE
    BY <2>5 DEF CancelParent, Quiet
  <2>6. ASSUME NEW t \in Times, StartAdvance(t) PROVE FALSE
    BY <2>6 DEF StartAdvance, Quiet
  <2>7. ASSUME NEW k \in DOMAIN schedule, SkipChild(k) \/ SubmitChild(k) PROVE FALSE
    BY <2>7 DEF SkipChild, SubmitChild
  <2>8. QED
    BY <2>1, <2>2, <2>3, <2>4, <2>5, <2>6, <2>7 DEF SchedulerNext, Running, FinishAdvance
<1>3. PICK i : i = submitting.id
  OBVIOUS
<1>4. /\ i \in Ids /\ order[i] \in Orders /\ order[i].remaining \in Nat
      /\ order[i].original = Unexecuted(parent[p])
  <2>1. i \in Ids /\ order[i] \in Orders
    BY <1>1, <1>3 DEF BookInvariant, TypeOK
  <2>2. order[i].remaining \in Nat
    BY <2>1, MaxQuantityAssumption DEF Orders, Quantities
  <2>3. order[i].original = Unexecuted(parent[p])
    BY <1>3 DEF CatchUpInvariant
  <2>4. QED
    BY <2>1, <2>2, <2>3
<1>5. CASE order[i].remaining > 0
  BY <1>2, <1>3, <1>5 DEF CatchUpInvariant, Record
<1>6. CASE order[i].remaining = 0
  <2>1. Standing(parent[p]) /\ parent[p] \in ParentRecords /\ Unexecuted(parent[p]) \in Nat
    BY <1>1, KnownStands, UnexecutedType, MaxQuantityAssumption DEF Quantities, Standing
  <2>2. Unexecuted(parent[p]) # 0
    <3>1. parent[p].status # "Filled"
      BY <1>1 DEF IsTerminal
    <3>2. parent[p].total \in Nat /\ parent[p].executed \in Nat
      BY <2>1, MaxQuantityAssumption DEF ParentRecords, Quantities
    <3>3. QED
      BY <2>1, <3>1, <3>2 DEF Standing, Unexecuted
  <2>3. Executed(i) = Unexecuted(parent[p])
    BY <1>4, <1>6, <2>1 DEF Executed, FilledQuantity
  <2>4. parent'[p] = [RecordFill(parent[p], Executed(i)) EXCEPT
                        !.children = @ \cup {i}, !.fills = @ \cup TradesOf(i)]
    BY <1>1, <1>2, <1>3 DEF Record, SchedulerTypeOK
  <2>5. RecordFill(parent[p], Executed(i)).status = "Filled"
    BY <2>1, <2>2, <2>3 DEF RecordFill, ParentRecords
  <2>6. parent'[p].status = RecordFill(parent[p], Executed(i)).status
    BY <2>4 DEF RecordFill
  <2>7. QED
    BY <2>5, <2>6
<1>7. QED
  BY <1>4, <1>5, <1>6

\* With catch-up, the last slice of a schedule leaves its parent unfilled only when the
\* other side of the book has nothing more within the child's price.
THEOREM LastSlicesCatchUp == SchedulerSpec => LastSliceCatchesUp
<1>1. SchedulerInit => CatchUpInvariant
  BY DEF SchedulerInit, CatchUpInvariant
<1>2. SchedulerInvariant /\ CatchUpInvariant /\ [SchedulerNext]_allVars => CatchUpInvariant'
  BY CatchUpStep
<1>3. SchedulerInvariant /\ CatchUpInvariant /\ [SchedulerNext]_allVars =>
        [\A p \in Known :
           /\ CatchUp /\ advancing # None /\ submitting # None /\ submitting.parent = p
           /\ submitting' = None /\ submitting.id \in parent'[p].children
           /\ parent[p].pending = 0
           => \/ parent'[p].status = "Filled"
              \/ \A q \in levels[Opposite(parent[p].side)] :
                   ~Reaches(order[submitting.id], q)]_allVars
  BY LastSliceReturns
<1>4. QED
  BY <1>1, <1>2, <1>3, SchedulerIsConsistent, PTL DEF SchedulerSpec, LastSliceCatchesUp
-----------------------------------------------------------------------------
(***************************************************************************)
(* The promise to a parent's owner (WorkingOrder), when every child of a   *)
(* schedule is a market order: the child has left the book when submit     *)
(* returns, so that nothing is filled behind the parent's back.            *)
(***************************************************************************)
\* The schedules of add_parent hold market orders, as all the schedule builders' do: they
\* refuse limit children (twap.cpp:13, vwap.cpp:21, pov.cpp:14).
MarketOffers == \A o \in Offers : \A k \in DOMAIN o.schedule : o.schedule[k].type = "Market"

\* What the engine has filled of each order.
FilledOf == [i \in Ids |-> FilledQuantity(order[i])]

\* A parent's children are through, and what they were filled is what it has executed.
DealIsDone(p) ==
  LET q == parent[p] IN
  /\ ~q.known => q = BlankParent
  /\ q.known => q.total > 0
  /\ IsFiniteSet(q.children) /\ q.children \subseteq completed
  /\ q.executed = SumOver(FilledOf, q.children)

\* The child in submit_child is a market order, and through when the loop is over.
MarketInvariant ==
  /\ \A e \in Waiting : e.child.type = "Market"
  /\ submitting # None =>
       /\ order[submitting.id].type = "Market" /\ error = "none"
       /\ taker = None => submitting.id \in completed
  /\ \A p \in Parents : DealIsDone(p)

\* A step that leaves p's books alone, and does not take it up again.
DealStands(p) ==
  \/ parent'[p] = parent[p]
  \/ /\ parent[p].known /\ SameBooks(parent[p], parent'[p])
     /\ IsTerminal(parent[p]) => IsTerminal(parent'[p])

\* What the market filled, as a sum over the children.
LEMMA FilledIsSum ==
  ASSUME NEW p
  PROVE  /\ FilledIn(InMarket(p)) = SumOver(FilledOf, InMarket(p))
         /\ FilledIn(InMarket(p))' = SumOver(FilledOf', InMarket(p)')
BY SumOfTheModel DEF FilledIn, FilledOf

\* What is filled of an order is a number.
LEMMA FilledOfType ==
  ASSUME BookInvariant
  PROVE  \A i \in Ids : FilledOf[i] = FilledQuantity(order[i]) /\ FilledOf[i] \in Int
<1> SUFFICES ASSUME NEW i \in Ids PROVE FilledOf[i] = FilledQuantity(order[i]) /\ FilledOf[i] \in Int
  OBVIOUS
<1>1. order[i] \in Orders
  BY DEF BookInvariant, TypeOK
<1>2. order[i].original \in Nat /\ order[i].remaining \in Nat
  BY <1>1, MaxQuantityAssumption DEF Orders, Quantities
<1>3. QED
  BY <1>2 DEF FilledOf, FilledQuantity

\* The same of the next state.
LEMMA FilledOfTypeNext ==
  ASSUME BookInvariant'
  PROVE  \A i \in Ids : FilledOf'[i] = FilledQuantity(order'[i]) /\ FilledOf'[i] \in Int
<1> SUFFICES ASSUME NEW i \in Ids PROVE FilledOf'[i] = FilledQuantity(order'[i]) /\ FilledOf'[i] \in Int
  OBVIOUS
<1>1. order'[i] \in Orders
  BY DEF BookInvariant, TypeOK
<1>2. order'[i].original \in Nat /\ order'[i].remaining \in Nat
  BY <1>1, MaxQuantityAssumption DEF Orders, Quantities
<1>3. QED
  BY <1>2 DEF FilledOf, FilledQuantity

\* No step fills an order that is through.
LEMMA DoneStaysDone ==
  ASSUME BookInvariant, BookInvariant', AnyStep
  PROVE  /\ completed \subseteq completed'
         /\ \A S : IsFiniteSet(S) /\ S \subseteq completed =>
              SumOver(FilledOf', S) = SumOver(FilledOf, S)
<1>1. completed \subseteq completed' /\ \A i \in completed : order'[i] = order[i]
  BY EveryStepIsSound DEF StepIsSound, HistoryStep
<1>2. completed \subseteq Ids
  BY DEF BookInvariant, TypeOK
<1>3. \A i \in completed : FilledOf[i] \in Int /\ FilledOf'[i] = FilledOf[i]
  BY <1>1, <1>2, FilledOfType, FilledOfTypeNext
<1>4. ASSUME NEW S, IsFiniteSet(S), S \subseteq completed
      PROVE  SumOver(FilledOf', S) = SumOver(FilledOf, S)
  <2>1. \A i \in S : FilledOf[i] \in Int /\ FilledOf'[i] = FilledOf[i]
    BY <1>3, <1>4
  <2>2. QED
    BY <1>4, <2>1, SumSame
<1>5. QED
  BY <1>1, <1>4

\* A parent whose books are left alone stays done.
LEMMA DealStaysDone ==
  ASSUME BookInvariant, BookInvariant', AnyStep, NEW p \in Parents, DealIsDone(p), DealStands(p)
  PROVE  DealIsDone(p)' /\ SumOver(FilledOf', parent'[p].children) = SumOver(FilledOf, parent[p].children)
<1> DEFINE C == parent[p].children
<1>1. IsFiniteSet(C) /\ C \subseteq completed
  BY DEF DealIsDone
<1>2. C \subseteq completed' /\ SumOver(FilledOf', C) = SumOver(FilledOf, C)
  BY <1>1, DoneStaysDone
<1>3. parent'[p].children = C /\ parent'[p].executed = parent[p].executed
  BY DEF DealStands, SameBooks
<1>4. /\ ~parent'[p].known => parent'[p] = BlankParent
      /\ parent'[p].known => parent'[p].total > 0
  BY DEF DealStands, SameBooks, DealIsDone
<1>5. QED
  BY <1>1, <1>2, <1>3, <1>4 DEF DealIsDone

\* With no child of p in hand, what counts for p is in its books.
LEMMA NothingInHand ==
  ASSUME NEW p
  PROVE  /\ submitting = None \/ submitting.parent # p =>
              InMarket(p) = parent[p].children /\ OpenOf(p) = 0
         /\ submitting' = None \/ submitting'.parent # p =>
              InMarket(p)' = parent'[p].children /\ OpenOf(p)' = 0
BY DEF InMarket, OpenOf

\* A step that leaves p's books alone keeps the promise: nothing changes for the owner,
\* or the parent ends.
LEMMA StandingDealKeepsPromise ==
  ASSUME BookInvariant, BookInvariant', WorkInvariant, AnyStep, NEW p \in Parents,
         DealIsDone(p), DealStands(p),
         submitting = None \/ submitting.parent # p, submitting' = None \/ submitting'.parent # p
  PROVE  [Promise(p)!OrderNext]_(Promise(p)!orderVars)
<1>1. FilledIn(InMarket(p))' = FilledIn(InMarket(p))
  <2>1. InMarket(p) = parent[p].children /\ InMarket(p)' = parent'[p].children
    BY NothingInHand
  <2>2. SumOver(FilledOf', parent'[p].children) = SumOver(FilledOf, parent[p].children)
    BY DealStaysDone
  <2>3. /\ FilledIn(InMarket(p)) = SumOver(FilledOf, InMarket(p))
        /\ FilledIn(InMarket(p))' = SumOver(FilledOf', InMarket(p)')
    BY FilledIsSum
  <2>4. QED
    BY <2>1, <2>2, <2>3
<1>2. OpenOf(p) = 0 /\ OpenOf(p)' = 0
  BY NothingInHand
<1>3. parent'[p].total = parent[p].total
  BY DEF DealStands, SameBooks
<1>4. CASE IsTerminal(parent[p]) <=> IsTerminal(parent'[p])
  BY <1>1, <1>2, <1>3, <1>4 DEF Promise!orderVars, IsTerminal
<1>5. CASE ~IsTerminal(parent[p]) /\ IsTerminal(parent'[p])
  <2>1. parent[p].total > 0
    BY <1>5 DEF DealStands, DealIsDone
  <2>2. QED
    BY <1>1, <1>2, <1>3, <1>5, <2>1 DEF Promise!OrderNext, Promise!End, IsTerminal
<1>6. QED
  BY <1>4, <1>5 DEF DealStands

\* add_parent accepts the total of a parent it did not know.
LEMMA AddParentAccepts ==
  ASSUME SchedulerInvariant, MarketInvariant, MarketOffers, NEW o \in Offers, AddParent(o)
  PROVE  /\ MarketInvariant'
         /\ \A p \in Parents : [Promise(p)!OrderNext]_(Promise(p)!orderVars)
<1> USE DEF SchedulerInvariant
<1> DEFINE a == o.parent
           new == PendingParent(o.side, o.total, o.start, o.end, Len(o.schedule))
<1>1. /\ a \in Parents /\ o.total \in Quantities \ {0}
      /\ ~parent[a].known /\ parent' = [parent EXCEPT ![a] = new]
      /\ Waiting' = Waiting \cup Entries(o)
      /\ UNCHANGED vars /\ submitting = None /\ submitting' = None
  BY SchedulerAssumption, SlicesMerge DEF AddParent, ValidOffer, Quiet, WorkInvariant
<1>2. o.total \in Nat /\ o.total > 0
  BY <1>1, MaxQuantityAssumption DEF Quantities
<1>3. /\ new.known /\ new.total = o.total /\ new.children = {} /\ new.executed = 0
      /\ new.status = "Pending"
  BY DEF PendingParent
<1> HIDE DEF new
<1>4. parent'[a] = new /\ \A p \in Parents \ {a} : parent'[p] = parent[p]
  BY <1>1 DEF WorkInvariant, SchedulerTypeOK
<1>5. /\ order' = order /\ completed' = completed /\ FilledOf' = FilledOf
  BY <1>1 DEF vars, FilledOf
<1>6. SumOver(FilledOf, {}) = 0
  BY FS_EmptySet, SumTakes
<1>7. MarketInvariant'
  <2>1. \A e \in Waiting' : e.child.type = "Market"
    BY <1>1 DEF MarketInvariant, MarketOffers, Entries
  <2>2. DealIsDone(a)'
    BY <1>2, <1>3, <1>4, <1>5, <1>6, FS_EmptySet DEF DealIsDone
  <2>3. \A p \in Parents \ {a} : DealIsDone(p)'
    BY <1>4, <1>5 DEF MarketInvariant, DealIsDone
  <2>4. QED
    BY <1>1, <2>1, <2>2, <2>3 DEF MarketInvariant
<1>8. ASSUME NEW p \in Parents PROVE [Promise(p)!OrderNext]_(Promise(p)!orderVars)
  <2>1. /\ InMarket(p) = parent[p].children /\ InMarket(p)' = parent'[p].children
        /\ OpenOf(p) = 0 /\ OpenOf(p)' = 0
    BY <1>1, NothingInHand
  <2>2. parent[a] = BlankParent
    BY <1>1 DEF MarketInvariant, DealIsDone
  <2>3. parent[a].children = {} /\ parent[a].total = 0 /\ parent[a].status = "Pending"
    BY <2>2 DEF BlankParent, PendingParent
  <2>4. parent'[p].children = parent[p].children
    BY <1>3, <1>4, <2>3
  <2>5. FilledIn(InMarket(p))' = FilledIn(InMarket(p))
    BY <1>5, <2>1, <2>4, FilledIsSum
  <2>6. CASE p = a
    BY <1>2, <1>3, <1>4, <2>1, <2>3, <2>5, <2>6
    DEF Promise!OrderNext, Promise!Accept, IsTerminal
  <2>7. CASE p # a
    BY <1>4, <2>1, <2>5, <2>7 DEF Promise!orderVars, IsTerminal
  <2>8. QED
    BY <2>6, <2>7
<1>9. QED
  BY <1>7, <1>8

\* A step with no child in hand before and after it.
LEMMA QuietStepKeepsPromises ==
  ASSUME BookInvariant, BookInvariant', WorkInvariant, AnyStep, MarketInvariant,
         Waiting' \subseteq Waiting, submitting = None, submitting' = None,
         \A p \in Parents : DealStands(p)
  PROVE  /\ MarketInvariant'
         /\ \A p \in Parents : [Promise(p)!OrderNext]_(Promise(p)!orderVars)
<1>1. \A p \in Parents : DealIsDone(p)
  BY DEF MarketInvariant
<1>2. \A p \in Parents : DealIsDone(p)'
  BY <1>1, DealStaysDone
<1>3. MarketInvariant'
  BY <1>2 DEF MarketInvariant
<1>4. \A p \in Parents : [Promise(p)!OrderNext]_(Promise(p)!orderVars)
  BY <1>1, StandingDealKeepsPromise
<1>5. QED
  BY <1>3, <1>4

\* Most steps change no books at all.
LEMMA DealsStand ==
  ASSUME SchedulerInvariant, [SchedulerNext]_allVars
  PROVE  \/ \E o \in Offers : AddParent(o)
         \/ Record
         \/ \A p \in Parents : DealStands(p)
<1> USE DEF SchedulerInvariant, WorkInvariant
<1>1. parent \in [Parents -> ParentRecords]
  BY DEF SchedulerTypeOK
<1>2. ASSUME NEW p \in Parents, parent[p].known, ~IsTerminal(parent[p]), NEW new,
             SameBooks(parent[p], new), parent' = [parent EXCEPT ![p] = new]
      PROVE  \A q \in Parents : DealStands(q)
  BY <1>1, <1>2 DEF DealStands
<1>3. ASSUME NEW p \in Parents, CancelParent(p) PROVE \A q \in Parents : DealStands(q)
  <2> DEFINE new == [parent[p] EXCEPT !.status = "Cancelled"]
  <2>1. SameBooks(parent[p], new)
    BY <1>1 DEF SameBooks, ParentRecords
  <2>2. /\ parent[p].known /\ ~IsTerminal(parent[p])
        /\ parent' = [parent EXCEPT ![p] = new]
    BY <1>3 DEF CancelParent
  <2> HIDE DEF new
  <2>3. QED
    BY <1>2, <2>1, <2>2
<1>4. ASSUME NEW t \in Times, StartAdvance(t) PROVE \A q \in Parents : DealStands(q)
  BY <1>4 DEF StartAdvance, DealStands
<1>5. ASSUME NEW o \in Observations, IgnoreVolume(o) PROVE \A q \in Parents : DealStands(q)
  BY <1>5 DEF IgnoreVolume, DealStands
<1>6. ASSUME NEW o \in Observations, ExpireOnVolume(o) PROVE \A q \in Parents : DealStands(q)
  <2> DEFINE new == [parent[o.parent] EXCEPT !.status = "Expired"]
  <2>1. o.parent \in Parents /\ parent[o.parent].known
    BY <1>6, SchedulerAssumption DEF ExpireOnVolume, Observed
  <2>2. SameBooks(parent[o.parent], new)
    BY <1>1, <2>1 DEF SameBooks, ParentRecords
  <2>3. ~IsTerminal(parent[o.parent]) /\ parent' = [parent EXCEPT ![o.parent] = new]
    BY <1>6 DEF ExpireOnVolume, CanGenerateChildren
  <2> HIDE DEF new
  <2>4. QED
    BY <1>2, <2>1, <2>2, <2>3
<1>7. ASSUME NEW o \in Observations, CountVolume(o) \/ Participate(o)
      PROVE  \A q \in Parents : DealStands(q)
  <2> DEFINE new == Counted(parent[o.parent], o)
  <2>1. o.parent \in Parents /\ parent[o.parent].known
    BY <1>7, SchedulerAssumption DEF CountVolume, Participate, Observed
  <2>2. SameBooks(parent[o.parent], new)
    BY <1>1, <2>1 DEF SameBooks, ParentRecords, Counted, Activated
  <2>3. ~IsTerminal(parent[o.parent]) /\ parent' = [parent EXCEPT ![o.parent] = new]
    BY <1>7 DEF CountVolume, Participate, InWindow, CanGenerateChildren
  <2> HIDE DEF new
  <2>4. QED
    BY <1>2, <2>1, <2>2, <2>3
<1>8. ASSUME NEW k \in DOMAIN schedule, SubmitChild(k) PROVE \A q \in Parents : DealStands(q)
  <2> DEFINE p == schedule[k].child.parent
             new == [Activated(parent[p]) EXCEPT !.pending = @ - 1]
  <2>1. p \in Parents /\ parent[p].known
    BY SliceAtHand, WaitingType
  <2>2. SameBooks(parent[p], new)
    BY <1>1, <2>1 DEF SameBooks, ParentRecords, Activated
  <2>3. ~IsTerminal(parent[p]) /\ parent' = [parent EXCEPT ![p] = new]
    BY <1>8 DEF SubmitChild, CanGenerateChildren
  <2> HIDE DEF new
  <2>4. QED
    BY <1>2, <2>1, <2>2, <2>3
<1>9. ASSUME NEW k \in DOMAIN schedule, SkipChild(k) PROVE \A q \in Parents : DealStands(q)
  <2> DEFINE p == schedule[k].child.parent
             new == [parent[p] EXCEPT !.pending = parent[p].pending - 1]
  <2>1. p \in Parents /\ parent[p].known
    BY SliceAtHand, WaitingType
  <2>2. SameBooks(parent[p], new) /\ new.status = parent[p].status
    BY <1>1, <2>1 DEF SameBooks, ParentRecords
  <2>3. parent' = [parent EXCEPT ![p] = new]
    BY <1>9 DEF SkipChild
  <2> HIDE DEF new
  <2>4. parent'[p] = new /\ \A q \in Parents \ {p} : parent'[q] = parent[q]
    BY <1>1, <2>1, <2>3
  <2>5. QED
    BY <2>1, <2>2, <2>4 DEF DealStands, IsTerminal
<1>10. CASE FinishAdvance
  <2> SUFFICES ASSUME NEW p \in Parents PROVE DealStands(p)
    OBVIOUS
  <2>1. \/ parent'[p] = parent[p]
        \/ /\ parent[p].known /\ ~IsTerminal(parent[p])
           /\ parent'[p] = [parent[p] EXCEPT !.status = "Expired"]
    BY <1>10 DEF FinishAdvance
  <2>2. SameBooks(parent[p], [parent[p] EXCEPT !.status = "Expired"])
    BY <1>1 DEF SameBooks, ParentRecords
  <2>3. QED
    BY <2>1, <2>2 DEF DealStands
<1>11. CASE Abort \/ Clients \/ EngineStep \/ UNCHANGED allVars
  BY <1>11 DEF Abort, Clients, EngineStep, allVars, schedulerVars, DealStands
<1>12. QED
  BY <1>3, <1>4, <1>5, <1>6, <1>7, <1>8, <1>9, <1>10, <1>11 DEF SchedulerNext, Running

\* With a child of p in hand, what counts for p is in its books and on the child.
LEMMA SomethingInHand ==
  ASSUME NEW p
  PROVE  /\ submitting # None /\ submitting.parent = p =>
              /\ InMarket(p) = parent[p].children \cup {submitting.id}
              /\ OpenOf(p) = IF submitting.id \in active
                             THEN order[submitting.id].remaining ELSE 0
         /\ submitting' # None /\ submitting'.parent = p =>
              /\ InMarket(p)' = parent'[p].children \cup {submitting'.id}
              /\ OpenOf(p)' = IF submitting'.id \in active'
                              THEN order'[submitting'.id].remaining ELSE 0
BY DEF InMarket, OpenOf

\* A child that goes in hand is placed: it asks for no more than its parent has left.
LEMMA GoesToMarket ==
  ASSUME SchedulerInvariant, SchedulerInvariant', AnyStep, MarketInvariant,
         NEW c \in Children, c.type = "Market", NEW quantity \in Quantities,
         NewInHand(c, quantity), submitting = None, submitting' = c,
         Waiting' \subseteq Waiting, \A p \in Parents : DealStands(p)
  PROVE  /\ MarketInvariant'
         /\ \A p \in Parents : [Promise(p)!OrderNext]_(Promise(p)!orderVars)
<1>1. /\ c.id \in Ids /\ c.id \notin active \cup completed /\ c.id \in active'
      /\ taker' = c.id /\ error' = "none" /\ quantity # 0
      /\ order'[c.id].original = quantity /\ order'[c.id].remaining = quantity
      /\ order'[c.id].type = "Market"
  BY DEF NewInHand
<1> USE DEF SchedulerInvariant
<1>2. c # None /\ taker' # None /\ quantity \in Nat
  BY <1>1, SchedulerAssumption, NoneAssumption, MaxQuantityAssumption DEF Quantities
<1>3. \A p \in Parents : DealIsDone(p)
  BY DEF MarketInvariant
<1>4. MarketInvariant'
  <2>1. \A p \in Parents : DealIsDone(p)'
    BY <1>3, DealStaysDone
  <2>2. QED
    BY <1>1, <1>2, <2>1 DEF MarketInvariant
<1>5. ASSUME NEW p \in Parents, p # c.parent
      PROVE  [Promise(p)!OrderNext]_(Promise(p)!orderVars)
  BY <1>3, <1>5, StandingDealKeepsPromise
<1>6. ASSUME NEW p \in Parents, p = c.parent
      PROVE  [Promise(p)!OrderNext]_(Promise(p)!orderVars)
  <2> DEFINE C == parent[p].children
  <2>1. /\ ~IsTerminal(parent'[p]) /\ quantity <= Unexecuted(parent'[p])
    BY <1>1, <1>2, <1>6 DEF WorkInvariant, ChildInHand
  <2>2. /\ ~IsTerminal(parent[p]) /\ parent'[p].total = parent[p].total
        /\ parent'[p].children = C /\ Unexecuted(parent'[p]) = Unexecuted(parent[p])
    BY <2>1 DEF DealStands, SameBooks, Unexecuted
  <2>3. InMarket(p) = C /\ OpenOf(p) = 0
    BY NothingInHand
  <2>4. InMarket(p)' = C \cup {c.id} /\ OpenOf(p)' = quantity
    BY <1>1, <1>2, <1>6, <2>2, SomethingInHand
  <2>5. IsFiniteSet(C) /\ C \subseteq completed /\ parent[p].executed = SumOver(FilledOf, C)
    BY <1>3 DEF DealIsDone
  <2>6. SumOver(FilledOf', C) = SumOver(FilledOf, C)
    BY <2>5, DoneStaysDone
  <2>7. FilledOf'[c.id] = 0
    BY <1>1, <1>2, FilledOfTypeNext DEF FilledQuantity
  <2>8. SumOver(FilledOf', C \cup {c.id}) = SumOver(FilledOf', C)
    <3>1. c.id \notin C /\ C \subseteq Ids
      BY <1>1, <2>5 DEF BookInvariant, TypeOK
    <3>2. \A i \in C \cup {c.id} : FilledOf'[i] \in Int
      BY <1>1, <3>1, FilledOfTypeNext
    <3>3. SumOver(FilledOf', C \cup {c.id}) = SumOver(FilledOf', C) + FilledOf'[c.id]
      <4> DEFINE f == FilledOf'
      <4>1. IsFiniteSet(C) /\ c.id \notin C /\ \A i \in C \cup {c.id} : f[i] \in Int
        BY <2>5, <3>1, <3>2
      <4> HIDE DEF f, C
      <4>2. SumOver(f, C \cup {c.id}) = SumOver(f, C) + f[c.id]
        BY <4>1, SumAddsOne
      <4>3. QED
        BY <4>2 DEF f
    <3>4. SumOver(FilledOf', C) \in Int
      BY <2>5, <3>2, SumTakes
    <3>5. QED
      BY <2>7, <3>3, <3>4
  <2>9. /\ FilledIn(InMarket(p)) = parent[p].executed
        /\ FilledIn(InMarket(p))' = parent[p].executed
    BY <2>3, <2>4, <2>5, <2>6, <2>8, FilledIsSum
  <2>10. OpenOf(p)' > 0 /\ OpenOf(p)' <= parent[p].total - FilledIn(InMarket(p))
    BY <1>1, <1>2, <2>1, <2>2, <2>4, <2>9 DEF Unexecuted
  <2>11. QED
    BY <2>1, <2>2, <2>3, <2>9, <2>10 DEF Promise!OrderNext, Promise!Place, IsTerminal
<1>7. QED
  BY <1>4, <1>5, <1>6

\* The loop fills the child in hand, and gives back what the market does not take.
LEMMA LoopKeepsPromises ==
  ASSUME SchedulerInvariant, SchedulerInvariant', AnyStep, MarketInvariant,
         EngineStep, submitting # None
  PROVE  /\ MarketInvariant'
         /\ \A p \in Parents : [Promise(p)!OrderNext]_(Promise(p)!orderVars)
<1> USE DEF SchedulerInvariant
<1>1. /\ Match /\ parent' = parent /\ Waiting' = Waiting /\ submitting' = submitting
  BY DEF EngineStep, schedulerVars, Waiting
<1>2. PICK i : i = submitting.id
  OBVIOUS
<1>3. taker # None
  BY <1>1 DEF Match, Matching, MatchFront, CompleteTaker, CancelRemainder, Rest,
     RestOverflows, MatchingOver
<1>4. /\ taker = i /\ order[i].type = "Market" /\ error = "none"
      /\ \A p \in Parents : i \notin parent[p].children
  BY <1>2, <1>3 DEF WorkInvariant, ChildInHand, MarketInvariant
<1>5. /\ i \in Ids /\ i \in active /\ order \in [Ids -> Orders] /\ order[i] \in Orders
      /\ order'[i] \in Orders
  BY <1>3, <1>4 DEF BookInvariant, TypeOK, TakerInHand
<1>6. /\ order[i].original \in Nat /\ order[i].remaining \in Nat
      /\ order'[i].original \in Nat /\ order'[i].remaining \in Nat
  BY <1>5, MaxQuantityAssumption DEF Orders, Quantities
<1>7. order'[i].original = order[i].original /\ order'[i].type = "Market"
  BY <1>1, <1>4, <1>5, LoopKeeps
<1>8. \A p \in Parents : DealIsDone(p) /\ DealStands(p)
  BY <1>1 DEF MarketInvariant, DealStands
\* What the three ways a market order takes through the loop do to it.
<1>9. \/ /\ taker' = i /\ error' = "none" /\ i \in active'
         /\ order'[i].remaining < order[i].remaining
      \/ /\ taker' = None /\ error' = "none" /\ i \notin active' /\ i \in completed'
         /\ order'[i].remaining = order[i].remaining
  <2>1. CASE MatchFront
    <3>1. PICK trade \in Trades : order'[i] = Fill(order[i], trade.quantity, trade.price)
      <4>1. PICK maker \in active \ {taker}, trade \in Trades :
              \A j \in Ids : order'[j] = IF j \in {maker, taker}
                                        THEN Fill(order[j], trade.quantity, trade.price)
                                        ELSE order[j]
        BY <1>1, <2>1, PartiesOfFill DEF Match
      <4>2. order'[i] = Fill(order[i], trade.quantity, trade.price)
        BY <1>4, <1>5, <4>1
      <4>3. QED
        BY <4>2
    <3>2. trade.quantity \in Nat /\ trade.quantity > 0
      BY <3>1, MaxQuantityAssumption DEF Trades
    <3>3. order'[i].remaining = order[i].remaining - trade.quantity
      BY <1>5, <3>1 DEF Fill, Orders
    <3>4. taker' = taker /\ error' = error
      BY <2>1 DEF MatchFront
    <3>5. i \in active'
      BY <1>3, <1>4, <3>4 DEF BookInvariant, TakerInHand
    <3>6. QED
      BY <1>4, <1>6, <3>2, <3>3, <3>4, <3>5
  <2>2. CASE CompleteTaker
    BY <1>4, <2>2 DEF CompleteTaker, Complete
  <2>3. CASE CancelRemainder
    <3>1. order'[i] = Cancelled(order[i])
      BY <1>4, <1>5, <2>3 DEF CancelRemainder
    <3>2. order'[i].remaining = order[i].remaining
      BY <1>5, <3>1 DEF Cancelled, Orders
    <3>3. QED
      BY <1>4, <2>3, <3>2 DEF CancelRemainder, Complete
  <2>4. CASE Rest \/ RestOverflows
    BY <1>4, <2>4 DEF Rest, RestOverflows
  <2>5. QED
    BY <1>1, <2>1, <2>2, <2>3, <2>4 DEF Match, Matching
<1>10. MarketInvariant'
  <2>1. \A p \in Parents : DealIsDone(p)'
    BY <1>8, DealStaysDone
  <2>2. i # None
    BY <1>5, NoneAssumption
  <2>3. QED
    BY <1>1, <1>2, <1>7, <1>9, <2>1, <2>2 DEF MarketInvariant
<1>11. ASSUME NEW p \in Parents, p # submitting.parent
       PROVE  [Promise(p)!OrderNext]_(Promise(p)!orderVars)
  BY <1>1, <1>8, <1>11, StandingDealKeepsPromise
<1>12. ASSUME NEW p \in Parents, p = submitting.parent
       PROVE  [Promise(p)!OrderNext]_(Promise(p)!orderVars)
  <2> DEFINE C == parent[p].children
  <2>1. /\ InMarket(p) = C \cup {i} /\ InMarket(p)' = C \cup {i}
        /\ OpenOf(p) = order[i].remaining
        /\ OpenOf(p)' = IF i \in active' THEN order'[i].remaining ELSE 0
    BY <1>1, <1>2, <1>5, <1>12, SomethingInHand
  <2>2. IsFiniteSet(C) /\ C \subseteq completed /\ C \subseteq Ids /\ i \notin C
    BY <1>4, <1>8 DEF DealIsDone, BookInvariant, TypeOK
  <2>3. SumOver(FilledOf', C) = SumOver(FilledOf, C)
    BY <2>2, DoneStaysDone
  <2>4. /\ \A j \in C \cup {i} : FilledOf[j] \in Int /\ FilledOf'[j] \in Int
        /\ FilledOf[i] = order[i].original - order[i].remaining
        /\ FilledOf'[i] = order'[i].original - order'[i].remaining
    BY <1>5, <2>2, FilledOfType, FilledOfTypeNext DEF FilledQuantity
  <2>5. SumOver(FilledOf, C \cup {i}) = SumOver(FilledOf, C) + FilledOf[i]
    BY <2>2, <2>4, SumAddsOne
  <2>6. SumOver(FilledOf', C \cup {i}) = SumOver(FilledOf', C) + FilledOf'[i]
    BY <2>2, <2>4, SumAddsOne
  <2>7. SumOver(FilledOf, C) \in Int
    BY <2>2, <2>4, SumTakes
  <2>8. FilledIn(InMarket(p))' = FilledIn(InMarket(p)) + (order[i].remaining - order'[i].remaining)
    <3>1. /\ FilledIn(InMarket(p)) = SumOver(FilledOf, C \cup {i})
          /\ FilledIn(InMarket(p))' = SumOver(FilledOf', C \cup {i})
      BY <2>1, FilledIsSum
    <3>2. \A s, m, r, t \in Int : s + (m - t) = (s + (m - r)) + (r - t)
      OBVIOUS
    <3>3. QED
      BY <1>6, <1>7, <2>3, <2>4, <2>5, <2>6, <2>7, <3>1, <3>2
  <2>9. FilledIn(InMarket(p)) \in Int
    <3>1. FilledOf[i] \in Int
      BY <2>4
    <3>2. SumOver(FilledOf, C \cup {i}) \in Int
      BY <2>5, <2>7, <3>1
    <3>3. QED
      BY <2>1, <3>2, FilledIsSum
  <2>10. UNCHANGED <<parent[p].total, IsTerminal(parent[p])>>
    BY <1>1 DEF IsTerminal
  <2>11. CASE i \in active'
    <3>1. OpenOf(p)' = order'[i].remaining /\ order'[i].remaining < order[i].remaining
      BY <1>9, <2>1, <2>11
    <3>2. /\ OpenOf(p)' >= 0 /\ OpenOf(p)' < OpenOf(p)
          /\ FilledIn(InMarket(p))' = FilledIn(InMarket(p)) + (OpenOf(p) - OpenOf(p)')
      BY <1>6, <2>1, <2>8, <3>1
    <3>3. QED
      BY <1>1, <3>2 DEF Promise!OrderNext, Promise!Fill, IsTerminal
  <2>12. CASE i \notin active'
    <3>1. OpenOf(p)' = 0 /\ order'[i].remaining = order[i].remaining
      BY <1>9, <2>1, <2>12
    <3>2. FilledIn(InMarket(p))' = FilledIn(InMarket(p))
      BY <1>6, <2>8, <2>9, <3>1
    <3>3. CASE order[i].remaining = 0
      BY <1>1, <2>1, <3>1, <3>2, <3>3 DEF Promise!orderVars, IsTerminal
    <3>4. CASE order[i].remaining > 0
      BY <1>1, <2>1, <3>1, <3>2, <3>4 DEF Promise!OrderNext, Promise!Return, IsTerminal
    <3>5. QED
      BY <1>6, <3>3, <3>4
  <2>13. QED
    BY <2>11, <2>12
<1>13. QED
  BY <1>10, <1>11, <1>12

\* What was filled of the child is recorded: the owner sees at most the parent end.
LEMMA RecordKeepsPromises ==
  ASSUME SchedulerInvariant, SchedulerInvariant', AnyStep, MarketInvariant, Record
  PROVE  /\ MarketInvariant'
         /\ \A p \in Parents : [Promise(p)!OrderNext]_(Promise(p)!orderVars)
<1> USE DEF SchedulerInvariant
<1>1. PICK i, a : i = submitting.id /\ a = submitting.parent
  OBVIOUS
<1> DEFINE C == parent[a].children
           r == RecordFill(parent[a], Executed(i))
           new == [r EXCEPT !.children = @ \cup {i}, !.fills = @ \cup TradesOf(i)]
<1>2. /\ submitting # None /\ taker = None /\ submitting' = None
      /\ parent' = [parent EXCEPT ![a] = new]
      /\ UNCHANGED vars /\ Waiting' = Waiting
  BY <1>1 DEF Record, Waiting
<1>3. /\ a \in Parents /\ parent[a].known /\ ~IsTerminal(parent[a])
      /\ i \in completed /\ i \in Ids /\ i \notin active /\ i \notin C
  BY <1>1, <1>2
  DEF WorkInvariant, SchedulerTypeOK, Children, ChildInHand, MarketInvariant, BookInvariant,
      OneMapPerId, TypeOK
<1>4. /\ parent \in [Parents -> ParentRecords]
      /\ DealIsDone(a) /\ parent[a].total > 0
  BY <1>3 DEF WorkInvariant, SchedulerTypeOK, MarketInvariant, DealIsDone
<1>5. /\ new.total = parent[a].total /\ new.children = C \cup {i}
      /\ new.executed = parent[a].executed + Executed(i)
  BY <1>3, <1>4 DEF RecordFill, ParentRecords
<1>6. new.known = parent[a].known
  BY <1>3, <1>4 DEF RecordFill, ParentRecords
<1> HIDE DEF new
<1>7. parent'[a] = new /\ \A p \in Parents \ {a} : parent'[p] = parent[p]
  BY <1>2, <1>3, <1>4
<1>8. order' = order /\ completed' = completed /\ active' = active /\ FilledOf' = FilledOf
  BY <1>2 DEF vars, FilledOf
<1>9. /\ IsFiniteSet(C) /\ C \subseteq completed /\ completed \subseteq Ids
      /\ parent[a].executed = SumOver(FilledOf, C)
  BY <1>4 DEF DealIsDone, BookInvariant, TypeOK
<1>10. SumOver(FilledOf, C \cup {i}) = SumOver(FilledOf, C) + Executed(i)
  <2>1. \A j \in C \cup {i} : FilledOf[j] \in Int
    BY <1>3, <1>9, FilledOfType
  <2>2. FilledOf[i] = Executed(i)
    BY <1>3, FilledOfType DEF Executed
  <2>3. QED
    BY <1>3, <1>9, <2>1, <2>2, SumAddsOne
<1>11. IsFiniteSet(C \cup {i}) /\ C \cup {i} \subseteq completed
  BY <1>3, <1>9, FS_AddElement
<1>12. MarketInvariant'
  <2>1. DealIsDone(a)'
    BY <1>3, <1>4, <1>5, <1>6, <1>7, <1>8, <1>9, <1>10, <1>11 DEF DealIsDone
  <2>2. \A p \in Parents \ {a} : DealIsDone(p)'
    BY <1>7, <1>8 DEF MarketInvariant, DealIsDone
  <2>3. QED
    BY <1>2, <2>1, <2>2 DEF MarketInvariant
<1>13. ASSUME NEW p \in Parents, p # a PROVE [Promise(p)!OrderNext]_(Promise(p)!orderVars)
  <2>1. DealIsDone(p) /\ DealStands(p)
    BY <1>7, <1>13 DEF MarketInvariant, DealStands
  <2>2. QED
    BY <1>1, <1>2, <1>13, <2>1, StandingDealKeepsPromise
<1>14. [Promise(a)!OrderNext]_(Promise(a)!orderVars)
  <2>1. InMarket(a) = C \cup {i} /\ OpenOf(a) = 0
    BY <1>1, <1>2, <1>3, SomethingInHand
  <2>2. InMarket(a)' = C \cup {i} /\ OpenOf(a)' = 0
    BY <1>2, <1>5, <1>7, NothingInHand
  <2>3. FilledIn(InMarket(a))' = FilledIn(InMarket(a))
    BY <1>8, <2>1, <2>2, FilledIsSum
  <2>4. parent'[a].total = parent[a].total
    BY <1>5, <1>7
  <2>5. CASE IsTerminal(parent'[a])
    BY <1>3, <1>4, <2>1, <2>2, <2>3, <2>4, <2>5 DEF Promise!OrderNext, Promise!End, IsTerminal
  <2>6. CASE ~IsTerminal(parent'[a])
    BY <1>3, <2>1, <2>2, <2>3, <2>4, <2>6 DEF Promise!orderVars, IsTerminal
  <2>7. QED
    BY <2>5, <2>6
<1>15. QED
  BY <1>12, <1>13, <1>14

\* Every step keeps the promise to every parent's owner.
LEMMA MarketStep ==
  ASSUME SchedulerInvariant, SchedulerInvariant', MarketInvariant, MarketOffers,
         [SchedulerNext]_allVars
  PROVE  /\ MarketInvariant'
         /\ \A p \in Parents : [Promise(p)!OrderNext]_(Promise(p)!orderVars)
<1> DEFINE Goal == /\ MarketInvariant'
                   /\ \A p \in Parents : [Promise(p)!OrderNext]_(Promise(p)!orderVars)
<1> HIDE DEF Goal
<1>1. AnyStep
  BY SchedulerTakesAnyStep
<1>2. ASSUME NEW o \in Offers, AddParent(o) PROVE Goal
  BY <1>2, AddParentAccepts DEF Goal
<1>3. ASSUME Record PROVE Goal
  BY <1>1, <1>3, RecordKeepsPromises DEF Goal
<1> SUFFICES ASSUME \A p \in Parents : DealStands(p) PROVE Goal
  BY <1>2, <1>3, DealsStand DEF Goal
<1>4. ASSUME Waiting' \subseteq Waiting, submitting = None, submitting' = None PROVE Goal
  BY <1>1, <1>4, QuietStepKeepsPromises DEF Goal, SchedulerInvariant
<1>5. ASSUME Waiting' \subseteq Waiting, submitting = None,
             NEW c \in Children, c.type = "Market", NEW quantity \in Quantities,
             SendChild(c, quantity)
      PROVE  Goal
  <2>1. CASE NewInHand(c, quantity) /\ submitting' = c
    BY <1>1, <1>5, <2>1, GoesToMarket DEF Goal
  <2>2. CASE submitting' = submitting
    BY <1>4, <1>5, <2>2
  <2>3. QED
    BY <1>5, <2>1, <2>2, SendChildStep DEF SchedulerInvariant
<1>6. ASSUME NEW o \in Observations, Participate(o) PROVE Goal
  <2>1. /\ Observed(o) /\ submitting = None /\ Waiting' = Waiting
        /\ SendChild(POVChild(o), POVQuantity(parent[o.parent], o))
    BY <1>6 DEF Participate, POVChild, Observed, Quiet, Waiting
  <2>2. POVChild(o) \in Children /\ POVQuantity(parent[o.parent], o) \in Quantities
    BY <2>1, VolumeAtHand DEF SchedulerInvariant
  <2>3. POVChild(o).type = "Market"
    BY DEF POVChild
  <2>4. QED
    BY <1>5, <2>1, <2>2, <2>3
<1>7. ASSUME NEW k \in DOMAIN schedule, SubmitChild(k) PROVE Goal
  <2> DEFINE e == schedule[k]
  <2>1. /\ submitting = None /\ Waiting' \subseteq Waiting /\ e \in Waiting
        /\ SendChild(e.child, SliceQuantity(parent[e.child.parent], e.child.quantity))
    BY <1>7, SliceLeaves, WaitingType
    DEF SubmitChild, SchedulerInvariant, WorkInvariant, SlicesAreKnown
  <2> HIDE DEF e
  <2>2. /\ e.child \in Children
        /\ SliceQuantity(parent[e.child.parent], e.child.quantity) \in Quantities
    BY <2>1, SliceAtHand DEF SchedulerInvariant
  <2>3. e.child.type = "Market"
    BY <2>1 DEF MarketInvariant
  <2>4. QED
    BY <1>5, <2>1, <2>2, <2>3
<1>8. CASE EngineStep \/ UNCHANGED allVars
  <2>1. CASE EngineStep /\ submitting # None
    BY <1>1, <2>1, LoopKeepsPromises DEF Goal
  <2>2. CASE submitting = None
    BY <1>4, <1>8, <2>2 DEF EngineStep, allVars, schedulerVars, Waiting
  <2>3. CASE UNCHANGED allVars
    <3>1. /\ order' = order /\ active' = active /\ completed' = completed /\ taker' = taker
          /\ error' = error /\ parent' = parent /\ Waiting' = Waiting
          /\ submitting' = submitting
      BY <2>3 DEF allVars, vars, schedulerVars, Waiting
    <3>2. FilledOf' = FilledOf
      BY <3>1 DEF FilledOf
    <3>3. MarketInvariant'
      BY <3>1, <3>2 DEF MarketInvariant, DealIsDone
    <3>4. ASSUME NEW p \in Parents PROVE UNCHANGED Promise(p)!orderVars
      <4>1. InMarket(p)' = InMarket(p) /\ OpenOf(p)' = OpenOf(p)
        BY <3>1 DEF InMarket, OpenOf
      <4>2. FilledIn(InMarket(p))' = FilledIn(InMarket(p))
        BY <3>2, <4>1, FilledIsSum
      <4>3. QED
        BY <3>1, <4>1, <4>2 DEF Promise!orderVars, IsTerminal
    <3>5. QED
      BY <3>3, <3>4 DEF Goal
  <2>4. QED
    BY <1>8, <2>1, <2>2, <2>3
<1>9. CASE Abort
  BY <1>9 DEF Abort, MarketInvariant
<1>10. CASE FinishAdvance \/ Clients
  BY <1>4, <1>10 DEF FinishAdvance, Clients, Quiet, schedulerVars, Waiting
<1>11. ASSUME NEW p \in Parents, CancelParent(p) PROVE Goal
  BY <1>4, <1>11 DEF CancelParent, Quiet, Waiting
<1>12. ASSUME NEW t \in Times, StartAdvance(t) PROVE Goal
  BY <1>4, <1>12 DEF StartAdvance, Quiet, Waiting
<1>13. ASSUME NEW o \in Observations, IgnoreVolume(o) \/ ExpireOnVolume(o) \/ CountVolume(o)
       PROVE  Goal
  BY <1>4, <1>13 DEF IgnoreVolume, ExpireOnVolume, CountVolume, Observed, Quiet, Waiting
<1>14. ASSUME NEW k \in DOMAIN schedule, SkipChild(k) PROVE Goal
  <2>1. Waiting' \subseteq Waiting
    BY <1>14, SliceLeaves DEF SkipChild, SchedulerInvariant, WorkInvariant, SlicesAreKnown
  <2>2. QED
    BY <1>4, <1>14, <2>1 DEF SkipChild
<1>15. CASE Running
  BY <1>3, <1>7, <1>8, <1>9, <1>10, <1>14, <1>15 DEF Running
<1>16. CASE SchedulerNext
  BY <1>2, <1>6, <1>10, <1>11, <1>12, <1>13, <1>15, <1>16 DEF SchedulerNext
<1>17. QED
  BY <1>8, <1>16 DEF Goal

\* Nothing is promised to anyone at first.
LEMMA MarketStarts ==
  ASSUME SchedulerInit
  PROVE  MarketInvariant /\ \A p \in Parents : Promise(p)!OrderInit
<1>1. /\ Waiting = {} /\ submitting = None
      /\ \A p \in Parents : parent[p] = BlankParent
  BY DEF SchedulerInit, Waiting, SeqX!ToSet
<1>2. /\ BlankParent.known = FALSE /\ BlankParent.total = 0 /\ BlankParent.executed = 0
      /\ BlankParent.children = {} /\ BlankParent.status = "Pending"
  BY DEF BlankParent, PendingParent
<1>3. SumOver(FilledOf, {}) = 0
  BY FS_EmptySet, SumTakes
<1>4. MarketInvariant
  BY <1>1, <1>2, <1>3, FS_EmptySet DEF MarketInvariant, DealIsDone
<1>5. ASSUME NEW p \in Parents PROVE Promise(p)!OrderInit
  <2>1. InMarket(p) = {} /\ OpenOf(p) = 0
    BY <1>1, <1>2, NothingInHand
  <2>2. FilledIn(InMarket(p)) = 0
    BY <1>3, <2>1, FilledIsSum
  <2>3. QED
    BY <1>1, <1>2, <2>1, <2>2 DEF Promise!OrderInit, IsTerminal
<1>6. QED
  BY <1>4, <1>5

\* With market children, the invariant of the scheduler and of the market hold together.
LEMMA MarketIsConsistent ==
  ASSUME MarketOffers
  PROVE  SchedulerSpec => [](SchedulerInvariant /\ MarketInvariant)
<1>1. SchedulerInit => MarketInvariant
  BY MarketStarts
<1>2. SchedulerInvariant /\ SchedulerInvariant' /\ MarketInvariant /\ [SchedulerNext]_allVars
        => MarketInvariant'
  BY MarketStep
<1>3. QED
  BY <1>1, <1>2, SchedulerIsConsistent, PTL DEF SchedulerSpec

\* With market children, each parent gets what its owner is promised, for every mix of
\* schedules, participation and other clients: its total is worked by one child at a
\* time, no child asks for more than is left of it, and nothing is filled once it ended.
THEOREM ParentsGetWhatIsPromised ==
  ASSUME MarketOffers
  PROVE  SchedulerSpec => WorksTheParents
<1>1. SchedulerInit => \A p \in Parents : Promise(p)!OrderInit
  BY MarketStarts
<1>2. SchedulerInvariant /\ SchedulerInvariant' /\ MarketInvariant /\ [SchedulerNext]_allVars
        => [\A p \in Parents : [Promise(p)!OrderNext]_(Promise(p)!orderVars)]_allVars
  BY MarketStep
<1>3. QED
  BY <1>1, <1>2, MarketIsConsistent, PTL DEF SchedulerSpec, WorksTheParents

\* "Parent executed quantity equals actual child fills" is true of market children
\* (the run "undercount" shows that it is not of limit children).
THEOREM MarketFillsAreExecuted ==
  ASSUME MarketOffers
  PROVE  SchedulerSpec => []ExecutedIsFilled
<1>1. MarketInvariant => ExecutedIsFilled
  BY SumOfTheModel DEF MarketInvariant, DealIsDone, ExecutedIsFilled, FilledIn, FilledOf, Known
<1>2. QED
  BY <1>1, MarketIsConsistent, PTL
-----------------------------------------------------------------------------
(***************************************************************************)
(* What the reports say, with market children: the notional of a parent's  *)
(* fills is that of its children's orders, and the rest is arithmetic on   *)
(* a grid that the tick and the fees share.                                *)
(***************************************************************************)
\* What the engine has recorded of the orders' cash flows.
PaidOf == [i \in Ids |-> order[i].notional]

\* What a parent's children have paid is what its fills are worth.
FillsArePaid ==
  \A p \in Parents : SumOver(PaidOf, parent[p].children) = SumOver(TradeNotional, parent[p].fills)

\* Part of a tape is finite.
LEMMA FinitePart ==
  ASSUME NEW n \in Nat, NEW F, F \subseteq 1 .. n
  PROVE  IsFiniteSet(F)
<1>1. IsFiniteSet(1 .. n)
  BY FS_Interval
<1>2. QED
  BY <1>1, FS_Subset

LEMMA PaidOfType ==
  ASSUME BookInvariant
  PROVE  \A i \in Ids : PaidOf[i] = order[i].notional /\ PaidOf[i] \in Int
<1> SUFFICES ASSUME NEW i \in Ids PROVE PaidOf[i] = order[i].notional /\ PaidOf[i] \in Int
  OBVIOUS
<1>1. order[i] \in Orders
  BY DEF BookInvariant, TypeOK
<1>2. QED
  BY <1>1 DEF PaidOf, Orders

\* Neither side changes for a parent whose books are left alone.
LEMMA PaidStays ==
  ASSUME BookInvariant, BookInvariant', WorkInvariant, AnyStep, NEW p \in Parents, DealIsDone(p), DealStands(p)
  PROVE  /\ SumOver(PaidOf', parent'[p].children) = SumOver(PaidOf, parent[p].children)
         /\ SumOver(TradeNotional', parent'[p].fills) = SumOver(TradeNotional, parent[p].fills)
<1> DEFINE C == parent[p].children
           F == parent[p].fills
<1>1. parent'[p].children = C /\ parent'[p].fills = F
  BY DEF DealStands, SameBooks
<1>2. SumOver(PaidOf', C) = SumOver(PaidOf, C)
  <2>1. IsFiniteSet(C) /\ C \subseteq completed
    BY DEF DealIsDone
  <2>2. \A i \in completed : order'[i] = order[i]
    BY EveryStepIsSound DEF StepIsSound, HistoryStep
  <2>3. completed \subseteq Ids
    BY DEF BookInvariant, TypeOK
  <2>4. \A i \in C : PaidOf[i] \in Int /\ PaidOf'[i] = PaidOf[i]
    <3>1. \A i \in Ids : PaidOf[i] \in Int /\ PaidOf[i] = order[i].notional /\ PaidOf'[i] = order'[i].notional
      BY PaidOfType DEF PaidOf
    <3>2. QED
      BY <2>1, <2>2, <2>3, <3>1
  <2>5. QED
    BY <2>1, <2>4, SumSame
<1>3. SumOver(TradeNotional', F) = SumOver(TradeNotional, F)
  <2>1. SeqX!IsPrefix(trades, trades')
    BY EveryStepIsSound DEF StepIsSound, HistoryStep
  <2>2. TapeFacts /\ TapeFacts'
    BY TapeTypes, TapeTypesNext DEF BookInvariant
  <2>3. /\ trades \in Seq(Trades) /\ DOMAIN trades = 1 .. Len(trades) /\ Len(trades) \in Nat
        /\ trades' \in Seq(Trades) /\ DOMAIN trades' = 1 .. Len(trades') /\ Len(trades') \in Nat
    BY <2>2 DEF TapeFacts
  <2>4. Len(trades) <= Len(trades') /\ SubSeq(trades, 1, Len(trades)) = SubSeq(trades', 1, Len(trades))
    BY <2>1 DEF SeqX!IsPrefix
  <2>5. \A k \in DOMAIN trades : k \in DOMAIN trades' /\ trades'[k] = trades[k]
    BY <2>3, <2>4
  <2>6. F \subseteq DOMAIN trades
    BY DEF WorkInvariant, ParentsAddUp
  <2>7. IsFiniteSet(F)
    BY <2>3, <2>6, FinitePart
  <2>8. \A k \in F : TradeNotional[k] \in Int /\ TradeNotional'[k] = TradeNotional[k]
    <3>1. \A k \in DOMAIN trades : TradeNotional[k] \in Int
      BY <2>2 DEF TapeFacts
    <3>2. \A k \in DOMAIN trades : TradeNotional'[k] = TradeNotional[k]
      BY <2>5 DEF TradeNotional
    <3>3. QED
      BY <2>6, <3>1, <3>2
  <2>9. QED
    BY <2>7, <2>8, SumSame
<1>4. QED
  BY <1>1, <1>2, <1>3

\* Record adds to one side what the tape says of the child, to the other its order's notional.
LEMMA RecordPays ==
  ASSUME SchedulerInvariant, MarketInvariant, FillsArePaid, Record
  PROVE  FillsArePaid'
<1> USE DEF SchedulerInvariant
<1> DEFINE i == submitting.id
           p == submitting.parent
           q == parent[p]
           T == TradesOf(i)
           new == Recorded(q, Executed(i), i, T)
<1>1. /\ submitting # None /\ parent' = [parent EXCEPT ![p] = new]
      /\ order' = order /\ trades' = trades
  BY DEF Record, Recorded, vars
<1>2. submitting \in Children /\ p \in Parents
  BY <1>1 DEF WorkInvariant, SchedulerTypeOK, Children
<1>3. i \in active \cup completed /\ i \notin q.children /\ T \cap q.fills = {}
  BY <1>1, <1>2 DEF WorkInvariant, ChildInHand
<1>4. q \in ParentRecords /\ parent \in [Parents -> ParentRecords]
  BY <1>2 DEF WorkInvariant, SchedulerTypeOK
<1>5. new.children = q.children \cup {i} /\ new.fills = q.fills \cup T
  BY <1>4 DEF Recorded, RecordFill, ParentRecords
<1> HIDE DEF new
<1>6. parent'[p] = new /\ \A r \in Parents \ {p} : parent'[r] = parent[r]
  BY <1>1, <1>2, <1>4
<1>7. PaidOf' = PaidOf /\ TradeNotional' = TradeNotional
  BY <1>1 DEF PaidOf, TradeNotional
<1>8. \A r \in Parents : SumOver(PaidOf, parent[r].children) = SumOver(TradeNotional, parent[r].fills)
  BY DEF FillsArePaid
<1>9. SumOver(PaidOf, q.children \cup {i}) = SumOver(PaidOf, q.children) + order[i].notional
  <2>1. IsFiniteSet(q.children) /\ q.children \subseteq completed
    BY <1>2 DEF MarketInvariant, DealIsDone
  <2>2. i \in Ids /\ q.children \subseteq Ids
    BY <1>3, <2>1 DEF BookInvariant, TypeOK
  <2>3. \A j \in q.children \cup {i} : PaidOf[j] \in Int
    BY <2>2, PaidOfType
  <2>4. PaidOf[i] = order[i].notional
    BY <2>2, PaidOfType
  <2> HIDE DEF i, q
  <2>5. SumOver(PaidOf, q.children \cup {i}) = SumOver(PaidOf, q.children) + PaidOf[i]
    BY <1>3, <2>1, <2>3, SumAddsOne
  <2>6. QED
    BY <2>4, <2>5
<1>10. order[i].notional = SumOver(TradeNotional, T)
  BY <1>3 DEF TapeInvariant, FillsOf
<1>11. SumOver(TradeNotional, q.fills \cup T) = SumOver(TradeNotional, q.fills) + SumOver(TradeNotional, T)
  <2>1. TapeFacts
    BY TapeTypes DEF BookInvariant
  <2>2. /\ DOMAIN trades = 1 .. Len(trades) /\ Len(trades) \in Nat
        /\ \A k \in DOMAIN trades : TradeNotional[k] \in Int
        /\ T \subseteq DOMAIN trades /\ IsFiniteSet(T)
    BY <2>1 DEF TapeFacts
  <2>7. q.fills \subseteq DOMAIN trades
    BY <1>2 DEF WorkInvariant, ParentsAddUp
  <2>3. IsFiniteSet(q.fills)
    BY <2>2, <2>7, FinitePart
  <2>4. \A k \in q.fills \cup T : TradeNotional[k] \in Int
    BY <2>2, <2>7
  <2> DEFINE F == q.fills
             f == TradeNotional
  <2>5. IsFiniteSet(F) /\ IsFiniteSet(T) /\ T \cap F = {} /\ \A k \in F \cup T : f[k] \in Int
    BY <1>3, <2>2, <2>3, <2>4
  <2> HIDE DEF F, T, f
  <2>6. SumOver(f, F \cup T) = SumOver(f, F) + SumOver(f, T)
    <3>1. F \cap T = {}
      BY <2>5
    <3>2. QED
      BY <2>5, <3>1, SumOfTwo
  <2>8. QED
    BY <2>6 DEF F, f
<1>12. SumOver(PaidOf, new.children) = SumOver(TradeNotional, new.fills)
  BY <1>2, <1>5, <1>8, <1>9, <1>10, <1>11
<1>13. \A r \in Parents : SumOver(PaidOf, parent'[r].children) = SumOver(TradeNotional, parent'[r].fills)
  BY <1>6, <1>8, <1>12
<1>14. QED
  BY <1>7, <1>13 DEF FillsArePaid

LEMMA PaidStep ==
  ASSUME SchedulerInvariant, BookInvariant', MarketInvariant, FillsArePaid, [SchedulerNext]_allVars
  PROVE  FillsArePaid'
<1> USE DEF SchedulerInvariant
<1>1. AnyStep
  BY SchedulerTakesAnyStep
<1>2. CASE Record
  BY <1>2, RecordPays
<1>3. CASE \A p \in Parents : DealStands(p)
  <2>1. ASSUME NEW p \in Parents
        PROVE  SumOver(PaidOf', parent'[p].children) = SumOver(TradeNotional', parent'[p].fills)
    <3>1. DealIsDone(p) /\ DealStands(p)
      BY <1>3 DEF MarketInvariant
    <3>2. SumOver(PaidOf, parent[p].children) = SumOver(TradeNotional, parent[p].fills)
      BY DEF FillsArePaid
    <3>3. /\ SumOver(PaidOf', parent'[p].children) = SumOver(PaidOf, parent[p].children)
          /\ SumOver(TradeNotional', parent'[p].fills) = SumOver(TradeNotional, parent[p].fills)
      BY <1>1, <3>1, PaidStays
    <3>4. QED
      BY <3>2, <3>3
  <2>2. QED
    BY <2>1 DEF FillsArePaid
<1>4. ASSUME NEW o \in Offers, AddParent(o) PROVE FillsArePaid'
  <2> DEFINE a == o.parent
             new == PendingParent(o.side, o.total, o.start, o.end, Len(o.schedule))
  <2>1. a \in Parents /\ parent' = [parent EXCEPT ![a] = new] /\ UNCHANGED vars
    BY <1>4, SchedulerAssumption DEF AddParent
  <2>2. new.children = {} /\ new.fills = {}
    BY DEF PendingParent
  <2> HIDE DEF new
  <2>3. parent'[a] = new /\ \A p \in Parents \ {a} : parent'[p] = parent[p]
    BY <2>1 DEF WorkInvariant, SchedulerTypeOK
  <2>4. PaidOf' = PaidOf /\ TradeNotional' = TradeNotional
    BY <2>1 DEF vars, PaidOf, TradeNotional
  <2>5. SumOver(PaidOf, {}) = 0 /\ SumOver(TradeNotional, {}) = 0
    BY FS_EmptySet, SumTakes
  <2>6. \A p \in Parents : SumOver(PaidOf, parent'[p].children) = SumOver(TradeNotional, parent'[p].fills)
    BY <2>1, <2>2, <2>3, <2>5 DEF FillsArePaid
  <2>7. QED
    BY <2>4, <2>6 DEF FillsArePaid
<1>5. QED
  BY <1>2, <1>3, <1>4, DealsStand

\* The fractions of the reports are those of NumberFacts.
LEMMA SameNumbers ==
  /\ Analytics!Quotients = Quotients /\ Analytics!Fractions = Fractions
  /\ \A n, d : Analytics!Ratio(n, d) = Ratio(n, d)
  /\ \A i : Analytics!Whole(i) = Whole(i)
  /\ Analytics!Zero = Zero
  /\ Analytics!sum = sum /\ Analytics!product = product
  /\ Analytics!opposite = opposite /\ Analytics!less = less
<1>1. Analytics!gcd = gcd
  BY DEF Analytics!gcd, gcd
<1>2. Analytics!Quotients = Quotients /\ Analytics!Pairs = Pairs
  BY DEF Analytics!Quotients, Quotients, Analytics!Pairs, Pairs
<1>3. \A i : Analytics!Magnitude(i) = Magnitude(i) /\ Analytics!Whole(i) = Whole(i)
  BY DEF Analytics!Magnitude, Magnitude, Analytics!Whole, Whole
<1>4. Analytics!lowest = lowest
  BY <1>1, <1>2, Zenon DEF Analytics!lowest, lowest, Analytics!Magnitude, Magnitude
<1>5. \A n, d : Analytics!Ratio(n, d) = Ratio(n, d)
  BY <1>4 DEF Analytics!Ratio, Ratio
<1>6. Analytics!Zero = Zero /\ Analytics!Fractions = Fractions
  BY <1>1, <1>2, <1>3 DEF Analytics!Zero, Zero, Analytics!Fractions, Fractions
<1>7. /\ Analytics!sum = sum /\ Analytics!product = product
      /\ Analytics!opposite = opposite /\ Analytics!less = less
  BY <1>2, <1>4, Zenon
  DEF Analytics!sum, sum, Analytics!product, product, Analytics!opposite, opposite,
      Analytics!less, less, Analytics!Ratio, Ratio
<1>8. QED
  BY <1>2, <1>3, <1>5, <1>6, <1>7

\* So are their operations.
LEMMA SameOperations ==
  /\ \A s, b, x, y, q :
       Analytics!Cost(s, b, x, y, q)
         = ((IF s.side = "Buy" THEN x -- y ELSE y -- x) ** Whole(q)) ** b.tick
  /\ \A x, y : Analytics!++(x, y) = x ++ y
  /\ \A x, y : Analytics!\prec(x, y) <=> x \prec y
<1>1. \A side, x, y : Analytics!Against(side, x, y) = IF side = "Buy" THEN x -- y ELSE y -- x
  BY SameNumbers, Zenon DEF Analytics!Against, --, Analytics!--
<1>2. \A s, b, x, y, q :
        Analytics!Cost(s, b, x, y, q)
          = ((IF s.side = "Buy" THEN x -- y ELSE y -- x) ** Whole(q)) ** b.tick
  BY SameNumbers, <1>1, Zenon DEF Analytics!Cost, **, Analytics!**
<1>3. \A x, y : Analytics!++(x, y) = x ++ y
  BY SameNumbers DEF Analytics!++, ++
<1>4. \A x, y : Analytics!\prec(x, y) <=> x \prec y
  BY SameNumbers DEF Analytics!\prec, \prec
<1>5. QED
  BY <1>2, <1>3, <1>4

\* And their sums.
LEMMA SameSums ==
  \A f : /\ Analytics!Volume(f) = SumOver([k \in DOMAIN f |-> f[k].quantity], DOMAIN f)
         /\ Analytics!Notional(f) = SumOver([k \in DOMAIN f |-> f[k].price * f[k].quantity], DOMAIN f)
BY DEF Analytics!Volume, Analytics!Notional, Analytics!FunX!SumFunction,
       Analytics!FunX!SumFunctionOnSet, Analytics!FunX!FoldFunctionOnSet, Analytics!FunX!MapThenFoldSet,
       SumOver, Fn!SumFunctionOnSet, Fn!FoldFunctionOnSet, Fn!MapThenFoldSet

\* A quantity at its average price, against the same at another price.
LEMMA FlowAtAverage ==
  ASSUME NEW n \in Int, NEW v \in Nat \ {0}, NEW r \in Int
  PROVE  /\ (Ratio(n, v) -- Whole(r)) ** Whole(v) = Whole(n - v * r)
         /\ (Whole(r) -- Ratio(n, v)) ** Whole(v) = Whole(-(n - v * r))
<1>1. Ratio(n, v) \in Grid(v) /\ Units(Ratio(n, v), v) = n
  BY UnitsAreUnique
<1>2. Whole(r) \in Grid(v) /\ Units(Whole(r), v) = r * v
  BY WholeOnGrid
<1> DEFINE x == Ratio(n, v) -- Whole(r)
           y == Whole(r) -- Ratio(n, v)
           m == n - v * r
<1>3. m \in Int /\ -m \in Int /\ m = n - r * v
  OBVIOUS
<1>4. x \in Grid(v) /\ Units(x, v) = m /\ y \in Grid(v) /\ Units(y, v) = -m
  <2>1. /\ x \in Grid(v) /\ Units(x, v) = n - r * v
        /\ y \in Grid(v) /\ Units(y, v) = r * v - n
    BY <1>1, <1>2, GridAdds
  <2> HIDE DEF x, y
  <2>2. QED
    BY <1>3, <2>1
<1> HIDE DEF x, y, m
<1>5. /\ x ** Whole(v) \in Grid(v) /\ Units(x ** Whole(v), v) = m * v
      /\ y ** Whole(v) \in Grid(v) /\ Units(y ** Whole(v), v) = (-m) * v
  BY <1>4, GridScales
<1>6. /\ Whole(m) \in Grid(v) /\ Units(Whole(m), v) = m * v
      /\ Whole(-m) \in Grid(v) /\ Units(Whole(-m), v) = (-m) * v
  BY <1>3, WholeOnGrid
<1>7. x ** Whole(v) = Whole(m) /\ y ** Whole(v) = Whole(-m)
  BY <1>5, <1>6, GridIsUnique
<1>8. QED
  BY <1>7 DEF x, y, m

\* A quantity at one price, against the same at another.
LEMMA FlowAtPrice ==
  ASSUME NEW x \in Int, NEW y \in Int, NEW q \in Int
  PROVE  (Whole(x) -- Whole(y)) ** Whole(q) = Whole((x - y) * q)
<1>1. 1 \in Nat \ {0} /\ (x - y) * q \in Int /\ ((x - y) * q) * 1 = (x - y) * q
      /\ x * 1 = x /\ y * 1 = y
  OBVIOUS
<1> DEFINE c == (x - y) * q
           a == Whole(x) -- Whole(y)
<1>2. Whole(x) \in Grid(1) /\ Whole(y) \in Grid(1) /\ Units(Whole(x), 1) = x /\ Units(Whole(y), 1) = y
  BY <1>1, WholeOnGrid
<1>3. a \in Grid(1) /\ Units(a, 1) = x - y
  BY <1>1, <1>2, GridAdds
<1>4. Whole(c) \in Grid(1) /\ Units(Whole(c), 1) = c
  <2> HIDE DEF c
  <2>1. c \in Int /\ c * 1 = c
    BY <1>1 DEF c
  <2>2. QED
    BY <1>1, <2>1, WholeOnGrid
<1> HIDE DEF a
<1>5. a ** Whole(q) \in Grid(1) /\ Units(a ** Whole(q), 1) = c
  BY <1>1, <1>3, GridScales
<1>6. QED
  BY <1>1, <1>4, <1>5, GridIsUnique DEF a

\* Numbers of ticks, and the fees, add up.
LEMMA MoneyAddsUp ==
  ASSUME NEW t \in Fractions, NEW f \in Fractions, NEW x \in Int, NEW y \in Int
  PROVE  /\ Whole(x) ** t \in Fractions /\ f ++ (Whole(x) ** t) \in Fractions
         /\ Whole(0) ** t = Zero
         /\ ((Whole(x) ** t) ++ f) ++ (Whole(y) ** t) = f ++ (Whole(x + y) ** t)
         /\ (f ++ (Whole(x) ** t)) ++ (Whole(y) ** t) = f ++ (Whole(x + y) ** t)
<1>1. PICK d \in Nat \ {0} : t \in Grid(d) /\ f \in Grid(d)
  BY FractionOnGrid, FinerGrid
<1>2. Units(t, d) \in Int /\ Units(f, d) \in Int
  BY <1>1, GridFacts
<1>3. \A k \in Int : Whole(k) ** t \in Grid(d) /\ Units(Whole(k) ** t, d) = Units(t, d) * k
  <2> SUFFICES ASSUME NEW k \in Int PROVE Whole(k) ** t \in Grid(d) /\ Units(Whole(k) ** t, d) = Units(t, d) * k
    OBVIOUS
  <2>1. /\ t ** Whole(k) \in Grid(d) /\ Units(t ** Whole(k), d) = Units(t, d) * k
        /\ Whole(k) ** t = t ** Whole(k)
    BY <1>1, GridScales
  <2>2. QED
    BY <2>1
<1> DEFINE a == Whole(x) ** t
           b == Whole(y) ** t
           c == Whole(x + y) ** t
           z == Whole(0) ** t
           u == Units(t, d)
<1>4. /\ a \in Grid(d) /\ Units(a, d) = u * x /\ b \in Grid(d) /\ Units(b, d) = u * y
      /\ c \in Grid(d) /\ Units(c, d) = u * (x + y) /\ z \in Grid(d) /\ Units(z, d) = u * 0
  <2>1. x + y \in Int /\ 0 \in Int
    OBVIOUS
  <2>2. /\ a \in Grid(d) /\ Units(a, d) = u * x /\ b \in Grid(d) /\ Units(b, d) = u * y
    BY <1>3, Zenon
  <2>3. /\ c \in Grid(d) /\ Units(c, d) = u * (x + y) /\ z \in Grid(d) /\ Units(z, d) = u * 0
    BY <1>3, <2>1, Zenon
  <2>4. QED
    BY <2>2, <2>3
<1>5. u * (x + y) = u * x + u * y /\ u * 0 = 0 /\ u * x \in Int /\ u * y \in Int
  BY <1>2
<1> DEFINE v == u * x
           w == u * y
<1>6. /\ a \in Grid(d) /\ Units(a, d) = v /\ b \in Grid(d) /\ Units(b, d) = w /\ v \in Int /\ w \in Int
      /\ c \in Grid(d) /\ Units(c, d) = v + w /\ z \in Grid(d) /\ Units(z, d) = 0
  BY <1>4, <1>5
<1> HIDE DEF a, b, c, z, u, v, w
<1>7. a ++ f \in Grid(d) /\ Units(a ++ f, d) = v + Units(f, d) /\ f ++ a \in Grid(d) /\ Units(f ++ a, d) = Units(f, d) + v
  BY <1>1, <1>6, GridAdds
<1>8. /\ (a ++ f) ++ b \in Grid(d) /\ Units((a ++ f) ++ b, d) = (v + Units(f, d)) + w
      /\ (f ++ a) ++ b \in Grid(d) /\ Units((f ++ a) ++ b, d) = (Units(f, d) + v) + w
      /\ f ++ c \in Grid(d) /\ Units(f ++ c, d) = Units(f, d) + (v + w)
  BY <1>1, <1>6, <1>7, GridAdds
<1>9. (a ++ f) ++ b = f ++ c /\ (f ++ a) ++ b = f ++ c
  BY <1>2, <1>6, <1>8, GridIsUnique
<1>10. Zero \in Grid(d) /\ Units(Zero, d) = 0
  BY ZeroOnGrid
<1>11. z = Zero
  BY <1>6, <1>10, GridIsUnique
<1>12. a \in Fractions /\ f ++ a \in Fractions
  BY <1>6, <1>7, GridFacts
<1>13. QED
  BY <1>9, <1>11, <1>12 DEF a, b, c, z

\* What the summary of a parent adds up, between two calls.
LEMMA FiguresOf ==
  ASSUME SchedulerInvariant, MarketInvariant, FillsArePaid, NEW p \in Known
  PROVE  \E v \in Nat, n \in Int :
           /\ v = parent[p].executed /\ v = FilledIn(parent[p].children)
           /\ v = Analytics!Volume(RecordedFills(p))
           /\ n = Analytics!Notional(RecordedFills(p)) /\ n = PaidBy(p)
           /\ DOMAIN RecordedFills(p) = parent[p].fills
           /\ IF parent[p].fills = {} THEN v = 0 /\ n = 0 ELSE v > 0 /\ n > 0
           /\ parent[p].side \in Sides /\ parent[p].total \in Nat /\ v <= parent[p].total
<1> DEFINE q == parent[p]
           F == q.fills
           f == RecordedFills(p)
           v == SumOver(TradeQuantity, F)
           n == SumOver(TradeNotional, F)
<1> USE DEF SchedulerInvariant
<1>1. p \in Parents /\ q.known
  BY DEF Known
<1>2. TapeFacts
  BY TapeTypes DEF BookInvariant
<1>3. F \subseteq DOMAIN trades /\ Standing(q) /\ q.executed = v
  BY <1>1 DEF WorkInvariant, ParentsAddUp
<1>4. IsFiniteSet(F)
  BY <1>2, <1>3, FinitePart DEF TapeFacts
<1>5. /\ DOMAIN f = F
      /\ \A k \in F : f[k].price = trades[k].price /\ f[k].quantity = trades[k].quantity
  BY DEF RecordedFills
<1>6. \A k \in F : /\ TradeQuantity[k] = trades[k].quantity /\ TradeQuantity[k] \in Nat /\ TradeQuantity[k] > 0
                   /\ TradeNotional[k] = trades[k].price * trades[k].quantity
                   /\ TradeNotional[k] \in Nat /\ TradeNotional[k] > 0
  <2> SUFFICES ASSUME NEW k \in F
               PROVE  /\ TradeQuantity[k] = trades[k].quantity /\ TradeQuantity[k] \in Nat /\ TradeQuantity[k] > 0
                      /\ TradeNotional[k] = trades[k].price * trades[k].quantity
                      /\ TradeNotional[k] \in Nat /\ TradeNotional[k] > 0
    OBVIOUS
  <2>1. trades[k] \in Trades /\ TradeQuantity[k] = trades[k].quantity
        /\ TradeNotional[k] = trades[k].price * trades[k].quantity
    BY <1>2, <1>3 DEF TapeFacts
  <2>2. trades[k].quantity \in Nat \ {0} /\ trades[k].price \in Nat \ {0}
    <3>1. trades[k].quantity \in 1 .. MaxQuantity /\ trades[k].price \in Prices
      BY <2>1 DEF Trades
    <3>2. trades[k].price \in Nat \ {0}
      BY <3>1, PricesAssumption
    <3>3. trades[k].quantity \in Nat \ {0}
      BY <3>1, MaxQuantityAssumption
    <3>4. QED
      BY <3>2, <3>3
  <2>3. \A x, y \in Nat \ {0} : x * y \in Nat /\ x * y > 0
    OBVIOUS
  <2>4. QED
    BY <2>1, <2>2, <2>3
<1> HIDE DEF f, F
<1> DEFINE fq == [k \in DOMAIN f |-> f[k].quantity]
           fn == [k \in DOMAIN f |-> f[k].price * f[k].quantity]
<1>7. \A k \in F : fq[k] = TradeQuantity[k] /\ fn[k] = TradeNotional[k]
  BY <1>5, <1>6
<1>8. Analytics!Volume(f) = SumOver(fq, F) /\ Analytics!Notional(f) = SumOver(fn, F)
  BY <1>5, SameSums, Zenon
<1> HIDE DEF fq, fn
<1>9. SumOver(fq, F) = v /\ SumOver(fn, F) = n
  <2>1. \A k \in F : TradeQuantity[k] \in Int /\ fq[k] = TradeQuantity[k]
    BY <1>6, <1>7
  <2>2. \A k \in F : TradeNotional[k] \in Int /\ fn[k] = TradeNotional[k]
    BY <1>6, <1>7
  <2>3. QED
    BY <1>4, <2>1, <2>2, SumSame
<1>10. /\ v \in Nat /\ n \in Nat
       /\ \A k \in F : TradeQuantity[k] <= v /\ TradeNotional[k] <= n
  <2>1. \A k \in F : TradeQuantity[k] \in Nat
    BY <1>6
  <2>2. \A k \in F : TradeNotional[k] \in Nat
    BY <1>6
  <2>3. v \in Nat /\ \A k \in F : TradeQuantity[k] <= v
    BY <1>4, <2>1, SumOfNaturals
  <2>4. n \in Nat /\ \A k \in F : TradeNotional[k] <= n
    BY <1>4, <2>2, SumOfNaturals
  <2>5. QED
    BY <2>3, <2>4
<1>11. IF F = {} THEN v = 0 /\ n = 0 ELSE v > 0 /\ n > 0
  <2>1. CASE F = {}
    <3>1. \A h : SumOver(h, {}) = 0
      BY FS_EmptySet, SumTakes
    <3>2. QED
      BY <2>1, <3>1
  <2>2. CASE F # {}
    <3>1. PICK k \in F : TRUE
      BY <2>2
    <3>2. TradeQuantity[k] > 0 /\ TradeQuantity[k] <= v /\ TradeNotional[k] > 0 /\ TradeNotional[k] <= n
          /\ TradeQuantity[k] \in Nat /\ TradeNotional[k] \in Nat
      BY <1>6, <1>10, <3>1
    <3> HIDE DEF v, n
    <3>3. QED
      BY <1>10, <2>2, <3>2
  <2>3. QED
    BY <2>1, <2>2
<1>12. n = PaidBy(p)
  <2>1. PaidBy(p) = SumOver(PaidOf, q.children)
    BY SumOfTheModel DEF PaidBy, PaidOf
  <2>2. SumOver(PaidOf, q.children) = n
    BY <1>1 DEF FillsArePaid, F
  <2>3. QED
    BY <2>1, <2>2
<1>13. v = FilledIn(q.children)
  <2>1. q.executed = SumOver(FilledOf, q.children)
    BY <1>1 DEF MarketInvariant, DealIsDone
  <2>2. QED
    BY <1>3, <2>1, SumOfTheModel DEF FilledIn, FilledOf
<1>14. q.side \in Sides /\ q.total \in Nat /\ q.executed <= q.total
  BY <1>3, MaxQuantityAssumption DEF Standing, ParentRecords, Quantities
<1>15. n \in Int
  BY <1>10
<1>16. /\ v = q.executed /\ v = FilledIn(q.children) /\ v = Analytics!Volume(f)
       /\ n = Analytics!Notional(f) /\ n = PaidBy(p) /\ DOMAIN f = F
       /\ v <= q.total /\ v \in Nat
  BY <1>3, <1>5, <1>8, <1>9, <1>10, <1>12, <1>13, <1>14
<1> HIDE DEF v, n
<1>17. QED
  BY <1>11, <1>14, <1>15, <1>16 DEF f, F

\* A cash flow as it is for the owner: money spent is bad for a buyer.
Flow(side, x) == IF side = "Buy" THEN x ELSE -x

\* The costs of a report as cash flows, in ticks.
LEMMA CostsOf ==
  ASSUME SchedulerInvariant, MarketInvariant, FillsArePaid, NEW p \in Known, NEW b \in Given,
         NEW v \in Nat, v = parent[p].executed, v = Analytics!Volume(RecordedFills(p)),
         NEW n \in Int, n = Analytics!Notional(RecordedFills(p)),
         DOMAIN RecordedFills(p) = parent[p].fills,
         IF parent[p].fills = {} THEN v = 0 /\ n = 0 ELSE v > 0 /\ n > 0,
         parent[p].total \in Nat, v <= parent[p].total
  PROVE  LET s    == SummaryOf(p)
             left == parent[p].total - v
         IN
         /\ s.side = parent[p].side /\ s.requested = parent[p].total /\ s.executed = v /\ s.remaining = left
         /\ s.average = IF v = 0 THEN None ELSE Ratio(n, v)
         /\ Analytics!ExecutionCost(s, b) = Whole(Flow(s.side, n - v * b.arrival)) ** b.tick
         /\ Analytics!OpportunityCost(s, b) =
              IF left # 0 /\ b.final = None THEN None
              ELSE Whole(Flow(s.side, IF left = 0 THEN 0 ELSE (b.final - b.arrival) * left)) ** b.tick
         /\ Analytics!DelayCost(s, b) =
              IF b.decision = None THEN None
              ELSE Whole(Flow(s.side, (b.arrival - b.decision) * parent[p].total)) ** b.tick
<1> DEFINE q == parent[p]
           s == SummaryOf(p)
           left == q.total - v
           t == b.tick
<1>1. /\ s.side = q.side /\ s.requested = q.total /\ s.executed = q.executed
      /\ s.remaining = q.total - q.executed /\ s.average = Analytics!WeightedPrice(RecordedFills(p))
  BY DEF SummaryOf, Analytics!Summary, Unexecuted, Analytics!Unexecuted
<1>2. s.average = IF v = 0 THEN None ELSE Ratio(n, v)
  BY <1>1, SameNumbers DEF Analytics!WeightedPrice
<1>3. /\ b.arrival \in Nat /\ b.decision \in Nat \cup {None} /\ b.final \in Nat \cup {None}
      /\ b.fees \in Fractions /\ t \in Fractions
  <2>1. b \in Analytics!Benchmarks /\ Analytics!Fractions = Fractions
    BY GivenAssumption, SameNumbers
  <2>2. QED
    BY <2>1 DEF Analytics!Benchmarks
<1>4. None \notin Quotients
  BY GivenAssumption, SameNumbers
<1>5. v # 0 => Ratio(n, v) # None
  <2>1. v \in Nat \ {0} => Ratio(n, v) \in Quotients
    BY RatioFacts
  <2>2. QED
    BY <1>4, <2>1
<1> HIDE DEF s, t
<1>6. Whole(0) ** t = Zero
  BY <1>3, MoneyAddsUp
<1>7. ASSUME NEW x \in Int, NEW y \in Int, NEW k \in Int
      PROVE  /\ (Whole(x) -- Whole(y)) ** Whole(k) = Whole((x - y) * k)
             /\ (Whole(y) -- Whole(x)) ** Whole(k) = Whole(-((x - y) * k))
  <2>1. (y - x) * k = -((x - y) * k)
    OBVIOUS
  <2>2. (Whole(y) -- Whole(x)) ** Whole(k) = Whole((y - x) * k)
    BY FlowAtPrice
  <2>3. (Whole(x) -- Whole(y)) ** Whole(k) = Whole((x - y) * k)
    BY FlowAtPrice
  <2>4. QED
    BY <2>1, <2>2, <2>3, Zenon
<1>8. \A x, y, k \in Int :
        Analytics!Cost(s, b, Whole(x), Whole(y), k) = Whole(Flow(s.side, (x - y) * k)) ** t
  <2> SUFFICES ASSUME NEW x \in Int, NEW y \in Int, NEW k \in Int
               PROVE  Analytics!Cost(s, b, Whole(x), Whole(y), k) = Whole(Flow(s.side, (x - y) * k)) ** t
    OBVIOUS
  <2>1. Analytics!Cost(s, b, Whole(x), Whole(y), k)
          = ((IF s.side = "Buy" THEN Whole(x) -- Whole(y) ELSE Whole(y) -- Whole(x)) ** Whole(k)) ** t
    BY SameOperations, Zenon DEF t
  <2>2. QED
    BY <1>7, <2>1 DEF Flow
<1>9. Analytics!ExecutionCost(s, b) = Whole(Flow(s.side, n - v * b.arrival)) ** t
  <2>1. CASE v = 0
    <3>1. s.average = None /\ n = 0 /\ v * b.arrival = 0
      BY <1>2, <1>3, <2>1, 0 * b.arrival = 0
    <3>2. Flow(s.side, n - v * b.arrival) = 0
      BY <3>1 DEF Flow
    <3>3. QED
      BY <1>6, <3>1, <3>2, SameNumbers DEF Analytics!ExecutionCost
  <2>2. CASE v # 0
    <3>1. s.average = Ratio(n, v) /\ s.average # None
      BY <1>2, <1>5, <2>2
    <3>2. Analytics!ExecutionCost(s, b) = Analytics!Cost(s, b, Ratio(n, v), Whole(b.arrival), v)
      BY <1>1, <3>1, SameNumbers DEF Analytics!ExecutionCost
    <3>3. Analytics!Cost(s, b, Ratio(n, v), Whole(b.arrival), v)
            = ((IF s.side = "Buy" THEN Ratio(n, v) -- Whole(b.arrival) ELSE Whole(b.arrival) -- Ratio(n, v))
                 ** Whole(v)) ** t
      BY SameOperations, Zenon DEF t
    <3>4. /\ (Ratio(n, v) -- Whole(b.arrival)) ** Whole(v) = Whole(n - v * b.arrival)
          /\ (Whole(b.arrival) -- Ratio(n, v)) ** Whole(v) = Whole(-(n - v * b.arrival))
      <4>1. v \in Nat \ {0} /\ b.arrival \in Int
        BY <1>3, <2>2
      <4>2. QED
        BY <4>1, FlowAtAverage
    <3>5. QED
      BY <3>2, <3>3, <3>4 DEF Flow
  <2>3. QED
    BY <2>1, <2>2
<1>10. Analytics!OpportunityCost(s, b) =
         IF left # 0 /\ b.final = None THEN None
         ELSE Whole(Flow(s.side, IF left = 0 THEN 0 ELSE (b.final - b.arrival) * left)) ** t
  <2>1. s.remaining = left /\ left \in Int
    <3>1. q.executed = v /\ q.total \in Nat
      OBVIOUS
    <3>2. s.remaining = q.total - v
      BY <1>1, <3>1, Zenon
    <3> HIDE DEF q
    <3>3. QED
      BY <3>1, <3>2
  <2>2. CASE left = 0
    BY <1>6, <2>1, <2>2, SameNumbers DEF Analytics!OpportunityCost, Flow
  <2>3. CASE left # 0 /\ b.final = None
    BY <2>1, <2>3 DEF Analytics!OpportunityCost
  <2>4. CASE left # 0 /\ b.final # None
    <3>1. Analytics!OpportunityCost(s, b) = Analytics!Cost(s, b, Whole(b.final), Whole(b.arrival), left)
      BY <2>1, <2>4, SameNumbers DEF Analytics!OpportunityCost
    <3>2. b.final \in Int /\ b.arrival \in Int
      BY <1>3, <2>4
    <3>3. Analytics!Cost(s, b, Whole(b.final), Whole(b.arrival), left)
            = Whole(Flow(s.side, (b.final - b.arrival) * left)) ** t
      <4> HIDE DEF left
      <4>1. QED
        BY <1>8, <2>1, <3>2
    <3>4. QED
      BY <2>4, <3>1, <3>3
  <2>5. QED
    BY <2>2, <2>3, <2>4
<1>11. Analytics!DelayCost(s, b) =
         IF b.decision = None THEN None
         ELSE Whole(Flow(s.side, (b.arrival - b.decision) * q.total)) ** t
  <2>1. CASE b.decision = None
    BY <2>1 DEF Analytics!DelayCost
  <2>2. CASE b.decision # None
    <3>1. Analytics!DelayCost(s, b) = Analytics!Cost(s, b, Whole(b.arrival), Whole(b.decision), q.total)
      BY <1>1, <2>2, SameNumbers DEF Analytics!DelayCost
    <3>2. b.decision \in Int /\ b.arrival \in Int /\ q.total \in Int
      BY <1>3, <2>2
    <3>3. QED
      BY <1>8, <2>2, <3>1, <3>2
  <2>3. QED
    BY <2>1, <2>2
<1>12. QED
  BY <1>1, <1>2, <1>9, <1>10, <1>11 DEF s, t

\* The figures of one report agree with each other and with the engine.
LEMMA ReportAddsUp ==
  ASSUME SchedulerInvariant, MarketInvariant, FillsArePaid, NEW p \in Known, NEW b \in Given
  PROVE  LET s    == SummaryOf(p)
             r    == ReportOn(p, b)
             left == parent[p].total - FilledIn(parent[p].children)
             rest == IF left = 0 THEN 0 ELSE left * b.final
         IN
         /\ Analytics!FillsAddUp(parent[p], RecordedFills(p)) /\ Analytics!SummaryAccepted(s)
         /\ s.remaining = left
         /\ r.shortfall.total = None <=> left > 0 /\ b.final = None
         /\ r.shortfall.total # None =>
              r.shortfall.total =
                WorseOff(parent[p].side, PaidBy(p) + rest, parent[p].total * b.arrival, b)
         /\ r.shortfall.total # None /\ b.decision # None =>
              Analytics!sum[<<r.shortfall.total, r.shortfall.delay>>] =
                WorseOff(parent[p].side, PaidBy(p) + rest, parent[p].total * b.decision, b)
         /\ r.arrival_amount \in {None, r.shortfall.execution}
         /\ parent[p].fills = DOMAIN trades => r.vwap_amount \in {None, Analytics!Zero}
<1> DEFINE q == parent[p]
           s == SummaryOf(p)
           r == ReportOn(p, b)
           t == b.tick
           f == RecordedFills(p)
<1>1. PICK v \in Nat, n \in Int :
        /\ v = q.executed /\ v = FilledIn(q.children) /\ v = Analytics!Volume(f)
        /\ n = Analytics!Notional(f) /\ n = PaidBy(p)
        /\ DOMAIN f = q.fills
        /\ IF q.fills = {} THEN v = 0 /\ n = 0 ELSE v > 0 /\ n > 0
        /\ q.side \in Sides /\ q.total \in Nat /\ v <= q.total
  BY FiguresOf
<1> DEFINE left == q.total - v
           rest == IF left = 0 THEN 0 ELSE left * b.final
           x == n - v * b.arrival
           y == IF left = 0 THEN 0 ELSE (b.final - b.arrival) * left
           z == (b.arrival - b.decision) * q.total
<1>2. /\ s.side = q.side /\ s.requested = q.total /\ s.executed = v /\ s.remaining = left
      /\ s.average = IF v = 0 THEN None ELSE Ratio(n, v)
      /\ Analytics!ExecutionCost(s, b) = Whole(Flow(s.side, x)) ** t
      /\ Analytics!OpportunityCost(s, b) =
           IF left # 0 /\ b.final = None THEN None ELSE Whole(Flow(s.side, y)) ** t
      /\ Analytics!DelayCost(s, b) =
           IF b.decision = None THEN None ELSE Whole(Flow(s.side, z)) ** t
  BY <1>1, CostsOf
<1>3. /\ b.arrival \in Nat /\ b.decision \in Nat \cup {None} /\ b.final \in Nat \cup {None}
      /\ b.fees \in Fractions /\ t \in Fractions
  <2>1. b \in Analytics!Benchmarks /\ Analytics!Fractions = Fractions
    BY GivenAssumption, SameNumbers
  <2>2. QED
    BY <2>1 DEF Analytics!Benchmarks
<1>4. \A a \in Fractions : a # None
  BY GivenAssumption, SameNumbers, FractionsAreQuotients
<1>5. left \in Nat /\ (left > 0 <=> left # 0) /\ q.total = v + left
  BY <1>1
<1>6. /\ r.shortfall = Analytics!Shortfall(s, b)
      /\ r.arrival_amount = Analytics!SlippageAmount(s, b, Analytics!Whole(b.arrival))
      /\ r.vwap_amount = Analytics!SlippageAmount(s, b, Analytics!WeightedPrice(Tape))
  BY DEF ReportOn, Analytics!QualityReport
<1>7. /\ r.shortfall.execution = Analytics!ExecutionCost(s, b)
      /\ r.shortfall.delay = Analytics!DelayCost(s, b)
      /\ r.shortfall.total = IF Analytics!OpportunityCost(s, b) = None THEN None
                             ELSE (Analytics!ExecutionCost(s, b) ++ b.fees) ++ Analytics!OpportunityCost(s, b)
  BY <1>6, SameOperations DEF Analytics!Shortfall
<1>8. Analytics!FillsAddUp(q, f)
  BY <1>1 DEF Analytics!FillsAddUp
<1>9. Analytics!SummaryAccepted(s)
  <2>1. v > 0 => s.average # None /\ Zero \prec s.average
    <3>1. SUFFICES ASSUME v > 0 PROVE s.average # None /\ Zero \prec s.average
      OBVIOUS
    <3>2. v \in Nat \ {0} /\ s.average = Ratio(n, v) /\ n > 0
      BY <1>1, <1>2, <3>1
    <3>3. Ratio(n, v) \in Fractions /\ Ratio(n, v) \in Quotients /\ Zero \in Quotients /\ Zero.n = 0 /\ Zero.d = 1
      BY <3>2, RatioFacts, ZeroType
    <3>4. Ratio(n, v) \preceq Zero <=> n * 1 <= 0 * v
      BY <3>2, <3>3, RatioIsOrdered
    <3>5. Zero \prec Ratio(n, v) <=> ~ (Ratio(n, v) \preceq Zero)
      BY DEF \preceq, \prec
    <3>6. 0 * v = 0 /\ n * 1 = n
      BY <3>2
    <3>7. QED
      BY <1>4, <3>2, <3>3, <3>4, <3>5, <3>6
  <2>2. v = 0 => s.average = None
    BY <1>2
  <2>3. s.executed <= s.requested /\ s.remaining = s.requested - s.executed /\ s.executed = v
    BY <1>1, <1>2
  <2>4. Analytics!Zero = Zero /\ \A a, c : Analytics!\prec(a, c) <=> a \prec c
    BY SameNumbers, SameOperations
  <2> HIDE DEF s
  <2>5. QED
    BY <2>1, <2>2, <2>3, <2>4 DEF Analytics!SummaryAccepted
<1> DEFINE stop == left # 0 /\ b.final = None
<1>10. /\ Flow(s.side, x) \in Int /\ (~stop => Flow(s.side, y) \in Int)
       /\ b.decision # None => Flow(s.side, z) \in Int
  <2>1. x \in Int
    BY <1>3
  <2>2. ~stop => y \in Int
    BY <1>3, <1>5
  <2>3. b.decision # None => z \in Int
    BY <1>1, <1>3
  <2> HIDE DEF x, y, z, stop
  <2>4. QED
    BY <2>1, <2>2, <2>3 DEF Flow
<1>11. ~stop => /\ r.shortfall.total = b.fees ++ (Whole(Flow(s.side, x) + Flow(s.side, y)) ** t)
                /\ r.shortfall.total \in Fractions
  <2> HIDE DEF x, y, stop, s, r
  <2>1. SUFFICES ASSUME ~stop
                 PROVE  /\ r.shortfall.total = b.fees ++ (Whole(Flow(s.side, x) + Flow(s.side, y)) ** t)
                        /\ r.shortfall.total \in Fractions
    OBVIOUS
  <2> DEFINE u == Flow(s.side, x)
             w == Flow(s.side, y)
  <2>2. u \in Int /\ w \in Int /\ u + w \in Int
    BY <1>10, <2>1
  <2>3. Analytics!OpportunityCost(s, b) = Whole(w) ** t /\ Analytics!ExecutionCost(s, b) = Whole(u) ** t
    BY <1>2, <2>1 DEF stop
  <2> HIDE DEF u, w
  <2>4. Whole(w) ** t \in Fractions /\ ((Whole(u) ** t) ++ b.fees) ++ (Whole(w) ** t) = b.fees ++ (Whole(u + w) ** t)
    BY <1>3, <2>2, MoneyAddsUp
  <2>5. b.fees ++ (Whole(u + w) ** t) \in Fractions
    BY <1>3, <2>2, MoneyAddsUp
  <2>6. r.shortfall.total = b.fees ++ (Whole(u + w) ** t)
    BY <1>4, <1>7, <2>3, <2>4
  <2>7. QED
    BY <2>5, <2>6 DEF u, w
<1>12. stop => r.shortfall.total = None
  BY <1>2, <1>7
<1>13. r.shortfall.total = None <=> stop
  BY <1>4, <1>11, <1>12
<1>14. \A paid, paper : WorseOff(q.side, paid, paper, b)
                          = b.fees ++ (Whole(IF q.side = "Buy" THEN paid - paper ELSE paper - paid) ** t)
  BY SameNumbers, Zenon DEF WorseOff, ++, **
<1>15. ASSUME NEW paid \in Int, NEW paper \in Int
       PROVE  WorseOff(q.side, paid, paper, b) = b.fees ++ (Whole(Flow(s.side, paid - paper)) ** t)
  <2>1. paper - paid = -(paid - paper)
    OBVIOUS
  <2>2. QED
    BY <1>2, <1>14, <2>1 DEF Flow
<1>16. ~stop => /\ Flow(s.side, x) + Flow(s.side, y) = Flow(s.side, (n + rest) - q.total * b.arrival)
                /\ n + rest \in Int /\ q.total * b.arrival \in Int
  <2>1. SUFFICES ASSUME ~stop
                 PROVE  /\ Flow(s.side, x) + Flow(s.side, y) = Flow(s.side, (n + rest) - q.total * b.arrival)
                        /\ n + rest \in Int /\ q.total * b.arrival \in Int
    OBVIOUS
  <2>2. rest \in Int
    BY <1>3, <1>5, <2>1
  <2>3. x + y = (n + rest) - q.total * b.arrival /\ x \in Int /\ y \in Int /\ q.total * b.arrival \in Int
    <3> DEFINE a == b.arrival
    <3>1. a \in Int /\ q.total * a = v * a + left * a /\ v * a \in Int /\ left * a \in Int /\ q.total * a \in Int
      <4>1. \A c, d, e \in Int : (c + d) * e = c * e + d * e /\ c * e \in Int
        OBVIOUS
      <4>2. a \in Int /\ v \in Int /\ left \in Int /\ q.total = v + left /\ q.total \in Int
        BY <1>1, <1>3
      <4> HIDE DEF a, left, q
      <4>3. QED
        BY <4>1, <4>2
    <3>2. CASE left = 0
      <4>1. y = 0 /\ rest = 0 /\ left * a = 0
        BY <3>1, <3>2, 0 * a = 0
      <4>2. x = n - v * a
        OBVIOUS
      <4> HIDE DEF x, y, rest, left, a
      <4>3. QED
        BY <3>1, <4>1, <4>2 DEF a
    <3>3. CASE left # 0
      <4>1. b.final \in Int /\ y = (b.final - a) * left /\ rest = left * b.final
        BY <1>3, <2>1, <3>3
      <4>2. (b.final - a) * left = left * b.final - left * a /\ left * b.final \in Int
        <5>1. \A c, d, e \in Int : (c - d) * e = e * c - e * d /\ e * c \in Int
          OBVIOUS
        <5>2. b.final \in Int /\ a \in Int /\ left \in Int
          BY <1>5, <3>1, <4>1
        <5> HIDE DEF a, left
        <5>3. QED
          BY <5>1, <5>2
      <4>3. x = n - v * a
        OBVIOUS
      <4> DEFINE c == left * b.final
                 e == left * a
                 g == v * a
      <4>4. y = c - e /\ rest = c /\ x = n - g /\ q.total * a = g + e /\ c \in Int /\ e \in Int /\ g \in Int
        BY <3>1, <4>1, <4>2, <4>3
      <4> HIDE DEF x, y, rest, left, a, c, e, g
      <4>5. QED
        BY <4>4 DEF a
    <3>4. QED
      BY <3>2, <3>3
  <2> DEFINE c == q.total * b.arrival
  <2> HIDE DEF x, y, rest, s, c
  <2>4. x + y = (n + rest) - c /\ x \in Int /\ y \in Int /\ c \in Int /\ n + rest \in Int
    BY <2>2, <2>3 DEF c
  <2>5. Flow(s.side, x) + Flow(s.side, y) = Flow(s.side, x + y)
    BY <2>4 DEF Flow
  <2>6. QED
    BY <2>4, <2>5 DEF c
<1>17. ~stop => r.shortfall.total = WorseOff(q.side, n + rest, q.total * b.arrival, b)
  <2> HIDE DEF stop, rest, r, x, y, s, q, t
  <2>1. QED
    BY <1>11, <1>15, <1>16
<1>18. ~stop /\ b.decision # None =>
         Analytics!sum[<<r.shortfall.total, r.shortfall.delay>>] = WorseOff(q.side, n + rest, q.total * b.decision, b)
  <2>1. SUFFICES ASSUME ~stop, b.decision # None
                 PROVE  Analytics!sum[<<r.shortfall.total, r.shortfall.delay>>]
                          = WorseOff(q.side, n + rest, q.total * b.decision, b)
    OBVIOUS
  <2> DEFINE m == (n + rest) - q.total * b.arrival
             k == (n + rest) - q.total * b.decision
  <2>2. m + z = k /\ m \in Int /\ z \in Int /\ q.total * b.decision \in Int /\ n + rest \in Int
    <3>1. b.arrival \in Int /\ b.decision \in Int /\ q.total \in Int
      BY <1>1, <1>3, <2>1
    <3>2. /\ z = q.total * b.arrival - q.total * b.decision
          /\ q.total * b.arrival \in Int /\ q.total * b.decision \in Int
      BY <3>1
    <3>3. n + rest \in Int
      BY <1>16, <2>1
    <3> HIDE DEF z, rest
    <3>4. QED
      BY <3>2, <3>3
  <2> HIDE DEF m, k, z, s, r, stop, rest, q, t
  <2>3. Flow(s.side, m) + Flow(s.side, z) = Flow(s.side, k) /\ Flow(s.side, m) \in Int /\ Flow(s.side, z) \in Int
    BY <2>2 DEF Flow
  <2>4. r.shortfall.total = b.fees ++ (Whole(Flow(s.side, m)) ** t)
    BY <1>11, <1>16, <2>1 DEF m
  <2>5. r.shortfall.delay = Whole(Flow(s.side, z)) ** t
    BY <1>2, <1>7, <2>1
  <2>6. r.shortfall.total ++ r.shortfall.delay = b.fees ++ (Whole(Flow(s.side, k)) ** t)
    <3> DEFINE u == Flow(s.side, m)
               w == Flow(s.side, z)
    <3>1. u \in Int /\ w \in Int /\ u + w = Flow(s.side, k)
      BY <2>3
    <3> HIDE DEF u, w
    <3>2. (b.fees ++ (Whole(u) ** t)) ++ (Whole(w) ** t) = b.fees ++ (Whole(u + w) ** t)
      BY <1>3, <3>1, MoneyAddsUp
    <3>3. QED
      BY <2>4, <2>5, <3>1, <3>2 DEF u, w
  <2>7. WorseOff(q.side, n + rest, q.total * b.decision, b) = b.fees ++ (Whole(Flow(s.side, k)) ** t)
    BY <1>15, <2>2 DEF k
  <2>8. Analytics!sum[<<r.shortfall.total, r.shortfall.delay>>] = r.shortfall.total ++ r.shortfall.delay
    BY SameNumbers, Zenon DEF ++
  <2>9. QED
    BY <2>6, <2>7, <2>8
<1>19. r.arrival_amount \in {None, r.shortfall.execution}
  <2> HIDE DEF s
  <2>1. CASE s.average = None
    BY <1>6, <2>1 DEF Analytics!SlippageAmount
  <2>2. CASE s.average # None /\ Analytics!Whole(b.arrival) = None
    BY <1>6, <2>2 DEF Analytics!SlippageAmount
  <2>3. CASE s.average # None /\ Analytics!Whole(b.arrival) # None
    BY <1>6, <1>7, <2>3 DEF Analytics!SlippageAmount, Analytics!ExecutionCost
  <2>4. QED
    BY <2>1, <2>2, <2>3
<1>20. ASSUME q.fills = DOMAIN trades PROVE r.vwap_amount \in {None, Analytics!Zero}
  <2>1. Tape = f
    BY <1>20 DEF Tape, RecordedFills
  <2>2. Analytics!WeightedPrice(Tape) = s.average
    BY <2>1 DEF SummaryOf, Analytics!Summary
  <2>3. CASE s.average = None
    BY <1>6, <2>3 DEF Analytics!SlippageAmount
  <2>4. CASE s.average # None
    <3>1. s.average = Ratio(n, v) /\ v \in Nat \ {0}
      BY <1>2, <2>4
    <3>2. r.vwap_amount = Analytics!Cost(s, b, s.average, s.average, v)
      BY <1>2, <1>6, <2>2, <2>4 DEF Analytics!SlippageAmount
    <3>3. Analytics!Cost(s, b, s.average, s.average, v) = ((s.average -- s.average) ** Whole(v)) ** t
      BY SameOperations, Zenon
    <3>4. s.average \in Grid(v) /\ Units(s.average, v) = n
      BY <3>1, UnitsAreUnique
    <3> DEFINE a == s.average
               d == a -- a
    <3> HIDE DEF s, d
    <3>5. d \in Grid(v) /\ Units(d, v) = 0
      <4>1. d \in Grid(v) /\ Units(d, v) = n - n
        BY <3>1, <3>4, GridAdds DEF d
      <4>2. QED
        BY <4>1
    <3>6. d ** Whole(v) \in Grid(v) /\ Units(d ** Whole(v), v) = 0
      <4>1. d ** Whole(v) \in Grid(v) /\ Units(d ** Whole(v), v) = 0 * v
        BY <3>1, <3>5, GridScales
      <4>2. QED
        BY <4>1, 0 * v = 0
    <3>7. Zero \in Grid(v) /\ Units(Zero, v) = 0
      BY <3>1, ZeroOnGrid
    <3>8. d ** Whole(v) = Zero
      BY <3>1, <3>6, <3>7, GridIsUnique
    <3>9. Zero ** t = Zero
      <4>1. Whole(0) ** t = Zero
        BY <1>3, MoneyAddsUp
      <4>2. QED
        BY <4>1 DEF Zero
    <3>10. r.vwap_amount = Zero
      BY <3>2, <3>3, <3>8, <3>9 DEF d
    <3>11. QED
      BY <3>10, SameNumbers
  <2>5. QED
    BY <2>3, <2>4
<1>21. stop <=> left > 0 /\ b.final = None
  BY <1>5
<1>22. s.remaining = left
  BY <1>2
<1> HIDE DEF stop, s, r, left
<1>23. QED
  BY <1>1, <1>8, <1>9, <1>13, <1>17, <1>18, <1>19, <1>20, <1>21, <1>22 DEF s, r, left

\* With market children, the implementation shortfall of every parent is what its owner is
\* worse off than on paper, for any benchmark, tick and fees, whatever the other clients do.
THEOREM ShortfallsArePaperDifferences ==
  ASSUME MarketOffers
  PROVE  SchedulerSpec => []ShortfallIsPaperDifference
<1>1. SchedulerInit => FillsArePaid
  <2> SUFFICES ASSUME SchedulerInit PROVE FillsArePaid
    OBVIOUS
  <2>1. \A p \in Parents : parent[p] = BlankParent
    BY DEF SchedulerInit
  <2>2. BlankParent.children = {} /\ BlankParent.fills = {}
    BY DEF BlankParent, PendingParent
  <2>3. \A h : SumOver(h, {}) = 0
    BY FS_EmptySet, SumTakes
  <2>4. QED
    BY <2>1, <2>2, <2>3 DEF FillsArePaid
<1>2. ASSUME SchedulerInvariant, SchedulerInvariant', MarketInvariant, FillsArePaid,
             [SchedulerNext]_allVars
      PROVE  FillsArePaid'
  <2>1. BookInvariant'
    BY <1>2 DEF SchedulerInvariant
  <2>2. QED
    BY <1>2, <2>1, PaidStep
<1>3. SchedulerInvariant /\ MarketInvariant /\ FillsArePaid => ShortfallIsPaperDifference
  <2> SUFFICES ASSUME SchedulerInvariant, MarketInvariant, FillsArePaid
               PROVE  ShortfallIsPaperDifference
    OBVIOUS
  <2>1. QED
    BY ReportAddsUp, Zenon DEF ShortfallIsPaperDifference
<1>4. QED
  BY <1>1, <1>2, <1>3, MarketIsConsistent, PTL DEF SchedulerSpec
=============================================================================
