-------------------------- MODULE ExecutionScheduler --------------------------
(***************************************************************************)
(* The execution scheduler (cpp/src/execution/execution_scheduler.cpp) and *)
(* the matching engine it submits to, which it shares with other clients.  *)
(*                                                                         *)
(* advance_to walks the due entries of the schedule and submits a child    *)
(* for each; on_market_volume submits at most one.  A submission is the    *)
(* engine's own Submit followed by its matching loop, and Record (or       *)
(* Abort, when the engine threw) is the rest of submit_child.  The thread  *)
(* is inside advance_to while advancing is a time, and inside submit_child *)
(* while submitting is a child; nobody else calls the engine or the        *)
(* scheduler then.  A call that throws before it changes anything is a     *)
(* stuttering step and has no action.                                      *)
(***************************************************************************)
EXTENDS MatchingEngine, ParentOrder

CONSTANTS
  Parents,       \* the parent ids clients use
  Offers,        \* the arguments add_parent is called with
  Observations,  \* the arguments on_market_volume is called with
  Horizon,       \* the simulated times are 0 .. Horizon
  CatchUp        \* SchedulerConfig::catch_up_final_slice

Times == 0 .. Horizon

\* A ChildOrder; quantity is the planned one.
Children ==
  [id : Ids \cup {ZeroId}, parent : Parents, side : Sides, quantity : Quantities,
   type : OrderTypes, price : Prices \cup {0, None}, time : Times, sequence : Nat]

\* Ids are numbers here: the schedule's last tie-breaker compares them.
ASSUME SchedulerAssumption ==
  /\ Horizon \in Nat
  /\ None \notin Children \cup Times
  /\ Ids \subseteq Nat
  /\ CatchUp \in BOOLEAN
  /\ Offers \subseteq [parent : Parents, side : Sides, total : Quantities \ {0},
                       start : Times, end : Times, schedule : Seq(Children)]
  /\ \A o \in Offers : o.start < o.end
  /\ Observations \subseteq [parent : Parents, num : Nat \ {0}, den : Nat \ {0},
                             time : Times, volume : Quantities,
                             id : Ids \cup {ZeroId}, sequence : Nat]
  /\ \A o \in Observations : o.num <= o.den

VARIABLES
  parent,     \* parents_
  schedule,   \* the entries of schedule_ that are not yet submitted, in its order
  childIds,   \* child_order_ids_
  traced,     \* trade_to_child_: pairs of a trade's position and a child's id
  clock,      \* current_time_, or None
  advancing,  \* the time of the advance_to in progress, or None
  submitting  \* the child of the submit_child in progress, or None

schedulerVars ==
  <<parent, schedule, childIds, traced, clock, advancing, submitting>>
allVars == <<vars, schedulerVars>>

SchedulerInit ==
  /\ Init
  /\ parent = [p \in Parents |-> BlankParent]
  /\ schedule = <<>> /\ childIds = {} /\ traced = {}
  /\ clock = None /\ advancing = None /\ submitting = None

\* No call is in progress.
Quiet == Idle /\ advancing = None /\ submitting = None

\* Time does not move backward.
ClockAllows(t) == clock # None => clock <= t
-----------------------------------------------------------------------------
(***************************************************************************)
(* add_parent, cancel_parent.                                              *)
(***************************************************************************)
ValidChild(c, o) ==
  /\ c.id # ZeroId /\ c.parent = o.parent /\ c.side = o.side /\ c.quantity # 0
  /\ o.start <= c.time /\ c.time < o.end
  /\ c.sequence # 0
  /\ c.type = "Market" => c.price = None
  /\ c.type = "Limit" => c.price \notin {None, 0}
  /\ c.id \notin childIds

Planned(s) == SeqX!FoldLeft(LAMBDA sum, c : sum + c.quantity, 0, s)

\* The overflow check on the running sum is implied by the last conjunct.
ValidOffer(o) ==
  /\ ~parent[o.parent].known
  /\ \A k \in DOMAIN o.schedule : ValidChild(o.schedule[k], o)
  /\ o.schedule # <<>> => Planned(o.schedule) = o.total

\* An entry of the schedule: a child, and its place among its parent's slices.
Entries(o) == {[child |-> o.schedule[k], slot |-> k] : k \in DOMAIN o.schedule}

Waiting == SeqX!ToSet(schedule)

\* The order schedule_ is sorted in.
Precedes(c, d) ==
  \/ c.time < d.time
  \/ c.time = d.time /\ c.sequence < d.sequence
  \/ c.time = d.time /\ c.sequence = d.sequence /\ c.id < d.id

Sorted(s) == \A j, k \in DOMAIN s : j < k => ~Precedes(s[k].child, s[j].child)

\* Mutant of Merged: the new entries are sorted and left behind the old ones.
Appended(new) == {schedule \o s : s \in {t \in SeqX!SetToSeqs(new) : Sorted(t)}}

\* std::sort over the old entries and the new: entries that compare equal end up in
\* any order.
Merged(new) == {s \in SeqX!SetToSeqs(Waiting \cup new) : Sorted(s)}

AddParent(o) ==
  /\ Quiet
  /\ ValidOffer(o)
  /\ parent' = [parent EXCEPT ![o.parent] =
                  PendingParent(o.side, o.total, o.start, o.end, Len(o.schedule))]
  /\ schedule' \in Merged(Entries(o))
  /\ childIds' = childIds \cup {o.schedule[k].id : k \in DOMAIN o.schedule}
  /\ UNCHANGED <<vars, traced, clock, advancing, submitting>>

CancelParent(p) ==
  /\ Quiet
  /\ parent[p].known /\ ~IsTerminal(parent[p])
  /\ parent' = [parent EXCEPT ![p].status = "Cancelled"]
  /\ UNCHANGED <<vars, schedule, childIds, traced, clock, advancing, submitting>>
-----------------------------------------------------------------------------
(***************************************************************************)
(* submit_child: the engine's submit, and what follows it.                 *)
(***************************************************************************)
\* A child the engine refuses makes submit_child, and its caller, throw.
SendChild(c, quantity) ==
  LET r == [id |-> c.id, side |-> c.side, type |-> c.type, price |-> c.price,
            quantity |-> quantity]
  IN
  \/ Submit(r) /\ submitting' = c /\ UNCHANGED advancing
  \/ RejectSubmit(r) /\ advancing' = None /\ UNCHANGED submitting

\* Mutant of Executed: the submitted quantity advances the parent.
Submitted(i) == order[i].original

\* ExecutionReport::executed_quantity, as the submission reports it.
Executed(i) == FilledQuantity(order[i])

\* What a submission adds to trade_to_child_.
Traced(i) == {<<k, i>> : k \in TradesOf(i)}

Record ==
  LET i == submitting.id
      p == submitting.parent
  IN
  /\ submitting # None /\ taker = None /\ error = "none"
  /\ parent' = [parent EXCEPT ![p] =
       [RecordFill(parent[p], Executed(i)) EXCEPT !.children = @ \cup {i},
                                                  !.fills    = @ \cup TradesOf(i)]]
  /\ traced' = traced \cup Traced(i)
  /\ submitting' = None
  /\ UNCHANGED <<vars, schedule, childIds, clock, advancing>>

\* The engine threw after it had matched: nothing is recorded.
Abort ==
  /\ submitting # None /\ taker = None /\ error = "overflow"
  /\ submitting' = None /\ advancing' = None
  /\ UNCHANGED <<vars, parent, schedule, childIds, traced, clock>>
-----------------------------------------------------------------------------
(***************************************************************************)
(* advance_to.                                                             *)
(***************************************************************************)
\* The places of the entries that the loop does not pass over.
Due(t) == {k \in DOMAIN schedule : schedule[k].child.time <= t}

\* Where the loop stops next: it walks the entries in the order they stand in.
NextDue(t) == {k \in Due(t) : \A j \in Due(t) : k <= j}

StartAdvance(t) ==
  /\ Quiet
  /\ ClockAllows(t)
  /\ advancing' = t
  /\ UNCHANGED <<vars, parent, schedule, childIds, traced, clock, submitting>>

\* Mutant of SkipChild: the loop does not move on.
SkipAndStay(k) ==
  /\ advancing # None /\ submitting = None
  /\ k \in NextDue(advancing)
  /\ ~CanGenerateChildren(parent[schedule[k].child.parent])
  /\ UNCHANGED allVars

\* The parent has ended, or has nothing left to execute.
SkipChild(k) ==
  LET p == schedule[k].child.parent IN
  /\ advancing # None /\ submitting = None
  /\ k \in NextDue(advancing)
  /\ ~CanGenerateChildren(parent[p])
  /\ schedule' = SeqX!RemoveAt(schedule, k)
  /\ parent' = [parent EXCEPT ![p].pending = @ - 1]
  /\ UNCHANGED <<vars, childIds, traced, clock, advancing, submitting>>

Least(a, b) == IF a <= b THEN a ELSE b

\* Mutant of SliceQuantity: the last slice does not catch up.
PlannedSlice(p, planned) == Least(planned, Unexecuted(p))

\* Mutant of SliceQuantity: the last slice catches up with the whole total.
TotalSlice(p, planned) ==
  IF p.pending = 1 /\ CatchUp THEN p.total ELSE Least(planned, Unexecuted(p))

\* What is submitted for a slice of parent p, the last one included.
SliceQuantity(p, planned) ==
  IF p.pending = 1 /\ CatchUp THEN Unexecuted(p) ELSE Least(planned, Unexecuted(p))

SubmitChild(k) ==
  LET c == schedule[k].child
      p == c.parent
  IN
  /\ advancing # None /\ submitting = None
  /\ k \in NextDue(advancing)
  /\ CanGenerateChildren(parent[p])
  /\ schedule' = SeqX!RemoveAt(schedule, k)
  /\ parent' = [parent EXCEPT ![p] = [Activated(parent[p]) EXCEPT !.pending = @ - 1]]
  /\ SendChild(c, SliceQuantity(parent[p], c.quantity))
  /\ UNCHANGED <<childIds, traced, clock>>

\* The loop is over: the clock moves, and the parents whose time is up expire.
FinishAdvance ==
  /\ advancing # None /\ submitting = None
  /\ Due(advancing) = {}
  /\ clock' = advancing
  /\ parent' = [p \in Parents |->
       IF parent[p].known /\ ~IsTerminal(parent[p]) /\ parent[p].end <= advancing
       THEN [parent[p] EXCEPT !.status = "Expired"] ELSE parent[p]]
  /\ advancing' = None
  /\ UNCHANGED <<vars, schedule, childIds, traced, submitting>>
-----------------------------------------------------------------------------
(***************************************************************************)
(* on_market_volume, one action per outcome.  The clock has moved in every *)
(* outcome, the ones that throw included.                                  *)
(***************************************************************************)
Observed(o) ==
  /\ Quiet
  /\ ClockAllows(o.time)
  /\ parent[o.parent].known
  /\ clock' = o.time
  /\ UNCHANGED <<schedule, traced>>

InWindow(o) ==
  LET p == parent[o.parent] IN
  CanGenerateChildren(p) /\ p.start <= o.time /\ o.time < p.end

VolumeFits(o) == o.volume <= MaxQuantity - parent[o.parent].observed

\* The parent is done or has not started, or the volume seen would overflow.
IgnoreVolume(o) ==
  /\ Observed(o)
  /\ \/ ~CanGenerateChildren(parent[o.parent])
     \/ o.time < parent[o.parent].start
     \/ InWindow(o) /\ ~VolumeFits(o)
  /\ UNCHANGED <<vars, parent, childIds, advancing, submitting>>

ExpireOnVolume(o) ==
  /\ Observed(o)
  /\ CanGenerateChildren(parent[o.parent]) /\ o.time >= parent[o.parent].end
  /\ parent' = [parent EXCEPT ![o.parent].status = "Expired"]
  /\ UNCHANGED <<vars, childIds, advancing, submitting>>

\* POV::generate_child: the floor of the rate times the volume, capped.
POVQuantity(p, o) == Least((o.num * o.volume) \div o.den, Unexecuted(p))

Counted(p, o) == [Activated(p) EXCEPT !.observed = @ + o.volume]

\* The volume counts; there is no child, or its id is 0 or was used (a throw).
CountVolume(o) ==
  /\ Observed(o)
  /\ InWindow(o) /\ VolumeFits(o)
  /\ \/ POVQuantity(parent[o.parent], o) = 0
     \/ o.id = ZeroId \/ o.sequence = 0
     \/ o.id \in childIds
  /\ parent' = [parent EXCEPT ![o.parent] = Counted(@, o)]
  /\ UNCHANGED <<vars, childIds, advancing, submitting>>

Participate(o) ==
  LET p == parent[o.parent] IN
  /\ Observed(o)
  /\ InWindow(o) /\ VolumeFits(o)
  /\ POVQuantity(p, o) > 0
  /\ o.id # ZeroId /\ o.sequence # 0
  /\ o.id \notin childIds
  /\ parent' = [parent EXCEPT ![o.parent] = Counted(@, o)]
  /\ childIds' = childIds \cup {o.id}
  /\ SendChild([id |-> o.id, parent |-> o.parent, side |-> p.side,
                quantity |-> POVQuantity(p, o), type |-> "Market", price |-> None,
                time |-> o.time, sequence |-> o.sequence], POVQuantity(p, o))
-----------------------------------------------------------------------------
\* The engine's other clients, between two calls of the scheduler.
Clients ==
  /\ Quiet
  /\ \/ \E r \in Requests : Submit(r) \/ RejectSubmit(r)
     \/ \E i \in Ids : Cancel(i)
     \/ \E i \in Ids, m \in ModifyRequests : Modify(i, m)
  /\ UNCHANGED schedulerVars

EngineStep == Match /\ UNCHANGED schedulerVars

\* The steps of the calls in progress.
Running ==
  \/ EngineStep
  \/ Record
  \/ Abort
  \/ \E k \in DOMAIN schedule : SkipChild(k) \/ SubmitChild(k)
  \/ FinishAdvance

SchedulerNext ==
  \/ \E o \in Offers : AddParent(o)
  \/ \E p \in Parents : CancelParent(p)
  \/ \E t \in Times : StartAdvance(t)
  \/ \E o \in Observations : IgnoreVolume(o) \/ ExpireOnVolume(o)
                             \/ CountVolume(o) \/ Participate(o)
  \/ Clients
  \/ Running

\* A call that has begun runs to its end.
SchedulerSpec == SchedulerInit /\ [][SchedulerNext]_allVars /\ WF_allVars(Running)
-----------------------------------------------------------------------------
(***************************************************************************)
(* Properties.                                                             *)
(***************************************************************************)
ParentRecords ==
  [known : BOOLEAN, side : Sides, total : Quantities, executed : Quantities,
   start : Times, end : Times, status : ParentStatuses, pending : Nat,
   observed : Quantities, children : SUBSET Ids, fills : SUBSET Nat]

\* Every variable of the scheduler has its type: no parent executes more than a
\* Quantity, no count of pending slices falls below zero.
SchedulerTypeOK ==
  /\ parent \in [Parents -> ParentRecords]
  /\ schedule \in Seq([child : Children, slot : Nat])
  /\ childIds \subseteq Ids
  /\ traced \subseteq (DOMAIN trades) \X Ids
  /\ clock \in Times \cup {None}
  /\ advancing \in Times \cup {None}
  /\ submitting \in Children \cup {None}

Known == {p \in Parents : parent[p].known}

\* The engine took these children of p, the one in submit_child included.
InMarket(p) ==
  parent[p].children \cup {c.id : c \in {d \in {submitting} \ {None} : d.parent = p}}

FilledIn(ids) == SeqX!SumFunctionOnSet([i \in Ids |-> FilledQuantity(order[i])], ids)

\* "Parent executed quantity equals actual child fills, never submitted
\* quantity" (docs/portfolio.md:40), between calls.
ExecutedIsFilled ==
  Quiet => \A p \in Known : parent[p].executed = FilledIn(parent[p].children)

\* What build_execution_summary asserts: the fills recorded for a parent add up
\* to its executed quantity, also after a call that threw halfway.
SummaryAddsUp ==
  \A p \in Known :
    parent[p].executed =
      SeqX!SumFunctionOnSet([k \in DOMAIN trades |-> trades[k].quantity], parent[p].fills)

\* A parent's status says how far it is executed, and no slice is submitted or
\* skipped twice: the counter of pending slices, on which the catch-up depends,
\* is the number of entries still in the schedule; volumes and sums stay in their types.
LifecycleOK ==
  /\ SchedulerTypeOK
  /\ \A p \in Known :
    /\ parent[p].status = "Filled" <=> parent[p].executed = parent[p].total
    /\ parent[p].status \in {"Pending", "Active"} => parent[p].executed = 0
    /\ parent[p].status = "PartiallyFilled" => parent[p].executed > 0
    /\ parent[p].status = "Pending" => InMarket(p) = {}
    /\ parent[p].pending = Cardinality({e \in Waiting : e.child.parent = p})

\* With catch-up, the last slice leaves a residual only when the market gives no
\* more: when it returns, its parent is filled or no level is left that it reaches.
LastSliceCatchesUp ==
  [][\A p \in Known :
       /\ CatchUp /\ advancing # None /\ submitting # None /\ submitting.parent = p
       /\ submitting' = None /\ submitting.id \in parent'[p].children
       /\ parent[p].pending = 0
       => \/ parent'[p].status = "Filled"
          \/ \A q \in levels[Opposite(parent[p].side)] :
               ~Reaches(order[submitting.id], q)]_allVars

\* A child submitted by advance_to overtakes no waiting child, of any parent, that was
\* planned for an earlier time, or for the same time with a lower sequence, whenever
\* the two parents were added: the loop looks at nothing but the order that add_parent
\* left, and each add_parent has to put its slices between those that still wait.
NoChildIsOvertaken ==
  [][advancing # None /\ submitting = None /\ submitting' # None =>
       \A e \in Waiting' :
         /\ e.child.time >= submitting'.time
         /\ e.child.time = submitting'.time => e.child.sequence >= submitting'.sequence]_allVars

\* Fills, children and status of a parent that has ended do not change: it is
\* neither executed nor worked again after a fill, a cancel or an expiry.
EndIsFinal ==
  [][\A p \in Known : IsTerminal(parent[p]) =>
       /\ parent'[p] = [parent[p] EXCEPT !.pending = parent'[p].pending]
       /\ InMarket(p)' = InMarket(p)]_allVars

\* advance_to and on_market_volume return.
EveryAdvanceReturns == (advancing # None \/ submitting # None) ~> Quiet

\* What is left to fill of the child of p that is being matched.
OpenOf(p) ==
  IF submitting # None /\ submitting.parent = p /\ submitting.id \in active
  THEN order[submitting.id].remaining ELSE 0

Promise(p) == INSTANCE WorkingOrder WITH
                total  <- parent[p].total,
                filled <- FilledIn(InMarket(p)),
                open   <- OpenOf(p),
                ended  <- IsTerminal(parent[p])

\* Schedules, catch-up, participation and a shared engine together give each
\* parent what its owner is promised (Promise(p)!OrderSpec, for every p).
WorksTheParents ==
  /\ \A p \in Parents : Promise(p)!OrderInit
  /\ [][\A p \in Parents : [Promise(p)!OrderNext]_(Promise(p)!orderVars)]_allVars
=============================================================================
