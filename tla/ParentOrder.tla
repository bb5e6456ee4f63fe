----------------------------- MODULE ParentOrder -----------------------------
(***************************************************************************)
(* A parent order of the execution layer                                   *)
(* (cpp/src/execution/parent_order.cpp) and what its scheduler keeps with  *)
(* it (ExecutionScheduler::ParentState): a record, and the operations that *)
(* change it.  The scheduler calls each of them within its guard; what     *)
(* that takes is part of LifecycleOK in ExecutionScheduler.                *)
(*                                                                         *)
(* Abstracted: the symbol, the name of the algorithm, and the timestamps   *)
(* of the fills.                                                           *)
(***************************************************************************)
EXTENDS Integers

ParentStatuses ==
  {"Pending", "Active", "PartiallyFilled", "Filled", "Cancelled", "Expired"}

\* A parent just moved into the scheduler, with as many slices as its schedule.
PendingParent(side, total, start, end, slices) ==
  [known |-> TRUE, side |-> side, total |-> total, executed |-> 0,
   start |-> start, end |-> end, status |-> "Pending",
   pending |-> slices, observed |-> 0,
   children |-> {},  \* executions: the ids of the children the engine took
   fills    |-> {}]  \* fills: the trades recorded, by position

\* What the model keeps for a parent the scheduler does not know.
BlankParent == [PendingParent("Buy", 0, 0, 0, 0) EXCEPT !.known = FALSE]

Unexecuted(p) == p.total - p.executed

IsTerminal(p) == p.status \in {"Filled", "Cancelled", "Expired"}

\* Mutant of CanGenerateChildren: the status is not looked at.
HasUnexecuted(p) == Unexecuted(p) > 0

CanGenerateChildren(p) == ~IsTerminal(p) /\ Unexecuted(p) > 0

Activated(p) == [p EXCEPT !.status = IF @ = "Pending" THEN "Active" ELSE @]

\* Mutant of RecordFill: the status is not derived from what remains.
RecordFillKeepingStatus(p, quantity) ==
  [p EXCEPT !.executed = @ + quantity, !.status = "PartiallyFilled"]

\* An execution of 0 is not recorded.
RecordFill(p, quantity) ==
  [p EXCEPT !.executed = @ + quantity,
            !.status   = IF quantity = 0 THEN @
                         ELSE IF quantity = Unexecuted(p) THEN "Filled"
                         ELSE "PartiallyFilled"]
=============================================================================
