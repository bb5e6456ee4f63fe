-------------------------- MODULE ExecutionSimulator --------------------------
(***************************************************************************)
(* quant_system/execution: orders wait for the next bar of their symbol    *)
(* and are filled at its open, moved by slippage and charged commission.   *)
(* execute_pending is taken order by order: pending is what its loop has   *)
(* not popped yet, still what it keeps, accepted what it will return.      *)
(***************************************************************************)
EXTENDS RiskManager

VARIABLES
  pending,   \* _pending
  seen,      \* _seen_order_ids
  refused,   \* _rejected
  still,     \* execute_pending's still_pending
  accepted   \* execute_pending's fills

simulatorVars == <<pending, seen, refused, still, accepted>>

SimulatorInit ==
  pending = <<>> /\ seen = {} /\ refused = <<>> /\ still = <<>> /\ accepted = <<>>

\* Mutant of ResetSimulator: the ids of the last run are remembered.
ResetKeepingIds ==
  pending' = <<>> /\ refused' = <<>> /\ still' = <<>> /\ accepted' = <<>> /\ UNCHANGED seen

\* reset, and the call of execute_pending in progress, if any, is over.
ResetSimulator ==
  pending' = <<>> /\ seen' = {} /\ refused' = <<>> /\ still' = <<>> /\ accepted' = <<>>

\* Mutant of Submit: the latest order is executed first.
SubmitFirst(order) ==
  /\ pending' = <<order>> \o pending
  /\ seen' = seen \cup {order.id}
  /\ UNCHANGED <<refused, still, accepted>>

\* submit, when the id is new.
Submit(order) ==
  /\ pending' = Append(pending, order)
  /\ seen' = seen \cup {order.id}
  /\ UNCHANGED <<refused, still, accepted>>
-----------------------------------------------------------------------------
\* The models: a fixed amount or a percentage.  ZeroCommission and NoSlippage
\* are fixed amounts of zero.
CommissionOn(model, quantity, price) ==
  IF model.kind = "fixed" THEN model.amount ELSE Whole(quantity) ** price ** model.amount

Slipped(model, open, side) ==
  LET step == IF model.kind = "fixed" THEN model.amount ELSE Whole(open) ** model.amount
  IN  IF side = "BUY" THEN Whole(open) ++ step ELSE Whole(open) -- step

FillOf(order, market, commission, slippage) ==
  LET price == Slipped(slippage, market.open, order.side)
  IN  [id |-> order.id, timestamp |-> market.timestamp, symbol |-> order.symbol,
       side |-> order.side, quantity |-> order.quantity, price |-> price,
       commission |-> CommissionOn(commission, order.quantity, price)]

\* Mutant of Eligible: an order may be filled by a bar of its own time.
EligibleAtOnce(order, market) ==
  order.symbol = market.symbol /\ order.timestamp <= market.timestamp

Eligible(order, market) ==
  order.symbol = market.symbol /\ order.timestamp < market.timestamp

\* Mutant of Hold: the order goes back to the queue it was taken from.
HoldInQueue(market) ==
  /\ pending # <<>> /\ ~Eligible(Head(pending), market)
  /\ pending' = Append(Tail(pending), Head(pending))
  /\ UNCHANGED <<seen, refused, still, accepted>>

\* The next order of the loop is not for this bar.
Hold(market) ==
  /\ pending # <<>> /\ ~Eligible(Head(pending), market)
  /\ still' = Append(still, Head(pending))
  /\ pending' = Tail(pending)
  /\ UNCHANGED <<seen, refused, accepted>>

\* Mutant of Match: an order that is refused is kept as well.
MatchOrKeep(fill, accepts) ==
  /\ Zero \prec fill.price
  /\ pending' = Tail(pending)
  /\ IF accepts THEN accepted' = Append(accepted, fill) /\ UNCHANGED <<refused, still>>
     ELSE /\ refused' = Append(refused, Head(pending)) /\ still' = Append(still, Head(pending))
          /\ UNCHANGED accepted
  /\ UNCHANGED seen

\* The next order of the loop meets its bar; accepts is accept_fill(fill).
Match(fill, accepts) ==
  /\ Zero \prec fill.price
  /\ pending' = Tail(pending)
  /\ IF accepts THEN accepted' = Append(accepted, fill) /\ UNCHANGED refused
                ELSE refused' = Append(refused, Head(pending)) /\ UNCHANGED accepted
  /\ UNCHANGED <<seen, still>>

\* FixedSlippage raises: the order is popped and in neither queue.
PriceFails(fill) ==
  /\ fill.price \preceq Zero
  /\ pending' = Tail(pending)
  /\ UNCHANGED <<seen, refused, still, accepted>>

\* execute_pending returns accepted.
FinishExecution ==
  /\ pending = <<>>
  /\ pending' = still /\ still' = <<>> /\ accepted' = <<>>
  /\ UNCHANGED <<seen, refused>>
=============================================================================
