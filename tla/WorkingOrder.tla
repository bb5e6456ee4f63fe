----------------------------- MODULE WorkingOrder -----------------------------
(***************************************************************************)
(* What the execution layer promises the owner of a parent order, without  *)
(* schedules, clocks or a book (docs/architecture.md:347-362): a total is  *)
(* worked by one child at a time, no child asks for more than what is left *)
(* of the total, what the market does not give a child comes back, and     *)
(* nothing is executed once the parent has ended.                          *)
(***************************************************************************)
EXTENDS Integers

VARIABLES
  total,   \* the quantity accepted from the owner, 0 before that
  filled,  \* what the market has executed
  open,    \* what the child in the market still asks for
  ended    \* the parent is filled, cancelled or expired

orderVars == <<total, filled, open, ended>>

OrderInit == total = 0 /\ filled = 0 /\ open = 0 /\ ended = FALSE

Accept ==
  /\ total = 0
  /\ total' \in Nat \ {0}
  /\ UNCHANGED <<filled, open, ended>>

Place ==
  /\ ~ended
  /\ open = 0 /\ open' > 0 /\ open' <= total - filled
  /\ UNCHANGED <<total, filled, ended>>

Fill ==
  /\ open' >= 0 /\ open' < open
  /\ filled' = filled + (open - open')
  /\ UNCHANGED <<total, ended>>

Return ==
  /\ open > 0 /\ open' = 0
  /\ UNCHANGED <<total, filled, ended>>

End ==
  /\ total > 0 /\ open = 0
  /\ ~ended /\ ended'
  /\ UNCHANGED <<total, filled, open>>

OrderNext == Accept \/ Place \/ Fill \/ Return \/ End

OrderSpec == OrderInit /\ [][OrderNext]_orderVars
=============================================================================
