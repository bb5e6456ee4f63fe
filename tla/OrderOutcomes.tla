---------------------------- MODULE OrderOutcomes ----------------------------
(***************************************************************************)
(* What a backtest promises of its orders, without bars, prices or money   *)
(* (docs/architecture.md, "Event Processing Order"): orders are numbered   *)
(* as they are created, each is approved or rejected once, an approved one *)
(* waits until it is filled or refused, and nothing decided is undone.     *)
(* Only an exception may lose orders, and then nothing happens until a new *)
(* run forgets everything.                                                 *)
(***************************************************************************)
EXTENDS Naturals

CONSTANT Numbers   \* the numbers of the orders of a run, 1 .. some bound

VARIABLE outcome

Outcomes == {"none", "created", "waiting", "matched", "filled", "rejected", "refused", "lost"}

Nothing == [i \in Numbers |-> "none"]

OutcomesInit == outcome = Nothing

NoneLost == \A j \in Numbers : outcome[j] # "lost"

Move(i, from, to) ==
  /\ NoneLost
  /\ outcome[i] = from
  /\ outcome' = [outcome EXCEPT ![i] = to]

\* Orders are created one after the other.
Create(i) ==
  /\ \A j \in Numbers : outcome[j] = "none" <=> j >= i
  /\ Move(i, "none", "created")

\* The oldest order that is not yet decided is decided.
Decide(i) ==
  /\ \A j \in Numbers : j < i => outcome[j] # "created"
  /\ Move(i, "created", "waiting") \/ Move(i, "created", "rejected")

Meet(i) == Move(i, "waiting", "matched") \/ Move(i, "waiting", "refused")

\* Fills are applied in the order in which they were matched.
Settle(i) ==
  /\ \A j \in Numbers : j < i => outcome[j] # "matched"
  /\ Move(i, "matched", "filled")

\* An exception ends the run: the order that was being matched is lost,
Lose(i) == Move(i, "waiting", "lost")

\* or the fill that was being applied with all that should have followed it.
LoseMatched ==
  /\ NoneLost
  /\ outcome' = [i \in Numbers |-> IF outcome[i] = "matched" THEN "lost" ELSE outcome[i]]

Restart == outcome' = Nothing

OutcomesNext ==
  Restart \/ LoseMatched \/ \E i \in Numbers : Create(i) \/ Decide(i) \/ Meet(i) \/ Settle(i) \/ Lose(i)

OutcomesSpec == OutcomesInit /\ [][OutcomesNext]_outcome
=============================================================================
