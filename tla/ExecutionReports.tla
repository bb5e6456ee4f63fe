--------------------------- MODULE ExecutionReports ---------------------------
(***************************************************************************)
(* What ExecutionScheduler::summary and the analytics downstream of it     *)
(* report of the parents while they are worked.                            *)
(***************************************************************************)
EXTENDS ExecutionScheduler

Analytics == INSTANCE ExecutionAnalytics

CONSTANT Given  \* the benchmarks reports are made with

ASSUME GivenAssumption ==
  /\ Given \subseteq Analytics!Benchmarks
  /\ \A b \in Given : Analytics!BenchmarkAccepted(b)
  /\ None \notin Analytics!Quotients

\* state.fills, and the trades of all clients.
RecordedFills(p) == [k \in parent[p].fills |-> [price |-> trades[k].price, quantity |-> trades[k].quantity]]
Tape == [k \in DOMAIN trades |-> [price |-> trades[k].price, quantity |-> trades[k].quantity]]

SummaryOf(p) == Analytics!Summary(parent[p], RecordedFills(p))

ReportOn(p, b) == Analytics!QualityReport(SummaryOf(p), b, Tape)
-----------------------------------------------------------------------------
\* What the children of p have paid or received, by the engine's records of them.
PaidBy(p) == SeqX!SumFunctionOnSet([i \in Ids |-> order[i].notional], parent[p].children)

\* By how much one cash flow is worse than another for a side, fees included.
WorseOff(side, paid, paper, b) ==
  LET ticks == IF side = "Buy" THEN paid - paper ELSE paper - paid
  IN  Analytics!sum[<<b.fees, Analytics!product[<<Analytics!Whole(ticks), b.tick>>]>>]

\* Between calls a parent has a report, and its implementation shortfall, when the final
\* price is there or not needed, is what its owner is worse off than on paper: what the
\* children's orders were filled for and the rest at the final price, against all at the
\* arrival price, and the fees (docs/architecture.md:388-390); with the delay, reported
\* apart, against all at the decision price.  Against the VWAP of a market in which nobody
\* else traded nothing is lost.
ShortfallIsPaperDifference ==
  Quiet => \A p \in Known, b \in Given :
    LET s    == SummaryOf(p)
        r    == ReportOn(p, b)
        left == parent[p].total - FilledIn(parent[p].children)
        rest == IF left = 0 THEN 0 ELSE left * b.final
    IN
    /\ Analytics!FillsAddUp(parent[p], RecordedFills(p)) /\ Analytics!SummaryAccepted(s)
    /\ s.remaining = left
    /\ r.shortfall.total = None <=> left > 0 /\ b.final = None
    /\ r.shortfall.total # None =>
         r.shortfall.total =
           WorseOff(parent[p].side, PaidBy(p) + rest, parent[p].total * b.arrival, b)
    /\ r.shortfall.total # None /\ b.decision # None =>
         Analytics!sum[<<r.shortfall.total, r.shortfall.delay>>] =
           WorseOff(parent[p].side, PaidBy(p) + rest, parent[p].total * b.decision, b)
    /\ r.arrival_amount \in {None, r.shortfall.execution}
    /\ parent[p].fills = DOMAIN trades => r.vwap_amount \in {None, Analytics!Zero}
=============================================================================
