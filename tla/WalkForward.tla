----------------------------- MODULE WalkForward -----------------------------
(***************************************************************************)
(* walk_forward_evaluate (research/walk_forward.py) and the folds it works *)
(* on (research/split.py): each fold scores every combination of           *)
(* parameters on its training rows, keeps the best, and runs it on its     *)
(* test rows; the test returns of all folds become one equity curve.       *)
(*                                                                         *)
(* Several evaluations run side by side, as requests of the dashboard do.  *)
(* Rows are known by their positions; a backtest is what BacktestEngine    *)
(* makes of rows, warm-up rows and parameters.                             *)
(***************************************************************************)
EXTENDS RiskAnalytics, FiniteSets

CONSTANTS
  Evaluations,        \* calls of walk_forward_evaluate
  Jobs,               \* their arguments
  Bars, Values,       \* the rows of frames, the choices of parameters
  None,
  Capital,            \* initial_capital
  Backtest(_, _, _),  \* the equity curve of rows, warm-up and parameters; None when the engine raises
  Objective(_)        \* the objective's value for an equity curve; None when it is not finite or undefined

Lists == INSTANCE SequencesExt

Arguments ==
  [rows : Seq(Bars), train : Int, test : Int, step : Int \cup {None}, expanding : BOOLEAN,
   grid : Seq(Seq(Values))]

ASSUME ResearchAssumption ==
  /\ Capital \in Fractions /\ Zero \prec Capital
  /\ \A bar \in Bars : bar.timestamp \in Int
  /\ \A jobs \in Jobs, e \in Evaluations : jobs[e] \in Arguments

VARIABLE eval   \* eval[e]: how far evaluation e has come
-----------------------------------------------------------------------------
(***************************************************************************)
(* split.py                                                                *)
(***************************************************************************)
PositiveSize(n) == n \in Nat \ {0}

\* _validated_data: times may repeat.
ValidData(rows) ==
  /\ rows # <<>>
  /\ \A i, j \in DOMAIN rows : i < j => rows[i].timestamp <= rows[j].timestamp

StepSize(job) == IF job.step = None THEN job.test ELSE job.step

\* Mutant of Overlaps: test folds may overlap.
NeverOverlaps(job) == FALSE

Overlaps(job) == StepSize(job) < job.test

\* What raises before there is a fold.
Refused(job) ==
  \/ Overlaps(job) \/ ~ValidData(job.rows)
  \/ ~PositiveSize(job.train) \/ ~PositiveSize(job.test) \/ ~PositiveSize(StepSize(job))
  \/ job.train + job.test > Len(job.rows)

FoldFits(job, start) == start + job.test <= Len(job.rows)

\* Mutant of Fold: the training rows reach into the test.
FoldPeeking(job, start) ==
  [train |-> <<IF job.expanding THEN 1 ELSE start - job.train + 1, start + 1>>,
   test |-> <<start + 1, start + job.test>>]

\* The first and last row of the fold's training and test, which begins after "start" rows.
Fold(job, start) ==
  [train |-> <<IF job.expanding THEN 1 ELSE start - job.train + 1, start>>,
   test |-> <<start + 1, start + job.test>>]

\* iloc[start:end]
Rows(job, span) == SubSeq(job.rows, span[1], span[2])
-----------------------------------------------------------------------------
(***************************************************************************)
(* walk_forward.py                                                         *)
(***************************************************************************)
ValidGrid(grid) == grid # <<>> /\ \A n \in DOMAIN grid : grid[n] # <<>>

\* The product of the choices, the last name's varying fastest.
Extended(partial, choices) ==
  Lists!FlattenSeq([i \in DOMAIN partial |-> [k \in DOMAIN choices |-> Append(partial[i], choices[k])]])

ParameterCombinations(grid) ==
  LET combinations[n \in 0 .. Len(grid)] ==
        IF n = 0 THEN <<<<>>>> ELSE Extended(combinations[n - 1], grid[n])
  IN  combinations[Len(grid)]

\* A backtest has one equity for each of its bars, and the objective a number or none.
IsCurve(curve, rows) == curve \in Seq(Fractions) /\ Len(curve) = Len(rows)

ASSUME BacktestAssumption ==
  \A jobs \in Jobs, e \in Evaluations :
    LET job == jobs[e] IN
    ~Refused(job) =>
      \A start \in job.train .. Len(job.rows) - job.test, p \in Lists!ToSet(ParameterCombinations(job.grid)) :
        LET train == Rows(job, Fold(job, start).train)
            test == Rows(job, Fold(job, start).test)
            trained == Backtest(train, <<>>, p)
            tested == Backtest(test, train, p)
        IN  /\ trained = None \/ (IsCurve(trained, train) /\ Objective(trained) \in Fractions \cup {None})
            /\ tested = None \/ IsCurve(tested, test)

\* A score of None is minus infinity.
Higher(a, b) == a # None /\ (b = None \/ b \prec a)

\* max takes the first of the best.
Selected(scores) ==
  CHOOSE k \in DOMAIN scores :
    \A l \in DOMAIN scores : ~Higher(scores[l], scores[k]) /\ (l < k => Higher(scores[k], scores[l]))

\* The engine refuses warm-up that does not end before its first bar.
WarmUpPrecedes(warmup, rows) == warmup[Len(warmup)].timestamp < rows[1].timestamp

\* The first return is measured from the initial capital.
ReturnsFromResult(equity) == SimpleReturns(<<Capital>> \o equity)

CombinedReturns(results) ==
  Lists!FlattenSeq([k \in DOMAIN results |-> ReturnsFromResult(results[k].test_equity)])

\* max_drawdown and generate_risk_report work on the equity with its baseline.
WithBaseline(equity) == <<Capital>> \o equity

NewEvaluation(job) ==
  [job |-> job, stage |-> "split", start |-> job.train, folds |-> <<>>, scores |-> <<>>,
   results |-> <<>>, summary |-> None]

Begun(e, stage) == eval[e].stage = stage
Becomes(e, evaluation) == eval' = [eval EXCEPT ![e] = evaluation]
Fail(e) == Becomes(e, [eval[e] EXCEPT !.stage = "failed"])

Combinations(e) == ParameterCombinations(eval[e].job.grid)
Current(e) == eval[e].folds[Len(eval[e].results) + 1]
Scored(e) == Len(eval[e].scores) = Len(Combinations(e))

\* walk_forward_splits: the arguments are checked, then one fold after the other is cut.
RefuseArguments(e) == Begun(e, "split") /\ Refused(eval[e].job) /\ Fail(e)

CutFold(e) ==
  LET job == eval[e].job IN
  /\ Begun(e, "split") /\ ~Refused(job) /\ FoldFits(job, eval[e].start)
  /\ Becomes(e, [eval[e] EXCEPT !.folds = Append(@, Fold(job, eval[e].start)), !.start = @ + StepSize(job)])

AllCut(e) ==
  LET job == eval[e].job IN
  /\ Begun(e, "split") /\ ~Refused(job) /\ ~FoldFits(job, eval[e].start)
  /\ IF ValidGrid(job.grid) THEN Becomes(e, [eval[e] EXCEPT !.stage = "folds"]) ELSE Fail(e)

\* evaluate_parameter_grid: one candidate's backtest on the training rows of the fold.
EvaluateCandidate(e) ==
  /\ Begun(e, "folds") /\ Len(eval[e].results) < Len(eval[e].folds) /\ ~Scored(e)
  /\ LET parameters == Combinations(e)[Len(eval[e].scores) + 1]
         equity == Backtest(Rows(eval[e].job, Current(e).train), <<>>, parameters)
     IN  IF equity = None THEN Fail(e)
         ELSE Becomes(e, [eval[e] EXCEPT !.scores = Append(@, Objective(equity))])

\* The best candidate is frozen and run on the test rows, warmed up with the training rows.
TestFold(e) ==
  /\ Begun(e, "folds") /\ Len(eval[e].results) < Len(eval[e].folds) /\ Scored(e)
  /\ LET best == Selected(eval[e].scores)
         warmup == Rows(eval[e].job, Current(e).train)
         rows == Rows(eval[e].job, Current(e).test)
         equity == IF WarmUpPrecedes(warmup, rows) THEN Backtest(rows, warmup, Combinations(e)[best]) ELSE None
     IN  IF equity = None THEN Fail(e)
         ELSE Becomes(e, [eval[e] EXCEPT !.scores = <<>>,
                !.results = Append(@, [selected_parameters |-> Combinations(e)[best],
                                       train_score |-> eval[e].scores[best], test_equity |-> equity])])

\* The reports raise on a total loss: a return after it is undefined, the equity not positive.
Combine(e) ==
  /\ Begun(e, "folds") /\ Len(eval[e].results) = Len(eval[e].folds)
  /\ IF \E k \in DOMAIN eval[e].results : ~AllPositive(eval[e].results[k].test_equity)
     THEN Fail(e)
     ELSE LET returns == CombinedReturns(eval[e].results)
              equity == EquityCurve(returns, Capital)
          IN  IF ~ReportDefined(returns, WithBaseline(equity)) THEN Fail(e)
              ELSE Becomes(e, [eval[e] EXCEPT !.stage = "done",
                     !.summary = [combined_oos_equity |-> equity,
                                  max_drawdown |-> MaxDrawdown(WithBaseline(equity)),
                                  risk_report |-> RiskReport(returns, WithBaseline(equity))]])

Advance(e) == RefuseArguments(e) \/ CutFold(e) \/ AllCut(e) \/ EvaluateCandidate(e) \/ TestFold(e) \/ Combine(e)

Init == \E jobs \in Jobs : eval = [e \in Evaluations |-> NewEvaluation(jobs[e])]

Next == \E e \in Evaluations : Advance(e)

Spec == Init /\ [][Next]_eval
-----------------------------------------------------------------------------
Within(span) == span[1] .. span[2]

\* A fold's tests follow its training rows at once, which are as many as asked for or all
\* before, and no row is tested twice.
FoldsAreApart(job, folds) ==
  \A k \in DOMAIN folds :
    /\ folds[k].train[2] + 1 = folds[k].test[1]
    /\ Cardinality(Within(folds[k].test)) = job.test
    /\ Within(folds[k].test) \subseteq DOMAIN job.rows
    /\ IF job.expanding THEN folds[k].train[1] = 1 ELSE Cardinality(Within(folds[k].train)) = job.train
    /\ \A l \in DOMAIN folds : k < l => folds[k].test[2] < folds[l].test[1]

\* In the fold's own time, its training is over before its test begins.
TestsComeLater(job, fold) ==
  \A i \in Within(fold.train), j \in Within(fold.test) : job.rows[i].timestamp < job.rows[j].timestamp

\* The combined equity goes on from fold to fold, each fold's backtest scaled to what
\* the one before it left.
EquityGoesOn(equity, results, size) ==
  /\ Len(equity) = Len(results) * size
  /\ \A k \in DOMAIN results, i \in 1 .. size :
       equity[(k - 1) * size + i] =
         (IF k = 1 THEN Capital ELSE equity[(k - 1) * size]) ** (results[k].test_equity[i] // Capital)

\* Every row that is tested comes after its own training rows, in place and in time, is
\* tested once, and no row that could be tested is left out.
RowsAreTestedOnce ==
  \A e \in Evaluations :
    LET job == eval[e].job
        folds == eval[e].folds
    IN  /\ FoldsAreApart(job, folds)
        /\ \A k \in DOMAIN eval[e].results : TestsComeLater(job, folds[k])
        /\ Begun(e, "folds") \/ Begun(e, "done") =>
             /\ folds # <<>>
             /\ Len(job.rows) < folds[Len(folds)].test[2] + StepSize(job)

\* No test row precedes, overlaps or repeats, and each gives one return, measured from
\* the fold's own start ("preventing the same period from being counted twice",
\* "strictly earlier training bars", architecture.md:265-270).
FoldsAreHonest ==
  /\ RowsAreTestedOnce
  /\ \A e \in Evaluations : Begun(e, "done") =>
       EquityGoesOn(eval[e].summary.combined_oos_equity, eval[e].results, eval[e].job.test)

SameUntil(a, b, row) == SubSeq(a.rows, 1, row) = SubSeq(b.rows, 1, row)
SameSettings(a, b) == [a EXCEPT !.rows = <<>>] = [b EXCEPT !.rows = <<>>]

\* "The objective sees training BacktestResult objects only ... no test statistic can revise
\* it" (architecture.md:261-264): two evaluations whose data agree up to the test of a fold
\* score alike and choose alike for it, whatever comes later, and whatever other folds
\* and evaluations do; and what they report of the fold differs only by its test rows.
SelectionIsBlind ==
  \A e, f \in Evaluations : SameSettings(eval[e].job, eval[f].job) =>
    /\ \A k \in DOMAIN eval[e].results \cap DOMAIN eval[f].results :
         /\ SameUntil(eval[e].job, eval[f].job, eval[e].folds[k].test[1] - 1) =>
              /\ eval[e].results[k].selected_parameters = eval[f].results[k].selected_parameters
              /\ eval[e].results[k].train_score = eval[f].results[k].train_score
         /\ SameUntil(eval[e].job, eval[f].job, eval[e].folds[k].test[2]) =>
              eval[e].results[k] = eval[f].results[k]
    /\ /\ Begun(e, "folds") /\ Begun(f, "folds")
       /\ Len(eval[e].results) = Len(eval[f].results) /\ Len(eval[e].results) < Len(eval[e].folds)
       /\ SameUntil(eval[e].job, eval[f].job, Current(e).test[1] - 1)
       => \A c \in DOMAIN eval[e].scores \cap DOMAIN eval[f].scores : eval[e].scores[c] = eval[f].scores[c]
=============================================================================
