------------------------- MODULE PolicyTargetRunner -------------------------
(***************************************************************************)
(* PolicyTargetRunner: finds a tax path that meets a climate target in one *)
(* year, then walks through the periods after it and finds for each the    *)
(* tax that stays on the target. Every trial is a run of the scenario.     *)
(*                                                                         *)
(* The solver for the tax (Secanter) is numeric: which trial hits the      *)
(* target is left open, as long as the status it reads is a number.        *)
(***************************************************************************)
EXTENDS Scenario

CONSTANTS FirstTaxYear,      \* mFirstTaxYear
          TargetYear,        \* mInitialTargetYear
          MaxTargetYear,     \* ITarget::getUseMaxTargetYearFlag
          NumForwardLooking, \* mNumForwardLooking, by period
          NumBackwardsLook,  \* mNumBackwardsLook
          MaxIterations,     \* mMaxIterations
          WordSize           \* bound: unsigned numbers are below WordSize

FirstTaxPeriod == YrToPer(FirstTaxYear)

ASSUME TargetAssumption ==
    /\ FirstTaxYear \in 1..EndYear
    /\ TargetYear \in {MaxTargetYear} \cup FirstTaxYear..EndYear
    /\ MaxTargetYear \notin Years
    /\ NumForwardLooking \in [Periods -> Nat]
    /\ MaxIterations \in Nat
    /\ WordSize \in Nat /\ WordSize % 2 = 0 /\ WordSize > 2 * MaxPer
    /\ NumBackwardsLook \in 0..WordSize \div 2 - 1   \* it is an int

VARIABLES stage,     \* where the runner is
          iter,      \* mIterations of the solver at work
          period,    \* the period of the walk
          upto,      \* the period whose tax is sought, with the taxes of
                     \* period..upto-1 interpolated
          year,      \* the year whose status was read last
          outcome    \* what runScenarios returns

runnerVars == <<stage, iter, period, upto, year, outcome>>
vars == <<scenarioVars, runnerVars>>

Stages == {"setup", "baseline", "initial", "walk", "future", "skip", "done"}

\* The period of the walk is an int made from an unsigned number.
Walk == -(WordSize \div 2)..(WordSize \div 2)

TargetRunnerTypeOK ==
    /\ ScenarioTypeOK
    /\ stage \in Stages
    /\ iter \in 0..MaxIterations
    /\ period \in Walk
    /\ upto \in Periods
    /\ year \in Years
    /\ outcome \in {"none", "success", "failure"}

Init ==
    /\ ScenarioInit
    /\ stage = "setup" /\ iter = 0 /\ period = 0 /\ upto = 0 /\ year = 0
    /\ outcome = "none"

Conclude(result) == stage' = "done" /\ outcome' = result

\* The years ITarget::getStatus may look at: the target year, or the one of
\* the largest value, which is in no year without a number.
StatusYears ==
    LET numbers == {y \in FirstTaxYear..EndYear : hector.conc[y] # "nan"}
    IN CASE TargetYear # MaxTargetYear -> {TargetYear}
         [] TargetYear = MaxTargetYear /\ numbers # {} -> numbers
         [] OTHER -> {FirstTaxYear - 1}

-----------------------------------------------------------------------------
(* Scenario::run, called by the runner and waited for *)

ScenarioStep == ScenarioNext /\ UNCHANGED runnerVars

-----------------------------------------------------------------------------
(* The initial target *)

\* The run without a tax.
Baseline ==
    /\ stage = "setup"
    /\ BeginRun(RunAllPeriods, 0, {})
    /\ stage' = "baseline"
    /\ UNCHANGED <<iter, period, upto, year, outcome>>

\* Below the target without a tax: there is no tax to find.
TargetTooHigh ==
    /\ stage = "baseline" /\ ~Running
    /\ \E y \in StatusYears : hector.conc[y] # "nan"
    /\ Conclude("failure")
    /\ UNCHANGED <<scenarioVars, iter, period, upto, year>>

StartInitial ==
    /\ stage = "baseline" /\ ~Running
    /\ stage' = "initial" /\ iter' = 0
    /\ UNCHANGED <<scenarioVars, period, upto, year, outcome>>

-----------------------------------------------------------------------------
(* The search for one tax, of solveInitialTarget, solveFutureTarget and    *)
(* skipFuturePeriod                                                        *)

Searching == stage \in {"initial", "future", "skip"} /\ ~Running
MayIterate == Searching /\ iter < MaxIterations

\* Mutant: the results of the earlier trial are not invalidated.
RunTrialOnOldResults ==
    IF stage = "initial"
    THEN BeginRun(MaxPer - 1, FirstTaxPeriod, {})
    ELSE BeginRun(upto, period, {})

\* A trial: the taxes are set from some period on, what was calculated with
\* other taxes is invalidated, the scenario is run.
RunTrial ==
    IF stage = "initial"
    THEN BeginRun(MaxPer - 1, FirstTaxPeriod, FirstTaxPeriod..MaxPer-1)
    ELSE BeginRun(upto, period, period..upto-1)

\* Mutant: iterations are not counted.
TrialUncounted ==
    /\ MayIterate
    /\ iter' = IF iter = 0 THEN 1 ELSE iter
    /\ RunTrial
    /\ UNCHANGED <<stage, period, upto, year, outcome>>

Trial ==
    /\ MayIterate
    /\ iter' = iter + 1
    /\ RunTrial
    /\ UNCHANGED <<stage, period, upto, year, outcome>>

\* The solver generates no number. Its first trial is the one it was given;
\* solveFutureTarget does not look.
InvalidTrial ==
    /\ MayIterate /\ iter > 0 /\ stage \in {"initial", "skip"}
    /\ iter' = iter + 1
    /\ Conclude("failure")
    /\ UNCHANGED <<scenarioVars, period, upto, year>>

\* The status in year y is within the tolerance.
Found(y) ==
    /\ MayIterate /\ iter > 0
    /\ hector.conc[y] # "nan"
    /\ iter' = iter + 1
    /\ year' = y

\* The limit is checked again after the search, also if it has been successful.
WithinLimit == iter' < MaxIterations

\* The first period of the walk: the one after the target year, some periods
\* back, but not before the first tax. Unsigned, and then an int.
WalkStart(y) ==
    LET onBoundary == PerToYr(YrToPer(y)) = y
        start      == IF onBoundary THEN YrToPer(y) + 1 ELSE YrToPer(y)
        back       == (start - NumBackwardsLook) % WordSize
        first      == Max({back, FirstTaxPeriod})
    IN IF first < WordSize \div 2 THEN first ELSE first - WordSize

\* Mutant: unsolved periods are not looked at.
FoundInitialUnsolved ==
    /\ stage = "initial"
    /\ \E y \in StatusYears :
          /\ Found(y)
          /\ IF WithinLimit
             THEN /\ stage' = "walk" /\ period' = WalkStart(y)
                  /\ UNCHANGED outcome
             ELSE Conclude("failure") /\ UNCHANGED period
    /\ UNCHANGED <<scenarioVars, upto>>

\* Periods after the target year may have failed to solve.
FoundInitial ==
    /\ stage = "initial"
    /\ \E y \in StatusYears :
          /\ Found(y)
          /\ IF WithinLimit /\ \A p \in unsolved : y < PerToYr(p)
             THEN /\ stage' = "walk" /\ period' = WalkStart(y)
                  /\ UNCHANGED outcome
             ELSE Conclude("failure") /\ UNCHANGED period
    /\ UNCHANGED <<scenarioVars, upto>>

LimitReached ==
    /\ Searching /\ iter = MaxIterations
    /\ Conclude("failure")
    /\ UNCHANGED <<scenarioVars, iter, period, upto, year>>

-----------------------------------------------------------------------------
(* The walk through the periods after the target year *)

Walking == stage = "walk" /\ period < MaxPer

\* solveFutureTarget: the tax of the period before is tried first.
SolveFuture ==
    /\ Walking /\ period \in Periods /\ NumForwardLooking[period] = 0
    /\ stage' = "future" /\ iter' = 0 /\ upto' = period
    /\ BeginRun(period, period, {})
    /\ UNCHANGED <<period, year, outcome>>

\* Mutant: the last period is not the limit.
SkipFutureUncapped ==
    /\ Walking /\ period \in Periods /\ NumForwardLooking[period] > 0
    /\ stage' = "skip" /\ iter' = 0
    /\ upto' = period + NumForwardLooking[period]
    /\ BeginRun(upto', period, period..upto'-1)
    /\ UNCHANGED <<period, year, outcome>>

\* skipFuturePeriod: some periods ahead, the taxes in between interpolated.
SkipFuture ==
    /\ Walking /\ period \in Periods /\ NumForwardLooking[period] > 0
    /\ stage' = "skip" /\ iter' = 0
    /\ upto' = Min({period + NumForwardLooking[period], MaxPer - 1})
    /\ BeginRun(upto', period, period..upto'-1)
    /\ UNCHANGED <<period, year, outcome>>

\* Mutant: an unsolved last trial is taken.
FoundLaterUnsolved ==
    /\ stage \in {"future", "skip"}
    /\ Found(PerToYr(upto))
    /\ IF WithinLimit
       THEN stage' = "walk" /\ period' = period + 1 /\ UNCHANGED outcome
       ELSE Conclude("failure") /\ UNCHANGED period
    /\ UNCHANGED <<scenarioVars, upto>>

\* The next step of the walk is the next period, also after skipping.
FoundLater ==
    /\ stage \in {"future", "skip"}
    /\ Found(PerToYr(upto))
    /\ IF WithinLimit /\ Success
       THEN /\ stage' = "walk" /\ period' = period + 1
            /\ UNCHANGED outcome
       ELSE Conclude("failure") /\ UNCHANGED period
    /\ UNCHANGED <<scenarioVars, upto>>

WalkEnds ==
    /\ stage = "walk" /\ period >= MaxPer
    /\ Conclude("success")
    /\ UNCHANGED <<scenarioVars, iter, period, upto, year>>

-----------------------------------------------------------------------------

Next ==
    \/ ScenarioStep
    \/ Baseline \/ TargetTooHigh \/ StartInitial
    \/ Trial \/ InvalidTrial \/ FoundInitial \/ FoundLater \/ LimitReached
    \/ SolveFuture \/ SkipFuture \/ WalkEnds

Spec == Init /\ [][Next]_vars

\* The runner is one thread and every run of the scenario returns.
FairSpec == Spec /\ WF_vars(Next)

-----------------------------------------------------------------------------
(* Properties *)

\* Success stands for one tax path and one set of results: every period is
\* valid and was calculated with the taxes that are set, from results of the
\* period before it that were not replaced since
\* (PolicyTargetRunner::runScenarios with Scenario::run).
ResultsMatchTaxes ==
    outcome = "success" => valid = Periods /\ current = Periods

\* No period with a tax is left unsolved in the end, although unsolved periods
\* are forgotten by the next run (scenario.cpp:287), stay valid (478) and are
\* tolerated after the target year (policy_target_runner.cpp:468-486).
TaxedPeriodsSolved ==
    outcome = "success" => FirstTaxPeriod..MaxPer-1 \subseteq solved

\* The climate reported with success was calculated from the emissions of the
\* reported results, however often the core was left behind by a period that
\* did not solve; unless the core in use has failed before, which runModel
\* goes on with (hector_model.cpp:494 and 544).
ClimateMatchesResults ==
    outcome = "success" /\ ~hector.failed => \A y \in 1..HectorEnd : hector.conc[y] = "current"

\* No period is calculated on results that were made with other taxes: what a
\* search changes, it invalidates or runs again (Scenario::run).
PredecessorsCurrent ==
    [][\A p \in Periods :
          Running /\ next' = p + 1 => \A q \in 0..p-1 : q \in current]_vars

\* The concentration accepted as on target belongs to the results at hand,
\* unless the core has failed, or the year was interpolated into a period that
\* did not solve, which the walk then starts with (policy_target_runner.cpp:291-297 and 468-486).
StatusTrusted ==
    [][stage = "initial" /\ stage' = "walk" =>
          \/ hector.conc[year'] = "current"
          \/ hector.failed
          \/ YrToPer(year') \in unsolved /\ period' <= YrToPer(year')]_vars

\* The walk stays within the taxed periods ("do not go before the first tax
\* period", policy_target_runner.cpp:299), which takes a look back that fits.
WalkAfterFirstTax ==
    stage \in {"walk", "future", "skip"} => period >= FirstTaxPeriod

\* The search comes to an end, with a target found or not.
SearchEnds == <>(outcome # "none")

=============================================================================
