------------------------------ MODULE Scenario ------------------------------
(***************************************************************************)
(* Scenario::run: which periods it calculates, which results it takes as   *)
(* still valid, which periods it reports as unsolved, and when the climate *)
(* model is run.                                                           *)
(***************************************************************************)
EXTENDS HectorModel, FiniteSetsExt

VARIABLES valid,       \* periods marked valid (mIsValidPeriod)
          unsolved,    \* periods unsolved in this run (mUnsolvedPeriods)
          goal,        \* aSinglePeriod of the run under way
          next,        \* the loop over the periods has got to here
          hector,      \* the climate model
          solved,      \* history: periods whose results cleared the markets
          current      \* history: periods calculated with the taxes that are
                       \* set, on results of the period before that still stand

scenarioVars == <<valid, unsolved, goal, next, hector, solved, current>>

RunAllPeriods == -1
Idle == -2

Running == goal # Idle

ScenarioTypeOK ==
    /\ valid \subseteq Periods /\ unsolved \subseteq Periods
    /\ goal \in {Idle, RunAllPeriods} \cup Periods
    /\ next \in 0..MaxPer
    /\ hector \in Hector
    /\ solved \subseteq Periods /\ current \subseteq Periods

ScenarioInit ==
    /\ valid = {} /\ unsolved = {}
    /\ goal = Idle /\ next = 0
    /\ hector = InitHector
    /\ solved = {} /\ current = {}

\* Mutant: a run for one period takes the earlier ones as they are.
DueAlone == IF goal = RunAllPeriods THEN next..MaxPer-1 ELSE {p \in next..goal : p = goal}

\* The periods that the run has still to calculate.
Due == IF goal = RunAllPeriods THEN next..MaxPer-1
       ELSE {p \in next..goal : p = goal \/ p \notin valid}

\* Taxes are set from period first on (PolicyTargetRunner::setTrialTaxes),
\* periods are invalidated, and Scenario::run is called.
BeginRun(period, first, invalidated) ==
    /\ ~Running
    /\ goal' = period
    /\ next' = 0
    /\ unsolved' = {}
    /\ valid' = valid \ invalidated
    /\ current' = {p \in current : p < first}
    /\ UNCHANGED <<hector, solved>>

\* Scenario::calculatePeriod of the next period due. The period the run was
\* asked for takes the validity of all the later ones with it.
CalculatePeriod(p, success, failed) ==
    /\ Running /\ Due # {} /\ p = Min(Due)
    /\ next' = p + 1
    /\ valid' = (IF p = goal THEN valid \cap 0..p ELSE valid) \cup {p}
    /\ unsolved' = IF success THEN unsolved ELSE unsolved \cup {p}
    /\ solved' = IF success THEN solved \cup {p} ELSE solved \ {p}
    /\ current' = {q \in current : q < p}
                     \cup (IF p = 0 \/ p - 1 \in current THEN {p} ELSE {})
    /\ hector' = LET calculated == NewResults(hector, p)
                 IN IF success THEN RunClimatePeriod(calculated, p, failed)
                    ELSE calculated
    /\ UNCHANGED goal

\* The end of Scenario::run, with the climate model run to its end date.
EndRun(failed) ==
    /\ Running /\ Due = {}
    /\ goal' = Idle
    /\ hector' = RunClimateAll(hector, failed)
    /\ UNCHANGED <<valid, unsolved, next, solved, current>>

NoFailure == HectorEnd + 1
Failures == FailYears \cup {NoFailure}

ScenarioNext ==
    \/ \E p \in Periods, success \in BOOLEAN, failed \in Failures :
          CalculatePeriod(p, success, failed)
    \/ \E failed \in Failures : EndRun(failed)

\* What the run returns: whether all the periods it calculated solved.
Success == unsolved = {}

=============================================================================
