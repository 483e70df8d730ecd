--------------------------- MODULE CDRFinalDemand ---------------------------
(***************************************************************************)
(* The final demand for carbon dioxide removal of a region, made up of     *)
(* three demand sources: an exogenous, an elastic and an accumulated one.  *)
(* The accumulated source keeps a stock of the demand that removal did not *)
(* satisfy and asks for a part of it again in each period; the periods are *)
(* calculated by Scenario::run.                                            *)
(*                                                                         *)
(* Quantities are integers, and fractions of the stock are in halves.      *)
(***************************************************************************)
EXTENDS Scenario

CONSTANTS Exogenous,       \* mDemand of the exogenous source, by period
          RequireCPrice,   \* whether that source requires a carbon price
          StartInput,      \* start of the elastic source, or NotSet
          FinalCalibration,\* Modeltime::getFinalCalibrationPeriod
          MinPrice,        \* carbon price up to which it demands nothing
          Curve,           \* its logistic function, by carbon price
          MaxDemand,       \* mMaxDemand, the cap on all the sources
          FractionInputs,  \* bound: fractions read in
          Leftovers,       \* bound: what the stock's memory held before
          Capacities,      \* bound: amounts the removal sector may supply
          MaxRuns          \* bound: calls of Scenario::run

NotSet == -1
CarbonPrices == DOMAIN Curve

ASSUME DemandAssumption ==
    /\ Exogenous \in [Periods -> Int]
    /\ CarbonPrices \subseteq Int
    /\ \A price \in CarbonPrices : Curve[price] \in Int
    /\ MaxDemand \in Int
    /\ FractionInputs \subseteq Int
    /\ Leftovers \subseteq Int
    /\ Capacities \subseteq Nat
    /\ MaxRuns \in Nat

VARIABLES fraction,   \* mFractionToSatisfy, by period, in halves
          tracked,    \* whether the market for unsatisfied demand exists
          stock,      \* mAccumulatedDemand
          now,        \* mCurrentDemand
          unmet,      \* demand of the market for unsatisfied demand, by period
          start,      \* history: the stock at first
          asked,      \* history: exogenous and elastic demand so far
          met,        \* history: demand satisfied so far
          capped,     \* history: demand above the cap so far
          made,       \* history: demand below nothing, left out so far
          runs        \* history: calls of Scenario::run

sourceVars == <<fraction, tracked, stock, now, unmet, start, asked, met, capped, made>>
vars == <<scenarioVars, sourceVars, runs>>

\* The sign of the stock, and of what is asked for from it, is open: a fraction
\* may be more than the whole, and the memory may hold anything at first.
TypeOK ==
    /\ ScenarioTypeOK
    /\ fraction \in [Periods -> Nat]
    /\ tracked \in BOOLEAN
    /\ stock \in Int /\ now \in Int
    /\ unmet \in [Periods -> Nat]
    /\ start \in Int /\ asked \in Int
    /\ met \in Nat /\ capped \in Nat /\ made \in Nat
    /\ runs \in 0..MaxRuns

\* Mutant: negative fractions are taken as they are.
FractionUnchecked(input) == input

\* AccumulatedDemandSource::completeInit: no fraction is negative. That one is
\* more than the whole is not looked at.
Fraction(input) == Max({input, 0})

\* The constructor leaves the stock uninitialised.
Init ==
    /\ ScenarioInit
    /\ \E input \in [Periods -> FractionInputs] :
          fraction = [p \in Periods |-> Fraction(input[p])]
    /\ tracked \in BOOLEAN
    /\ stock \in Leftovers /\ start = stock
    /\ now = 0
    /\ unmet = [p \in Periods |-> 0]
    /\ asked = 0 /\ met = 0 /\ capped = 0 /\ made = 0
    /\ runs = 0

-----------------------------------------------------------------------------
(* The demand sources *)

ExogenousDemand(p, price) ==
    IF RequireCPrice /\ price <= 0 THEN 0 ELSE Exogenous[p]

\* ElasticDemandSource::completeInit: not before the end of calibration.
StartPeriod ==
    LET given == IF StartInput = NotSet THEN FinalCalibration + 1 ELSE StartInput
    IN IF given < FinalCalibration THEN FinalCalibration + 1 ELSE given

ElasticDemand(p, price) ==
    IF p < StartPeriod \/ price = 0 \/ price <= MinPrice THEN 0 ELSE Curve[price]

\* The whole, in halves.
Whole == 2

Part(amount, halves) == (amount * halves) \div Whole

\* Mutant: the part asked for again stays in the stock.
InitCalcKept(p) ==
    IF p > 0 /\ tracked
    THEN LET total == stock + unmet[p - 1]
         IN /\ now' = Part(total, fraction[p])
            /\ stock' = total
    ELSE UNCHANGED <<stock, now>>

\* Mutant: the part is taken before the unsatisfied demand is in the stock.
InitCalcUnadded(p) ==
    IF p > 0 /\ tracked
    THEN LET total == stock + unmet[p - 1]
         IN /\ now' = Part(total, fraction[p])
            /\ stock' = stock - now'
    ELSE UNCHANGED <<stock, now>>

\* Mutant: the fraction is the one of the period before.
InitCalcEarlierFraction(p) ==
    IF p > 0 /\ tracked
    THEN LET total == stock + unmet[p - 1]
         IN /\ now' = Part(total, fraction[p - 1])
            /\ stock' = total - now'
    ELSE UNCHANGED <<stock, now>>

\* AccumulatedDemandSource::initCalc, called whenever a period is calculated.
InitCalc(p) ==
    IF p > 0 /\ tracked
    THEN LET total == stock + unmet[p - 1]
         IN /\ now' = Part(total, fraction[p])
            /\ stock' = total - now'
    ELSE UNCHANGED <<stock, now>>

\* CDRFinalDemand::setFinalDemand in the last iteration, which brings to the
\* market only what is more than nothing, and what the removal sector makes of
\* it: the technology for unsatisfied demand produces what is beyond the
\* capacity, and adds it to its market.
SetFinalDemand(p, price, capacity) ==
    LET others  == ExogenousDemand(p, price) + ElasticDemand(p, price)
        raw     == others + now'
        final   == Min({raw, MaxDemand})
        brought == IF final > 0 THEN final ELSE 0
        short   == IF brought > capacity THEN brought - capacity ELSE 0
    IN /\ unmet' = [unmet EXCEPT ![p] = short]
       /\ asked' = asked + others
       /\ met' = met + brought - short
       /\ capped' = capped + raw - final
       /\ made' = made + brought - final

-----------------------------------------------------------------------------
(* Runs of the scenario *)

\* A runner calls Scenario::run.
Run ==
    /\ runs < MaxRuns
    /\ runs' = runs + 1
    /\ \E period \in {RunAllPeriods, MaxPer - 1} : BeginRun(period, MaxPer, {})
    /\ UNCHANGED sourceVars

\* The sources look neither at the taxes nor at whether a period solved: that
\* it does is all that is considered here.
Calculate ==
    /\ \E p \in Periods, price \in CarbonPrices, capacity \in Capacities :
          /\ CalculatePeriod(p, TRUE, NoFailure)
          /\ InitCalc(p)
          /\ SetFinalDemand(p, price, capacity)
    /\ UNCHANGED <<fraction, tracked, start, runs>>

Finish == EndRun(NoFailure) /\ UNCHANGED <<sourceVars, runs>>

Next == Run \/ Calculate \/ Finish

Spec == Init /\ [][Next]_vars

-----------------------------------------------------------------------------
(* Properties *)

\* The period calculated last.
Latest == next - 1

\* Demand is neither lost nor made by moving it between the stock, the demand
\* of a period and the market for what went unsatisfied, over any number of
\* periods: but for the cap and for a demand below nothing, which do not get
\* to the market (CDRFinalDemand::setFinalDemand, 288 and 316), what was asked
\* for has been removed or will be asked for again.
DemandConserved ==
    tracked => start + asked + made =
                   met + capped + stock + (IF Latest \in Periods THEN unmet[Latest] ELSE 0)

\* The accumulated source never asks for more than its stock holds, in whatever
\* way unsatisfied demand comes back to it period after period; provided that
\* no fraction is more than the whole and the stock is not negative at first,
\* neither of which AccumulatedDemandSource sees to (demand_source_accumulated.cpp:44-49 and 174).
NothingBorrowed ==
    start >= 0 /\ (\A p \in Periods : fraction[p] <= Whole) => stock >= 0 /\ now >= 0

\* "At the beginning of each period, the demand source checks for unsatisfied
\* demand from the previous period, adds it to a stock of accumulated demand,
\* and then adds a user-specified fraction of that accumulated demand back into
\* the market" (docs/CDR_policies.md:184): the stock and the demand are those
\* of this recursion over the unsatisfied demand of the periods as they are.
Stock[p \in Periods] ==
    IF p = 0 THEN start
    ELSE LET total == Stock[p - 1] + unmet[p - 1]
         IN total - Part(total, fraction[p])

AsDocumented ==
    tracked /\ Latest \in Periods \ {0} =>
        /\ stock = Stock[Latest]
        /\ now = Part(Stock[Latest - 1] + unmet[Latest - 1], fraction[Latest])

=============================================================================
