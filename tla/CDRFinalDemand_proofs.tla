------------------------ MODULE CDRFinalDemand_proofs ------------------------
(***************************************************************************)
(* One call of Scenario::run, as SingleScenarioRunner makes it: whatever   *)
(* the periods, prices, capacities and fractions, no demand for carbon     *)
(* dioxide removal is lost or asked for twice, and the stock of            *)
(* unsatisfied demand is the documented one.                               *)
(***************************************************************************)
EXTENDS CDRFinalDemand, Scenario_proofs, TLAPS

\* The types of the sources' state.
SourceType ==
    /\ fraction \in [Periods -> Nat]
    /\ tracked \in BOOLEAN
    /\ stock \in Int /\ now \in Int
    /\ unmet \in [Periods -> Nat]
    /\ start \in Int /\ asked \in Int
    /\ met \in Nat /\ capped \in Nat /\ made \in Nat
    /\ runs \in Nat
    /\ next \in 0..MaxPer

\* Nothing has been calculated before the run, and nothing beyond the period
\* the run has got to: every period is due in its turn.
InTurn ==
    /\ valid \subseteq 0..next-1
    /\ next = 0 => now = 0
    /\ runs = 0 => goal = Idle /\ next = 0
    /\ goal # Idle => goal \in {RunAllPeriods, MaxPer - 1}

IInv == SourceType /\ InTurn /\ DemandConserved

-----------------------------------------------------------------------------

LEMMA MinOfTwo ==
    ASSUME NEW a \in Int, NEW b \in Int
    PROVE  Min({a, b}) = IF a <= b THEN a ELSE b
<1> DEFINE m == IF a <= b THEN a ELSE b
<1>1. m \in {a, b} /\ \A y \in {a, b} : m <= y
  OBVIOUS
<1>2. \A x \in {a, b} : (\A y \in {a, b} : x <= y) => x = m
  OBVIOUS
<1> QED
  BY <1>1, <1>2 DEF Min

LEMMA MaxOfTwo ==
    ASSUME NEW a \in Int, NEW b \in Int
    PROVE  Max({a, b}) = IF a >= b THEN a ELSE b
<1> DEFINE m == IF a >= b THEN a ELSE b
<1>1. m \in {a, b} /\ \A y \in {a, b} : m >= y
  OBVIOUS
<1>2. \A x \in {a, b} : (\A y \in {a, b} : x >= y) => x = m
  OBVIOUS
<1> QED
  BY <1>1, <1>2 DEF Max

LEMMA MinOfInterval ==
    ASSUME NEW a \in Int, NEW b \in Int, a <= b
    PROVE  Min(a..b) = a
<1>1. a \in a..b /\ \A y \in a..b : a <= y
  OBVIOUS
<1>2. \A x \in a..b : (\A y \in a..b : x <= y) => x = a
  OBVIOUS
<1> QED
  BY <1>1, <1>2 DEF Min

LEMMA PartInt ==
    ASSUME NEW amount \in Int, NEW halves \in Nat
    PROVE  Part(amount, halves) \in Int
<1>1. PICK product \in Int : product = amount * halves
  OBVIOUS
<1>2. product \div 2 \in Int
  OBVIOUS
<1> QED
  BY <1>1, <1>2 DEF Part, Whole

\* A part of an amount is no more than the amount, if it is part of the whole.
LEMMA PartBound ==
    ASSUME NEW amount \in Nat, NEW halves \in 0..Whole
    PROVE  Part(amount, halves) \in 0..amount
<1>1. CASE halves = 0
  BY <1>1 DEF Part, Whole
<1>2. CASE halves = 1
  BY <1>2 DEF Part, Whole
<1>3. CASE halves = 2
  BY <1>3 DEF Part, Whole
<1> QED
  BY <1>1, <1>2, <1>3 DEF Whole

LEMMA OthersInt ==
    ASSUME NEW p \in Periods, NEW price \in CarbonPrices
    PROVE  ExogenousDemand(p, price) + ElasticDemand(p, price) \in Int
<1>1. ExogenousDemand(p, price) \in Int
  BY DemandAssumption DEF ExogenousDemand
<1>2. ElasticDemand(p, price) \in Int
  BY DemandAssumption DEF ElasticDemand
<1> QED
  BY <1>1, <1>2

LEMMA PeriodsAreInts == Periods \subseteq Nat /\ MaxPer \in Nat /\ MaxPer > 1
BY TimeAssumption DEF Periods

\* In the only run there is, the next period is the one that is due.
LEMMA DueInTurn ==
    ASSUME IInv, NEW p, Running, Due # {}, p = Min(Due)
    PROVE  p = next /\ p \in Periods
<1>1. next \in 0..MaxPer /\ valid \subseteq 0..next-1
  BY DEF IInv, SourceType, InTurn
<1>2. goal = RunAllPeriods \/ goal = MaxPer - 1
  BY DEF IInv, InTurn, Running
<1>3. \A q \in next..MaxPer-1 : q \notin valid
  BY <1>1, PeriodsAreInts
<1>4. Due = next..MaxPer-1
  <2>1. CASE goal = RunAllPeriods
    BY <2>1 DEF Due
  <2>2. CASE goal = MaxPer - 1 /\ goal # RunAllPeriods
    BY <2>2, <1>3 DEF Due
  <2> QED
    BY <2>1, <2>2, <1>2
<1>5. next <= MaxPer - 1
  BY <1>1, <1>4, PeriodsAreInts
<1>6. p = next
  BY <1>1, <1>4, <1>5, MinOfInterval, PeriodsAreInts
<1> QED
  BY <1>1, <1>5, <1>6, PeriodsAreInts DEF Periods

-----------------------------------------------------------------------------

LEMMA InitIInv == Init => IInv
<1> SUFFICES ASSUME Init PROVE IInv
  OBVIOUS
<1>1. fraction \in [Periods -> Nat]
  <2>1. PICK input \in [Periods -> FractionInputs] :
            fraction = [p \in Periods |-> Fraction(input[p])]
    BY DEF Init
  <2>2. ASSUME NEW i \in FractionInputs PROVE Fraction(i) \in Nat
    BY <2>2, DemandAssumption, MaxOfTwo DEF Fraction
  <2> QED
    BY <2>1, <2>2
<1>2. SourceType
  BY <1>1, DemandAssumption, PeriodsAreInts DEF Init, ScenarioInit, SourceType
<1>3. InTurn
  BY DEF Init, ScenarioInit, InTurn
<1>4. DemandConserved
  BY <1>2, PeriodsAreInts DEF Init, ScenarioInit, DemandConserved, Latest, Periods, SourceType
<1> QED
  BY <1>2, <1>3, <1>4 DEF IInv

LEMMA RunIInv ==
    ASSUME MaxRuns = 1 PROVE IInv /\ Run => IInv'
<1> SUFFICES ASSUME IInv, Run PROVE IInv'
  OBVIOUS
<1> USE DEF IInv
<1>1. runs = 0 /\ runs' = 1
  BY DEF Run, SourceType
<1>2. PICK period \in {RunAllPeriods, MaxPer - 1} : BeginRun(period, MaxPer, {})
  BY DEF Run
<1>3. goal' = period /\ next' = 0 /\ valid' = valid /\ next = 0 /\ UNCHANGED sourceVars
  BY <1>1, <1>2 DEF BeginRun, InTurn, Run
<1>4. SourceType'
  BY <1>1, <1>3, PeriodsAreInts DEF SourceType, sourceVars
<1>5. InTurn'
  BY <1>1, <1>3, PeriodsAreInts DEF InTurn, sourceVars
<1>6. DemandConserved'
  BY <1>3 DEF DemandConserved, Latest, sourceVars
<1> QED
  BY <1>4, <1>5, <1>6

\* What the accumulated source takes from its stock it asks for.
LEMMA InitCalcMoves ==
    ASSUME SourceType, NEW p \in Periods, InitCalc(p)
    PROVE  /\ stock' \in Int /\ now' \in Int
           /\ p = 0 => stock' = stock /\ now' = now
           /\ p > 0 /\ tracked => stock' + now' = stock + unmet[p - 1]
<1>1. CASE p > 0 /\ tracked
  <2> DEFINE total == stock + unmet[p - 1]
  <2>1. p - 1 \in Periods /\ total \in Int /\ stock \in Int /\ unmet[p - 1] \in Nat
    BY <1>1, PeriodsAreInts DEF SourceType, Periods
  <2>2. now' = Part(total, fraction[p]) /\ stock' = total - now'
    BY <1>1 DEF InitCalc
  <2>3. now' \in Int
    BY <2>1, <2>2, PartInt DEF SourceType
  <2> QED
    BY <1>1, <2>1, <2>2, <2>3
<1>2. CASE ~(p > 0 /\ tracked)
  BY <1>2, PeriodsAreInts DEF InitCalc, SourceType, Periods
<1> QED
  BY <1>1, <1>2

\* What is asked for in a period is met, unsatisfied, capped or left out.
LEMMA FinalDemandMoves ==
    ASSUME SourceType, NEW p \in Periods, NEW price \in CarbonPrices, NEW capacity \in Capacities,
           SetFinalDemand(p, price, capacity), now' \in Int
    PROVE  /\ unmet' \in [Periods -> Nat]
           /\ asked' \in Int /\ met' \in Nat /\ capped' \in Nat /\ made' \in Nat
           /\ asked' + now' - asked + made' - made = met' - met + capped' - capped + unmet'[p]
<1>1. PICK n \in Int : n = now'
  OBVIOUS
<1>2. PICK others : others = ExogenousDemand(p, price) + ElasticDemand(p, price)
  OBVIOUS
<1>3. PICK final : final = Min({others + n, MaxDemand})
  OBVIOUS
<1>4. PICK brought, short :
          /\ brought = IF final > 0 THEN final ELSE 0
          /\ short = IF brought > capacity THEN brought - capacity ELSE 0
  OBVIOUS
<1>5. /\ unmet' = [unmet EXCEPT ![p] = short]
      /\ asked' = asked + others
      /\ met' = met + brought - short
      /\ capped' = capped + (others + n) - final
      /\ made' = made + brought - final
  BY <1>1, <1>2, <1>3, <1>4 DEF SetFinalDemand
<1>6. others \in Int /\ capacity \in Nat /\ others + n \in Int /\ MaxDemand \in Int
  BY <1>2, OthersInt, DemandAssumption
<1>7. final = IF others + n <= MaxDemand THEN others + n ELSE MaxDemand
  BY <1>3, <1>6, MinOfTwo
<1>8. final \in Int /\ final <= others + n
  BY <1>6, <1>7
<1>9. brought \in Nat /\ final <= brought /\ short \in Nat /\ short <= brought
  BY <1>4, <1>6, <1>8
<1>10. unmet' \in [Periods -> Nat] /\ unmet'[p] = short
  BY <1>5, <1>9 DEF SourceType
<1>11. asked \in Int /\ met \in Nat /\ capped \in Nat /\ made \in Nat
  BY DEF SourceType
<1>12. asked' \in Int /\ met' \in Nat /\ capped' \in Nat /\ made' \in Nat
  <2>1. asked + others \in Int /\ met + brought - short \in Nat
    BY <1>6, <1>9, <1>11
  <2>2. capped + (others + n) - final \in Nat /\ made + brought - final \in Nat
    BY <1>6, <1>8, <1>9, <1>11
  <2> QED
    BY <1>5, <2>1, <2>2
<1>13. asked' + n - asked + made' - made = met' - met + capped' - capped + short
  BY <1>5, <1>6, <1>8, <1>9, <1>11
<1> QED
  BY <1>1, <1>10, <1>12, <1>13

LEMMA CalculateIInv == IInv /\ Calculate => IInv'
<1> SUFFICES ASSUME IInv, Calculate PROVE IInv'
  OBVIOUS
<1> USE DEF IInv
<1>1. PICK p \in Periods, price \in CarbonPrices, capacity \in Capacities :
          /\ CalculatePeriod(p, TRUE, NoFailure)
          /\ InitCalc(p)
          /\ SetFinalDemand(p, price, capacity)
  BY DEF Calculate
<1>2. p = next
  BY <1>1, DueInTurn DEF CalculatePeriod
<1>3. p \in Nat /\ p < MaxPer /\ MaxPer \in Nat
  BY PeriodsAreInts DEF Periods
<1>4. next' = p + 1 /\ goal' = goal /\ goal # Idle
  BY <1>1 DEF CalculatePeriod, Running
<1>5. UNCHANGED <<fraction, tracked, start, runs>>
  BY DEF Calculate
<1>6. /\ stock' \in Int /\ now' \in Int
      /\ p = 0 => stock' = stock /\ now' = 0
      /\ p > 0 /\ tracked => stock' + now' = stock + unmet[p - 1]
  <2>1. p = 0 => now = 0
    BY <1>2 DEF InTurn
  <2> QED
    BY <1>1, <2>1, InitCalcMoves
<1>7. /\ unmet' \in [Periods -> Nat]
      /\ asked' \in Int /\ met' \in Nat /\ capped' \in Nat /\ made' \in Nat
      /\ asked' + now' - asked + made' - made = met' - met + capped' - capped + unmet'[p]
  BY <1>1, <1>6, FinalDemandMoves
<1>8. SourceType'
  BY <1>3, <1>4, <1>5, <1>6, <1>7 DEF SourceType
<1>9. InTurn'
  <2>1. valid' \subseteq valid \cup {p}
    BY <1>1 DEF CalculatePeriod
  <2>2. valid' \subseteq 0..next'-1
    BY <2>1, <1>2, <1>3, <1>4 DEF InTurn
  <2> QED
    BY <2>2, <1>3, <1>4, <1>5 DEF InTurn
<1>10. DemandConserved'
  <2> SUFFICES ASSUME tracked
               PROVE  start + asked' + made' = met' + capped' + stock' + unmet'[p]
    BY <1>3, <1>4, <1>5 DEF DemandConserved, Latest
  <2>1. /\ start \in Int /\ asked \in Int /\ stock \in Int
        /\ met \in Nat /\ capped \in Nat /\ made \in Nat
    BY DEF SourceType
  <2>2. unmet'[p] \in Nat
    BY <1>7
  <2>3. CASE p = 0
    <3>1. start + asked + made = met + capped + stock
      BY <2>3, <1>2, <2>1, PeriodsAreInts DEF DemandConserved, Latest, Periods
    <3> QED
      BY <3>1, <2>1, <2>2, <2>3, <1>6, <1>7
  <2>4. CASE p > 0
    <3>1. p - 1 \in Periods /\ unmet[p - 1] \in Nat
      BY <2>4, <1>3 DEF Periods, SourceType
    <3>2. start + asked + made = met + capped + stock + unmet[p - 1]
      BY <3>1, <1>2 DEF DemandConserved, Latest
    <3> QED
      BY <3>1, <3>2, <2>1, <2>2, <2>4, <1>6, <1>7
  <2> QED
    BY <2>3, <2>4, <1>3
<1> QED
  BY <1>8, <1>9, <1>10

LEMMA FinishIInv == IInv /\ Finish => IInv'
<1> SUFFICES ASSUME IInv, Finish PROVE IInv'
  OBVIOUS
<1> USE DEF IInv
<1>1. goal # Idle /\ goal' = Idle /\ UNCHANGED <<valid, next, sourceVars, runs>>
  BY DEF Finish, EndRun, Running
<1>2. SourceType'
  BY <1>1 DEF SourceType, sourceVars
<1>3. InTurn'
  BY <1>1 DEF InTurn, sourceVars
<1>4. DemandConserved'
  BY <1>1 DEF DemandConserved, Latest, sourceVars
<1> QED
  BY <1>2, <1>3, <1>4

LEMMA StutterIInv == IInv /\ UNCHANGED vars => IInv'
BY DEF IInv, SourceType, InTurn, DemandConserved, Latest, vars, scenarioVars, sourceVars

LEMMA InductiveIInv ==
    ASSUME MaxRuns = 1 PROVE Spec => []IInv
<1>1. IInv /\ [Next]_vars => IInv'
  BY RunIInv, CalculateIInv, FinishIInv, StutterIInv DEF Next
<1> QED
  BY InitIInv, <1>1, PTL DEF Spec

\* However many periods a run has, and whatever is read in and goes unsatisfied
\* in them, the demand asked for is met, capped, in the stock or unsatisfied, but
\* for a demand below nothing, which is left out
\* (AccumulatedDemandSource::initCalc, CDRFinalDemand::setFinalDemand).
THEOREM Conserved ==
    ASSUME MaxRuns = 1 PROVE Spec => []DemandConserved
<1>1. IInv => DemandConserved
  BY DEF IInv
<1> QED
  BY InductiveIInv, <1>1, PTL

-----------------------------------------------------------------------------
(* Types, over any number of runs *)

TypeInv == ScenarioInv /\ SourceType /\ runs \in 0..MaxRuns

\* What the sources compute are numbers again.
LEMMA CalculateTypes ==
    ASSUME TypeInv, Calculate
    PROVE  TypeInv'
<1>1. PICK p \in Periods, price \in CarbonPrices, capacity \in Capacities :
          /\ CalculatePeriod(p, TRUE, NoFailure)
          /\ InitCalc(p)
          /\ SetFinalDemand(p, price, capacity)
  BY DEF Calculate
<1>2. ScenarioInv'
  <2>1. NoFailure \in Failures
    BY DEF Failures
  <2> QED BY <1>1, <2>1, CalculatePeriodInv DEF TypeInv
<1>3. UNCHANGED <<fraction, tracked, start, runs>>
  BY DEF Calculate
<1>4. stock' \in Int /\ now' \in Int
  BY <1>1, InitCalcMoves DEF TypeInv
<1>5. /\ unmet' \in [Periods -> Nat] /\ asked' \in Int
      /\ met' \in Nat /\ capped' \in Nat /\ made' \in Nat
  BY <1>1, <1>4, FinalDemandMoves DEF TypeInv
<1>6. next' \in 0..MaxPer
  BY <1>2 DEF ScenarioInv, ScenarioTypeOK
<1> QED
  BY <1>2, <1>3, <1>4, <1>5, <1>6 DEF TypeInv, SourceType

LEMMA TypeInvariance == Spec => []TypeInv
<1>1. Init => TypeInv
  <2> SUFFICES ASSUME Init PROVE TypeInv
    OBVIOUS
  <2>1. ScenarioInv
    BY ScenarioInitInv DEF Init
  <2>2. IInv
    BY InitIInv
  <2>3. runs \in 0..MaxRuns
    BY DemandAssumption DEF Init
  <2> QED BY <2>1, <2>2, <2>3 DEF TypeInv, IInv
<1>2. TypeInv /\ [Next]_vars => TypeInv'
  <2> SUFFICES ASSUME TypeInv, [Next]_vars PROVE TypeInv'
    OBVIOUS
  <2>1. CASE Run
    <3>1. PICK p \in {RunAllPeriods, MaxPer - 1} : BeginRun(p, MaxPer, {})
      BY <2>1 DEF Run
    <3>2. ScenarioInv'
      <4>1. p \in Periods \cup {RunAllPeriods}
        BY LastPeriod
      <4> QED BY <3>1, <4>1, BeginRunInv DEF TypeInv
    <3>3. runs' = runs + 1 /\ runs < MaxRuns /\ UNCHANGED sourceVars
      BY <2>1 DEF Run
    <3>4. runs' \in 0..MaxRuns
      BY <3>3, DemandAssumption DEF TypeInv
    <3> QED BY <3>2, <3>3, <3>4 DEF TypeInv, SourceType, sourceVars, ScenarioInv, ScenarioTypeOK
  <2>2. CASE Calculate
    BY <2>2, CalculateTypes
  <2>3. CASE Finish
    <3>1. EndRun(NoFailure) /\ UNCHANGED sourceVars /\ runs' = runs
      BY <2>3 DEF Finish
    <3>2. ScenarioInv'
      <4>1. NoFailure \in Failures
        BY DEF Failures
      <4> QED BY <3>1, <4>1, ScenarioEndInv DEF TypeInv
    <3> QED BY <3>1, <3>2 DEF TypeInv, SourceType, sourceVars, ScenarioInv, ScenarioTypeOK
  <2>4. CASE UNCHANGED vars
    BY <2>4 DEF vars, scenarioVars, sourceVars, TypeInv, SourceType, ScenarioInv, ScenarioTypeOK, NumbersIfSound
  <2> QED BY <2>1, <2>2, <2>3, <2>4 DEF Next
<1> QED
  BY <1>1, <1>2, PTL DEF Spec

\* In any number of runs, whatever is read in and whatever the memory of the
\* stock held: no fraction is negative (AccumulatedDemandSource::completeInit),
\* neither is what goes unsatisfied, is met, or is cut (CDRFinalDemand), the
\* stock and what is asked for remain numbers of either sign, and the scenario
\* keeps its types.
THEOREM TypeCorrect == Spec => []TypeOK
<1>1. TypeInv => TypeOK
  BY DEF TypeInv, SourceType, ScenarioInv, TypeOK
<1> QED
  BY TypeInvariance, <1>1, PTL

\* A part of what is not negative is taken from it, and only what is left stays.
LEMMA CalculateBorrowsNothing ==
    ASSUME TypeInv, NothingBorrowed, Calculate
    PROVE  NothingBorrowed'
<1>1. PICK p \in Periods : InitCalc(p)
  BY DEF Calculate
<1>2. fraction' = fraction /\ start' = start
  BY DEF Calculate
<1> SUFFICES ASSUME start >= 0, \A q \in Periods : fraction[q] <= Whole
             PROVE  stock' >= 0 /\ now' >= 0
  BY <1>2 DEF NothingBorrowed
<1>3. stock \in Nat /\ now \in Nat
  BY DEF NothingBorrowed, TypeInv, SourceType
<1>4. CASE p > 0 /\ tracked
  <2>1. unmet[p - 1] \in Nat /\ fraction[p] \in 0..Whole
    <3>1. p - 1 \in Periods
      BY <1>4, PeriodsAreInts DEF Periods
    <3> QED BY <3>1 DEF TypeInv, SourceType, Whole
  <2>2. PICK total \in Nat : total = stock + unmet[p - 1]
    BY <1>3, <2>1
  <2>3. Part(total, fraction[p]) \in 0..total
    BY <2>1, PartBound
  <2>4. now' = Part(total, fraction[p]) /\ stock' = total - now'
    BY <1>1, <1>4, <2>2 DEF InitCalc
  <2> QED BY <2>2, <2>3, <2>4
<1>5. CASE ~(p > 0 /\ tracked)
  BY <1>1, <1>3, <1>5 DEF InitCalc
<1> QED
  BY <1>4, <1>5

\* In any number of runs the accumulated source asks for no more than its stock
\* holds (AccumulatedDemandSource::initCalc), if no fraction is more than the
\* whole and the stock is not negative at first.
THEOREM NeverBorrows == Spec => []NothingBorrowed
<1>1. Init => NothingBorrowed
  <2> SUFFICES ASSUME Init PROVE NothingBorrowed
    OBVIOUS
  <2> QED BY DEF Init, NothingBorrowed
<1>2. TypeInv /\ NothingBorrowed /\ [Next]_vars => NothingBorrowed'
  <2> SUFFICES ASSUME TypeInv, NothingBorrowed, [Next]_vars PROVE NothingBorrowed'
    OBVIOUS
  <2>1. CASE Run
    BY <2>1 DEF Run, sourceVars, NothingBorrowed
  <2>2. CASE Calculate
    BY <2>2, CalculateBorrowsNothing
  <2>3. CASE Finish
    BY <2>3 DEF Finish, sourceVars, NothingBorrowed
  <2>4. CASE UNCHANGED vars
    BY <2>4 DEF vars, sourceVars, NothingBorrowed
  <2> QED BY <2>1, <2>2, <2>3, <2>4 DEF Next
<1> QED
  BY <1>1, <1>2, TypeInvariance, PTL DEF Spec

-----------------------------------------------------------------------------
(* The documented recursion *)

\* What the recursion makes of the stock s of the period before, given the
\* unsatisfied demand and the fractions.
Follow(s, un, fr, p) ==
    LET total == s + un[p - 1] IN total - Part(total, fr[p])

IsStock(S, st, un, fr, n) ==
    S = [p \in 0..n |-> IF p = 0 THEN st ELSE Follow(S[p - 1], un, fr, p)]

\* The recursion defines a stock for every period.
LEMMA StockExists ==
    ASSUME NEW st, NEW un, NEW fr, NEW n \in Nat
    PROVE  \E S : IsStock(S, st, un, fr, n)
<1> DEFINE Has(k) == \E S : IsStock(S, st, un, fr, k)
           T == {k \in Nat : ~Has(k)}
<1>1. Has(0)
  <2> DEFINE S == [p \in 0..0 |-> st]
  <2>1. IsStock(S, st, un, fr, 0)
    BY DEF IsStock
  <2> QED BY <2>1
<1>2. ASSUME NEW k \in Nat, Has(k) PROVE Has(k + 1)
  <2>1. PICK S : IsStock(S, st, un, fr, k)
    BY <1>2
  <2> DEFINE G == [p \in 0..k + 1 |-> IF p <= k THEN S[p] ELSE Follow(S[k], un, fr, p)]
  <2>2. \A p \in 0..k + 1 : G[p] = IF p = 0 THEN st ELSE Follow(G[p - 1], un, fr, p)
    <3> TAKE p \in 0..k + 1
    <3>1. \A q \in 0..k : G[q] = S[q]
      OBVIOUS
    <3>2. CASE p = 0
      BY <2>1, <3>1, <3>2 DEF IsStock
    <3>3. CASE p \in 1..k
      <4>1. p - 1 \in 0..k /\ p \in 0..k /\ p # 0
        BY <3>3
      <4>2. S[p] = Follow(S[p - 1], un, fr, p)
        BY <2>1, <4>1 DEF IsStock
      <4> QED BY <3>1, <4>1, <4>2
    <3>4. CASE p = k + 1
      <4>1. G[p] = Follow(S[k], un, fr, p) /\ p # 0 /\ p - 1 = k
        BY <3>4
      <4> QED BY <3>1, <4>1
    <3> QED BY <3>2, <3>3, <3>4
  <2>3. IsStock(G, st, un, fr, k + 1)
    <3> HIDE DEF G
    <3>1. G = [p \in 0..k + 1 |-> G[p]]
      BY DEF G
    <3> QED BY <2>2, <3>1 DEF IsStock
  <2> QED BY <2>3
<1>3. T = {}
  <2> HIDE DEF Has
  <2> SUFFICES ASSUME T # {} PROVE FALSE
    OBVIOUS
  <2>0. T \in SUBSET Nat
    OBVIOUS
  <2>1. PICK m \in T : \A k \in T : m <= k
    <3> HIDE DEF T
    <3> QED BY <2>0, LeastNumber
  <2>2. m # 0 /\ m - 1 \in Nat /\ ~(m - 1 \in T)
    BY <1>1, <2>1
  <2> QED BY <1>2, <2>1, <2>2
<1> QED
  BY <1>3

\* The stock of a period depends on the unsatisfied demand of earlier ones only.
LEMMA StockPrefix ==
    ASSUME NEW st, NEW un, NEW vn, NEW fr, NEW n \in Nat, NEW S, NEW Q,
           IsStock(S, st, un, fr, n), IsStock(Q, st, vn, fr, n),
           NEW p \in 0..n, \A q \in 0..p-1 : un[q] = vn[q]
    PROVE  S[p] = Q[p]
<1> DEFINE T == {q \in 0..p : S[q] # Q[q]}
<1>1. T = {}
  <2> SUFFICES ASSUME T # {} PROVE FALSE
    OBVIOUS
  <2>0. T \in SUBSET Nat
    OBVIOUS
  <2>1. PICK m \in T : \A k \in T : m <= k
    <3> HIDE DEF T
    <3> QED BY <2>0, LeastNumber
  <2>2. m \in 0..n /\ S[m] # Q[m] /\ m <= p
    BY <2>1
  <2>3. m # 0
    BY <2>2 DEF IsStock
  <2>4. m - 1 \in 0..p-1 /\ m - 1 \in 0..n
    BY <2>2, <2>3
  <2>5. S[m - 1] = Q[m - 1] /\ un[m - 1] = vn[m - 1]
    BY <2>1, <2>4
  <2>6. S[m] = Follow(S[m - 1], un, fr, m) /\ Q[m] = Follow(Q[m - 1], vn, fr, m)
    BY <2>2, <2>3 DEF IsStock
  <2> QED BY <2>2, <2>5, <2>6 DEF Follow
<1> QED
  BY <1>1

\* What the definition of Stock chooses for given memory contents.
TheStock(st, un, fr) ==
    CHOOSE S : S = [p \in Periods |-> IF p = 0 THEN st
                                      ELSE LET total == S[p - 1] + un[p - 1]
                                           IN total - Part(total, fr[p])]

\* The stock of the specification is the one of the recursion.
LEMMA StockIs ==
    ASSUME NEW st, NEW un, NEW fr
    PROVE  IsStock(TheStock(st, un, fr), st, un, fr, MaxPer - 1)
<1> DEFINE Rec(S) == S = [p \in Periods |-> IF p = 0 THEN st
                                            ELSE LET total == S[p - 1] + un[p - 1]
                                                 IN total - Part(total, fr[p])]
<1>1. \A S : Rec(S) <=> IsStock(S, st, un, fr, MaxPer - 1)
  BY DEF IsStock, Follow, Periods
<1>2. \E S : Rec(S)
  <2>1. MaxPer - 1 \in Nat
    BY PeriodsAreInts
  <2> QED BY <1>1, <2>1, StockExists
<1>3. TheStock(st, un, fr) = CHOOSE S : Rec(S)
  BY DEF TheStock
<1> HIDE DEF Rec
<1>4. Rec(TheStock(st, un, fr))
  BY <1>2, <1>3
<1> QED
  BY <1>1, <1>4

\* The stock before the run is the first one, and then the one of the recursion.
DocInv ==
    /\ tracked => stock = IF next = 0 THEN start ELSE Stock[Latest]
    /\ AsDocumented

\* Calculating a period follows the recursion, and leaves what it made of the
\* earlier periods alone.
LEMMA CalculateDoc ==
    ASSUME IInv, DocInv, Calculate
    PROVE  DocInv'
<1>1. PICK p \in Periods, price \in CarbonPrices, capacity \in Capacities :
          /\ CalculatePeriod(p, TRUE, NoFailure)
          /\ InitCalc(p)
          /\ SetFinalDemand(p, price, capacity)
  BY DEF Calculate
<1>2. p = next /\ next' = p + 1
  BY <1>1, DueInTurn DEF CalculatePeriod
<1>3. p \in 0..MaxPer-1 /\ MaxPer - 1 \in Nat
  BY PeriodsAreInts DEF Periods
<1>4. fraction' = fraction /\ tracked' = tracked /\ start' = start
  BY DEF Calculate
<1>5. PICK short : unmet' = [unmet EXCEPT ![p] = short]
  BY <1>1 DEF SetFinalDemand
<1>6. unmet \in [Periods -> Nat]
  BY DEF IInv, SourceType
<1>7. \A q \in 0..p-1 : unmet'[q] = unmet[q]
  BY <1>3, <1>5, <1>6 DEF Periods
<1> DEFINE S == TheStock(start, unmet, fraction)
           Q == TheStock(start, unmet', fraction)
<1>8. Stock = S /\ Stock' = Q
  <2>1. Stock = S
    BY DEF Stock, TheStock
  <2>2. Stock' = TheStock(start', unmet', fraction')
    BY DEF Stock, TheStock
  <2> QED BY <2>1, <2>2, <1>4
<1>9. /\ IsStock(S, start, unmet, fraction, MaxPer - 1)
      /\ IsStock(Q, start, unmet', fraction, MaxPer - 1)
  BY StockIs
<1> HIDE DEF S, Q
<1>10. Latest' = p
  BY <1>2, <1>3 DEF Latest
<1> SUFFICES ASSUME tracked
             PROVE  /\ stock' = Q[p]
                    /\ p # 0 => now' = Part(Q[p - 1] + unmet'[p - 1], fraction[p])
  <2>1. next' # 0
    BY <1>2, <1>3
  <2> QED BY <1>4, <1>8, <1>10, <2>1 DEF DocInv, AsDocumented
<1>11. CASE p = 0
  <2>1. stock' = stock /\ stock = start
    BY <1>1, <1>2, <1>11 DEF InitCalc, DocInv
  <2>2. Q[0] = start
    BY <1>3, <1>9 DEF IsStock
  <2> QED BY <1>11, <2>1, <2>2
<1>12. CASE p # 0
  <2>1. p - 1 \in 0..MaxPer-1 /\ p > 0 /\ p - 1 \in 0..p-1
    BY <1>3, <1>12
  <2>2. Q[p - 1] = S[p - 1]
    <3>1. \A q \in 0..(p-1)-1 : unmet[q] = unmet'[q]
      BY <1>3, <1>7
    <3> QED BY <1>3, <1>9, <2>1, <3>1, StockPrefix
  <2>3. stock = S[p - 1]
    BY <1>2, <1>8, <1>12 DEF DocInv, Latest
  <2>4. unmet'[p - 1] = unmet[p - 1]
    BY <1>7, <2>1
  <2>5. /\ now' = Part(stock + unmet[p - 1], fraction[p])
        /\ stock' = (stock + unmet[p - 1]) - now'
    BY <1>1, <2>1 DEF InitCalc
  <2>6. Q[p] = Follow(Q[p - 1], unmet', fraction, p)
    BY <1>3, <1>9, <1>12 DEF IsStock
  <2> QED BY <2>2, <2>3, <2>4, <2>5, <2>6 DEF Follow
<1> QED
  BY <1>11, <1>12

\* In a run, the stock and what the accumulated source asks for are those of
\* the documented recursion over the unsatisfied demand of the periods
\* (AccumulatedDemandSource::initCalc): a period is calculated once and in its
\* turn, so none of it is added to the stock twice.
THEOREM FollowsDocument ==
    ASSUME MaxRuns = 1 PROVE Spec => []AsDocumented
<1>1. Init => DocInv
  BY PeriodsAreInts DEF Init, ScenarioInit, DocInv, AsDocumented, Latest, Periods
<1>2. IInv /\ DocInv /\ [Next]_vars => DocInv'
  <2> SUFFICES ASSUME IInv, DocInv, [Next]_vars PROVE DocInv'
    OBVIOUS
  <2>1. CASE Calculate
    BY <2>1, CalculateDoc
  <2>2. ASSUME UNCHANGED sourceVars, next' = next PROVE DocInv'
    <3>1. Stock = TheStock(start, unmet, fraction) /\ Stock' = TheStock(start', unmet', fraction')
      BY DEF Stock, TheStock
    <3>2. Stock' = Stock
      BY <2>2, <3>1 DEF sourceVars
    <3> QED BY <2>2, <3>2 DEF DocInv, AsDocumented, Latest, sourceVars
  <2>3. CASE Run
    <3>1. runs = 0
      BY <2>3 DEF Run, IInv, SourceType
    <3> QED BY <2>2, <2>3, <3>1 DEF Run, BeginRun, IInv, InTurn
  <2>4. CASE Finish
    BY <2>2, <2>4 DEF Finish, EndRun
  <2>5. CASE UNCHANGED vars
    BY <2>2, <2>5 DEF vars, scenarioVars
  <2> QED BY <2>1, <2>3, <2>4, <2>5 DEF Next
<1>3. DocInv => AsDocumented
  BY DEF DocInv
<1>4. Spec => []IInv
  BY InductiveIInv
<1> QED
  BY <1>1, <1>2, <1>3, <1>4, PTL DEF Spec

=============================================================================
