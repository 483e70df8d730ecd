---------------------- MODULE PolicyTargetRunner_proofs ----------------------
(***************************************************************************)
(* What the target finder reports with success is one solution: the        *)
(* periods, the taxes and the climate belong together. The proofs are for  *)
(* every number of periods and years, every target year, every look-ahead  *)
(* and look-back and every core that fails in any year.                    *)
(***************************************************************************)
EXTENDS PolicyTargetRunner, Scenario_proofs, TLAPS

-----------------------------------------------------------------------------
(* The inductive invariant *)

\* The first period that the run under way calculates, the next one, and
\* the last.
First == CASE stage = "baseline" -> 0
           [] stage = "initial"  -> FirstTaxPeriod
           [] OTHER              -> period
Reached == IF next = 0 THEN First ELSE next
Last == IF goal = RunAllPeriods THEN MaxPer - 1 ELSE goal

\* A run is for a stage, and calculates all the periods from First to Last.
RunForStage ==
    /\ stage \in {"baseline", "initial", "future", "skip"}
    /\ goal = CASE stage = "baseline" -> RunAllPeriods
                [] stage = "initial"  -> MaxPer - 1
                [] OTHER              -> upto
    /\ First \in 0..Last
    /\ Reached \in First..Last + 1
    /\ current = 0..Reached-1
    /\ current \subseteq valid
    /\ valid \cap Reached..Last-1 = {}
    /\ Reached = Last + 1 => valid = 0..Last
    /\ unsolved \subseteq First..Reached-1
    /\ (First..Reached-1) \ solved \subseteq unsolved

\* What stands between two runs.
ResultsStand(q) == valid = 0..q /\ current = 0..q

Between ==
    /\ stage = "setup" => valid = {} /\ current = {} /\ next = 0
    /\ stage \in {"baseline", "initial"} => ResultsStand(MaxPer - 1)
    /\ stage = "initial" /\ iter > 0 =>
          /\ unsolved \subseteq FirstTaxPeriod..MaxPer-1
          /\ (FirstTaxPeriod..MaxPer-1) \ solved \subseteq unsolved
    /\ stage = "walk" /\ period >= 0 => \E q \in Periods : ResultsStand(q) /\ q >= period - 1
    /\ stage \in {"future", "skip"} =>
          /\ ResultsStand(upto)
          /\ (period..upto) \ solved \subseteq unsolved
    /\ outcome = "success" => /\ stage = "done" /\ ResultsStand(MaxPer - 1)
                              /\ FirstTaxPeriod..MaxPer-1 \subseteq solved

\* The periods before the one of the walk are settled.
WalkSettled ==
    stage \in {"walk", "future", "skip"} =>
       \/ /\ stage = "walk" /\ period < 0
       \/ /\ period \in FirstTaxPeriod..MaxPer
          /\ FirstTaxPeriod..period-1 \subseteq solved
          /\ stage # "walk" => upto >= period

\* No period up to p is unsolved.
SolvedTo(p) == \A q \in unsolved : p < q

\* The climate model in the run under way, with periods from First on.
ClimateInRun ==
    /\ \A p \in Emitting : p \notin unsolved => p \in hector.table
    /\ Reached = First /\ ~hector.failed => hector.lastYear = HectorEnd
    /\ First < Reached /\ First \notin unsolved =>
          /\ hector.lastYear <= PerToYr(Reached - 1)
          /\ ~hector.failed => \A k \in First..Reached-1 : SolvedTo(k) =>
                PerToYr(k) <= hector.lastYear /\ CurrentTo(hector, PerToYr(k))
    /\ First < Reached /\ unsolved = {} /\ ~hector.failed =>
          /\ hector.sound
          /\ hector.lastYear = PerToYr(Reached - 1)
          /\ EmittingBefore(Reached) \subseteq hector.core \cap hector.luc

\* A trial of the search was run; the walk has been through all periods.
Tried == (stage = "initial" /\ iter > 0) \/ stage \in {"future", "skip"}
PastTheEnd == stage = "walk" /\ period >= MaxPer

\* The climate model between two runs.
ClimateBetween ==
    /\ stage # "setup" => Emitting \subseteq hector.table
    /\ ~hector.failed /\ stage # "setup" => hector.lastYear = HectorEnd
    /\ ~hector.failed /\ stage = "initial" /\ iter > 0 =>
          \A k \in FirstTaxPeriod..MaxPer-1 : SolvedTo(k) => CurrentTo(hector, PerToYr(k))
    /\ ~hector.failed /\ ((Tried /\ unsolved = {}) \/ PastTheEnd \/ outcome = "success")
       => CurrentTo(hector, HectorEnd)

RunnerTypeOK ==
    /\ stage \in Stages /\ iter \in 0..MaxIterations /\ period \in Walk
    /\ upto \in Periods /\ year \in Years /\ outcome \in {"none", "success", "failure"}

IInv ==
    /\ ScenarioInv /\ RunnerTypeOK
    /\ WalkSettled
    /\ Running => RunForStage /\ outcome # "success"
    /\ ~Running => Between
    /\ Running /\ stage # "baseline" => ClimateInRun
    /\ ~Running => ClimateBetween

-----------------------------------------------------------------------------
(* Periods with a tax *)

\* The first taxed period is no earlier than the second one, and later years
\* fall into taxed periods.
LEMMA TaxedPeriods ==
    /\ FirstTaxPeriod \in Periods /\ FirstTaxPeriod >= 1
    /\ FirstTaxYear \in 1..EndYear
    /\ \A y \in FirstTaxYear..EndYear : YrToPer(y) >= FirstTaxPeriod
<1>1. FirstTaxYear \in 0..EndYear /\ FirstTaxYear >= 1 /\ FirstTaxYear \in Nat /\ EndYear \in Nat
  BY TargetAssumption, LastPeriod
<1>2. /\ FirstTaxPeriod \in Periods
      /\ \A q \in Periods : q < FirstTaxPeriod <=> PerToYr(q) < FirstTaxYear
  BY <1>1, PeriodOfYear DEF FirstTaxPeriod
<1>3. 0 \in Periods /\ PerToYr(0) = 0
  BY PeriodNumbers, TimeAssumption DEF PerToYr
<1>4. FirstTaxPeriod >= 1
  BY <1>1, <1>2, <1>3, PeriodNumbers
<1>5. ASSUME NEW y \in FirstTaxYear..EndYear PROVE YrToPer(y) >= FirstTaxPeriod
  <2>1. y \in 0..EndYear /\ FirstTaxYear <= y
    BY <1>1
  <2>2. YrToPer(y) \in Periods /\ y <= PerToYr(YrToPer(y)) /\ PerToYr(YrToPer(y)) \in 0..EndYear
    BY <2>1, PeriodOfYear, YearOfPeriod
  <2>3. ~(YrToPer(y) < FirstTaxPeriod)
    BY <1>1, <1>2, <2>1, <2>2
  <2> QED BY <1>2, <2>2, <2>3, PeriodNumbers
<1> QED
  BY <1>1, <1>2, <1>4, <1>5, TargetAssumption

\* Taxed periods before a period are taxed periods.
LEMMA TaxedPeriodsBefore ==
    ASSUME NEW w \in FirstTaxPeriod..MaxPer, NEW p \in FirstTaxPeriod..w-1
    PROVE  p \in FirstTaxPeriod..MaxPer-1 /\ p \in Periods
BY TaxedPeriods, PeriodNumbers

\* The unsigned difference of numbers below half the word.
LEMMA Wrap ==
    ASSUME NEW m \in Nat, NEW a \in Int, m > 0, -m < a, a < 2 * m
    PROVE  a % (2 * m) = IF a >= 0 THEN a ELSE a + 2 * m
OBVIOUS

\* The walk starts after the periods that the target year settles, or below
\* zero, where the unsigned number has wrapped.
LEMMA WalkStartBounds ==
    ASSUME NEW y \in 0..EndYear
    PROVE  LET w == WalkStart(y) IN
           /\ w \in Walk
           /\ \/ w < 0
              \/ /\ w \in FirstTaxPeriod..MaxPer
                 /\ \A p \in FirstTaxPeriod..w-1 : PerToYr(p) <= y
           /\ PerToYr(YrToPer(y)) # y /\ FirstTaxPeriod <= YrToPer(y) => w <= YrToPer(y)
           /\ NumBackwardsLook <= FirstTaxPeriod /\ y >= FirstTaxYear - 1 => w >= FirstTaxPeriod
<1> DEFINE m     == WordSize \div 2
           k     == YrToPer(y)
           onB   == PerToYr(k) = y
           start == IF onB THEN k + 1 ELSE k
           back  == (start - NumBackwardsLook) % WordSize
           first == Max({back, FirstTaxPeriod})
           w     == WalkStart(y)
<1>1. /\ m \in Nat /\ WordSize = 2 * m /\ m > MaxPer /\ NumBackwardsLook \in 0..m-1
      /\ WordSize \in Nat /\ MaxPer \in Nat
  BY TargetAssumption, PeriodNumbers
<1>2. k \in 0..MaxPer-1 /\ start \in k..k+1 /\ start \in 0..MaxPer
  <2>1. k \in 0..MaxPer-1
    BY PeriodOfYear, PeriodNumbers
  <2> HIDE DEF k
  <2> QED BY <2>1, <1>1
<1>3. FirstTaxPeriod \in 1..MaxPer-1
  BY TaxedPeriods, PeriodNumbers
<1>4. w = IF first < m THEN first ELSE first - WordSize
  BY DEF WalkStart
<1>5. ASSUME NEW p \in Periods, p < start PROVE PerToYr(p) <= y
  <2>1. CASE onB
    <3>1. p <= k
      BY <1>2, <1>5, <2>1, PeriodNumbers
    <3> QED BY <2>1, <3>1, PeriodOrder, PeriodOfYear
  <2>2. CASE ~onB
    <3>1. PerToYr(p) < y
      BY <1>5, <2>2, PeriodOfYear
    <3> QED BY <3>1, YearOfPeriod, LastPeriod
  <2> QED BY <2>1, <2>2
<1>6. ASSUME NumBackwardsLook <= FirstTaxPeriod, y >= FirstTaxYear - 1
      PROVE  start >= FirstTaxPeriod
  <2> DEFINE b == FirstTaxPeriod - 1
  <2>1. b \in Periods /\ b < FirstTaxPeriod /\ FirstTaxYear \in 0..EndYear /\ PerToYr(b) \in 0..EndYear
    <3>1. b \in Periods /\ b < FirstTaxPeriod
      BY <1>3, PeriodNumbers
    <3> QED BY <3>1, TaxedPeriods, LastPeriod, YearOfPeriod
  <2>2. PerToYr(b) < FirstTaxYear
    BY <2>1, PeriodOfYear DEF FirstTaxPeriod
  <2>3. PerToYr(b) <= y
    BY <2>1, <2>2, <1>6, TaxedPeriods, LastPeriod
  <2>4. CASE PerToYr(b) = y
    <3>1. k = b /\ onB
      BY <2>1, <2>4, PeriodOfItsYear
    <3> QED BY <1>3, <3>1
  <2>5. CASE PerToYr(b) < y
    <3>1. b < k
      BY <2>1, <2>5, PeriodOfYear
    <3> HIDE DEF k
    <3> QED BY <1>2, <1>3, <3>1
  <2> QED BY <2>1, <2>3, <2>4, <2>5, LastPeriod
<1> HIDE DEF m, k, onB, w
<1> DEFINE d == start - NumBackwardsLook
<1>7. d \in Int /\ -m < d /\ d < 2 * m /\ m > 0 /\ d <= start
  BY <1>1, <1>2
<1>8. back = IF d >= 0 THEN d ELSE d + 2 * m
  <2> HIDE DEF d
  <2>1. d % (2 * m) = IF d >= 0 THEN d ELSE d + 2 * m
    BY <1>1, <1>7, Wrap
  <2> QED BY <1>1, <2>1 DEF d
<1> HIDE DEF d, back, start
<1>9. back \in Int
  BY <1>1, <1>7, <1>8
<1>10. first = IF back >= FirstTaxPeriod THEN back ELSE FirstTaxPeriod
  <2>1. CASE back >= FirstTaxPeriod
    BY <1>3, <1>9, <2>1, MaxIs
  <2>2. CASE ~(back >= FirstTaxPeriod)
    BY <1>3, <1>9, <2>2, MaxIs
  <2> QED BY <2>1, <2>2
<1> HIDE DEF first
<1>11. CASE d >= 0
  <2>1. back = d /\ first = w /\ w \in FirstTaxPeriod..MaxPer
        /\ (w > FirstTaxPeriod => w <= start)
    BY <1>1, <1>2, <1>3, <1>4, <1>7, <1>8, <1>10, <1>11
  <2>2. ASSUME NEW p \in FirstTaxPeriod..w-1 PROVE PerToYr(p) <= y
    <3>1. p < start /\ p \in Periods
      BY <1>2, <1>3, <2>1, <2>2, PeriodNumbers
    <3> QED BY <1>5, <3>1
  <2>3. ASSUME ~onB, FirstTaxPeriod <= k PROVE w <= k
    BY <1>2, <1>3, <2>1, <2>3 DEF start
  <2> QED BY <1>1, <1>3, <2>1, <2>2, <2>3 DEF w, onB, k, m, Walk
<1>12. CASE d < 0
  <2>1. back = d + 2 * m /\ back > m /\ first = back
    BY <1>1, <1>3, <1>7, <1>8, <1>10, <1>12
  <2>2. w = d /\ w < 0 /\ w \in -m..m
    BY <1>1, <1>4, <1>7, <1>12, <2>1
  <2>3. NumBackwardsLook <= FirstTaxPeriod => ~(start >= FirstTaxPeriod)
    BY <1>1, <1>2, <1>3, <1>12 DEF d
  <2> QED BY <1>2, <1>3, <1>6, <2>2, <2>3 DEF w, onB, k, m, Walk
<1> QED
  BY <1>7, <1>11, <1>12

-----------------------------------------------------------------------------
(* A run of the scenario *)

\* The numbers of a run.
LEMMA RunNumbers ==
    ASSUME IInv, Running
    PROVE  /\ RunForStage /\ stage # "setup" /\ outcome # "success"
           /\ Last \in Periods /\ First \in 0..Last /\ Reached \in First..Last + 1
           /\ stage # "baseline" => First >= 1
           /\ stage \in {"initial", "future", "skip"} => First \in FirstTaxPeriod..MaxPer
           /\ next \in Nat /\ Reached \in Nat /\ Last \in Nat /\ Last <= MaxPer - 1
<1>1. RunForStage /\ stage # "setup" /\ outcome # "success" /\ next \in Nat
  BY PeriodNumbers DEF IInv, RunForStage, ScenarioInv, ScenarioTypeOK
<1>2. Last \in Periods
  BY <1>1, PeriodNumbers DEF IInv, RunnerTypeOK, RunForStage, Last, ScenarioInv, ScenarioTypeOK, Running
<1>3. Last \in Nat /\ Last <= MaxPer - 1 /\ First \in 0..Last /\ Reached \in First..Last + 1 /\ Reached \in Nat
  BY <1>1, <1>2, PeriodNumbers DEF RunForStage
<1>4. stage \in {"initial", "future", "skip"} => First \in FirstTaxPeriod..MaxPer
  BY TaxedPeriods, PeriodNumbers DEF IInv, WalkSettled, First
<1>5. stage # "baseline" => First >= 1
  BY <1>1, <1>4, TaxedPeriods, PeriodNumbers DEF RunForStage
<1> QED
  BY <1>1, <1>2, <1>3, <1>4, <1>5

\* A run still has to calculate all the periods it has not reached yet.
LEMMA DueIs ==
    ASSUME IInv, Running
    PROVE  /\ Due = Reached..Last
           /\ Due = {} <=> Reached = Last + 1
           /\ Due # {} => Min(Due) = Reached
<1>1. /\ RunForStage /\ Last \in Nat /\ First \in 0..Last /\ Reached \in First..Last + 1
      /\ next \in Nat /\ Reached \in Nat /\ Last \in Periods
  BY RunNumbers
<1>2. Due = Reached..Last
  <2>1. CASE goal = RunAllPeriods
    <3>1. stage = "baseline" /\ First = 0
      BY <1>1, <2>1, PeriodNumbers DEF RunForStage, First, IInv, RunnerTypeOK
    <3>2. Reached = next
      BY <3>1 DEF Reached
    <3> QED BY <2>1, <3>2 DEF Due, Last
  <2>2. CASE goal # RunAllPeriods
    <3>1. Due = {p \in next..Last : p = Last \/ p \notin valid} /\ goal = Last
      BY <2>2 DEF Due, Last
    <3>2. \A p \in 0..Reached-1 : p \in valid
      BY <1>1 DEF RunForStage
    <3>3. \A p \in Reached..Last-1 : p \notin valid
      BY <1>1 DEF RunForStage
    <3>4. next <= Reached /\ (next # 0 => next = Reached)
      BY <1>1 DEF Reached
    <3>5. ASSUME NEW p \in Due PROVE p \in Reached..Last
      <4>1. p \in next..Last /\ (p = Last \/ p \notin valid)
        BY <3>1
      <4>2. CASE p < Reached
        <5>1. p \in valid /\ p = Last
          BY <1>1, <3>2, <4>1, <4>2
        <5>2. Reached = Last + 1 /\ next = 0
          BY <1>1, <3>4, <4>1, <4>2, <5>1
        <5>3. Reached = First
          BY <5>2 DEF Reached
        <5> QED BY <1>1, <5>2, <5>3
      <4> QED BY <1>1, <4>1, <4>2
    <3>6. ASSUME NEW p \in Reached..Last PROVE p \in Due
      <4>1. p \in next..Last /\ (p = Last \/ p \notin valid)
        BY <1>1, <3>3, <3>4
      <4> QED BY <3>1, <4>1
    <3> QED BY <3>5, <3>6
  <2> QED BY <2>1, <2>2
<1>3. Due = {} <=> Reached = Last + 1
  BY <1>1, <1>2
<1>4. ASSUME Due # {} PROVE Min(Due) = Reached
  <2> DEFINE D == Reached..Last
  <2>1. Reached \in D /\ D \subseteq Int /\ \A q \in D : Reached <= q
    BY <1>1, <1>2, <1>4
  <2> HIDE DEF D
  <2>2. Min(D) = Reached
    BY <2>1, MinIs
  <2> QED BY <1>2, <2>2 DEF D
<1> QED
  BY <1>2, <1>3, <1>4

\* The bookkeeping of a period that is calculated.
LEMMA CalculatePeriodBooks ==
    ASSUME IInv, NEW p \in Periods, NEW success \in BOOLEAN, NEW failed \in Failures,
           CalculatePeriod(p, success, failed), UNCHANGED runnerVars
    PROVE  /\ p = Reached /\ Running' /\ First' = First /\ Reached' = p + 1
           /\ current = 0..p-1
           /\ unsolved' = IF success THEN unsolved ELSE unsolved \cup {p}
           /\ RunForStage' /\ WalkSettled'
<1>1. Running /\ Due # {} /\ p = Min(Due)
  BY DEF CalculatePeriod
<1>2. p = Reached /\ p <= Last
  BY <1>1, DueIs, RunNumbers
<1>3. /\ RunForStage /\ Last \in Nat /\ First \in 0..Last /\ p \in First..Last
      /\ p \in Nat /\ Last \in Periods
      /\ stage \in {"initial", "future", "skip"} => First \in FirstTaxPeriod..MaxPer
      /\ FirstTaxPeriod \in Nat /\ MaxPer \in Nat
  BY <1>1, <1>2, RunNumbers, TaxedPeriods, PeriodNumbers
<1>4. /\ stage' = stage /\ iter' = iter /\ period' = period /\ upto' = upto /\ outcome' = outcome
      /\ goal' = goal /\ next' = p + 1
  BY DEF runnerVars, CalculatePeriod
<1>5. First' = First /\ Last' = Last /\ Reached' = p + 1 /\ Running'
  BY <1>1, <1>3, <1>4 DEF First, Last, Reached, Running
<1>6. /\ current = 0..p-1 /\ current \subseteq valid
      /\ \A q \in p..Last-1 : q \notin valid
      /\ unsolved \subseteq First..p-1
      /\ \A q \in First..p-1 : q \notin solved => q \in unsolved
  BY <1>2, <1>3 DEF RunForStage
<1>7. current' = 0..p
  <2>1. current' = {q \in current : q < p} \cup (IF p = 0 \/ p - 1 \in current THEN {p} ELSE {})
    BY DEF CalculatePeriod
  <2>2. p = 0 \/ p - 1 \in current
    BY <1>3, <1>6
  <2>3. current' = current \cup {p}
    BY <1>3, <1>6, <2>1, <2>2
  <2> QED BY <1>3, <1>6, <2>3
<1>8. valid' = (IF p = goal THEN valid \cap 0..p ELSE valid) \cup {p}
  BY DEF CalculatePeriod
<1>9. current' \subseteq valid'
  BY <1>3, <1>6, <1>7, <1>8
<1>10. valid' \cap p+1..Last-1 = {}
  BY <1>3, <1>6, <1>8
<1>11. p + 1 = Last + 1 => valid' = 0..Last
  <2> SUFFICES ASSUME p = Last PROVE valid' = 0..p
    BY <1>3
  <2>1. CASE p = goal
    BY <1>3, <1>7, <1>8, <1>9, <2>1
  <2>2. CASE p # goal
    <3>1. goal = RunAllPeriods /\ p = MaxPer - 1
      BY <2>2 DEF Last
    <3>3. valid \subseteq Periods
      BY DEF IInv, ScenarioInv, ScenarioTypeOK
    <3>4. Periods = 0..p
      BY <3>1, PeriodNumbers
    <3>2. valid' = valid \cup {p}
      BY <1>8, <2>2
    <3> QED BY <1>3, <1>7, <1>9, <3>2, <3>3, <3>4
  <2> QED BY <2>1, <2>2
<1>12. /\ unsolved' = IF success THEN unsolved ELSE unsolved \cup {p}
       /\ solved' = IF success THEN solved \cup {p} ELSE solved \ {p}
  BY DEF CalculatePeriod
<1>13. unsolved' \subseteq First..p /\ \A q \in First..p : q \notin solved' => q \in unsolved'
  BY <1>3, <1>6, <1>12
<1>14. RunForStage'
  <2>1. stage' \in {"baseline", "initial", "future", "skip"}
        /\ goal' = CASE stage' = "baseline" -> RunAllPeriods
                     [] stage' = "initial"  -> MaxPer - 1
                     [] OTHER               -> upto'
    BY <1>3, <1>4 DEF RunForStage
  <2>2. First' \in 0..Last' /\ Reached' \in First'..Last' + 1
    BY <1>3, <1>5
  <2>3. current' = 0..Reached'-1 /\ Reached' - 1 = p
    BY <1>3, <1>5, <1>7
  <2>4. valid' \cap Reached'..Last'-1 = {} /\ (Reached' = Last' + 1 => valid' = 0..Last')
    BY <1>5, <1>10, <1>11
  <2>5. unsolved' \subseteq First'..Reached'-1 /\ (First'..Reached'-1) \ solved' \subseteq unsolved'
    BY <1>5, <1>13, <2>3
  <2> QED BY <1>9, <2>1, <2>2, <2>3, <2>4, <2>5 DEF RunForStage
<1>15. WalkSettled'
  <2> SUFFICES ASSUME stage \in {"walk", "future", "skip"} PROVE WalkSettled'
    BY <1>4 DEF WalkSettled
  <2>1. stage \in {"future", "skip"} /\ First = period
    BY <1>3 DEF RunForStage, First
  <2>2. /\ period \in FirstTaxPeriod..MaxPer /\ upto >= period
        /\ FirstTaxPeriod..period-1 \subseteq solved
    BY <2>1 DEF IInv, WalkSettled
  <2>3. FirstTaxPeriod..period-1 \subseteq solved'
    BY <1>3, <1>12, <2>1, <2>2
  <2> QED BY <1>4, <2>2, <2>3 DEF WalkSettled
<1> QED
  BY <1>2, <1>5, <1>6, <1>12, <1>14, <1>15

\* What is current up to a year is so up to an earlier one.
LEMMA CurrentToEarlier ==
    ASSUME NEW h, NEW y \in Nat, NEW z \in Nat, z <= y, CurrentTo(h, y)
    PROVE  CurrentTo(h, z)
BY DEF CurrentTo

\* The climate model goes along with the periods that are calculated.
LEMMA CalculatePeriodClimate ==
    ASSUME IInv, NEW p \in Periods, NEW success \in BOOLEAN, NEW failed \in Failures,
           CalculatePeriod(p, success, failed), UNCHANGED runnerVars, stage # "baseline"
    PROVE  ClimateInRun'
<1> DEFINE h == hector
           n == NewResults(h, p)
           r == RunClimatePeriod(n, p, failed)
           end == PerToYr(p)
           before == PerToYr(p - 1)
<1>1. Running
  BY DEF CalculatePeriod
<1>2. /\ p = Reached /\ First' = First /\ Reached' = p + 1 /\ current = 0..p-1
      /\ unsolved' = IF success THEN unsolved ELSE unsolved \cup {p}
  BY CalculatePeriodBooks
<1>3. /\ ClimateInRun /\ h \in Hector /\ NumbersIfSound(h)
  BY <1>1 DEF IInv, ScenarioInv, ScenarioTypeOK
<1>4. /\ First \in Nat /\ First >= 1 /\ First <= p /\ p \in Nat /\ p > 0
      /\ unsolved \subseteq First..p-1 /\ p - 1 \in Periods
  BY <1>1, <1>2, RunNumbers, YearBefore, PeriodNumbers DEF RunForStage
<1>5. hector' = IF success THEN r ELSE n
  BY DEF CalculatePeriod
<1>6. /\ end \in Nat /\ before \in Nat /\ before < end /\ end <= HectorEnd /\ HectorEnd \in Nat
      /\ h.lastYear \in 0..HectorEnd /\ Years = 0..HectorEnd
  BY <1>3, <1>4, ResetForPeriod, YearOfPeriod, YearBefore, LastPeriod DEF Hector, Years
<1>7. \A k \in First..p-1 : k \in Periods /\ PerToYr(k) \in Nat /\ PerToYr(k) <= before
  <2> TAKE k \in First..p-1
  <2>1. k \in Periods /\ k <= p - 1
    BY <1>4, PeriodNumbers
  <2> QED BY <1>4, <2>1, PeriodOrder, YearOfPeriod
<1>8. /\ \A q \in Emitting : q \notin unsolved => q \in h.table
      /\ First = p /\ ~h.failed => h.lastYear = HectorEnd
  BY <1>2, <1>3 DEF ClimateInRun
<1>9. ASSUME First < p, First \notin unsolved
      PROVE  /\ h.lastYear <= before
             /\ ~h.failed => \A k \in First..p-1 : SolvedTo(k) =>
                   PerToYr(k) <= h.lastYear /\ CurrentTo(h, PerToYr(k))
  BY <1>2, <1>3, <1>9 DEF ClimateInRun
<1>10. ASSUME First < p, unsolved = {}, ~h.failed
       PROVE  h.sound /\ h.lastYear = before /\ EmittingBefore(p) \subseteq h.core \cap h.luc
  BY <1>2, <1>3, <1>10 DEF ClimateInRun
<1>11. /\ n.lastYear = h.lastYear /\ (n.failed <=> h.failed)
       /\ \A q \in Periods : q # p => (q \in h.table => q \in n.table)
       /\ \A y \in Years : y <= before => n.conc[y] = h.conc[y]
  BY <1>3, NewResultsEffect
<1>12. /\ h.table \subseteq r.table /\ (p \in Emitting => p \in r.table)
       /\ r.lastYear <= end
       /\ ~r.failed => r.lastYear = end
       /\ end <= h.lastYear /\ ~r.failed /\ EmittingBefore(p) \subseteq h.table
          => r.sound /\ EmittingBefore(p + 1) \subseteq r.core \cap r.luc /\ CurrentTo(r, end)
       /\ h.lastYear < end /\ ~r.failed
          => ~h.failed /\ \A y \in Years : y <= h.lastYear /\ y <= before => r.conc[y] = h.conc[y]
       /\ h.lastYear = before /\ h.sound /\ ~r.failed /\ EmittingBefore(p) \subseteq h.core \cap h.luc
          => r.sound /\ EmittingBefore(p + 1) \subseteq r.core \cap r.luc
             /\ \A y \in before + 1..end : r.conc[y] = "current"
  BY <1>3, <1>4, PeriodRunEffect
<1> HIDE DEF h, n, r, end, before
<1>13. ASSUME First = p, ~r.failed
       PROVE  r.sound /\ EmittingBefore(p + 1) \subseteq r.core \cap r.luc /\ CurrentTo(r, end)
  <2>1. end <= h.lastYear
    BY <1>6, <1>8, <1>12, <1>13
  <2>2. unsolved = {}
    BY <1>4, <1>13
  <2>3. EmittingBefore(p) \subseteq h.table
    BY <1>8, <2>2 DEF EmittingBefore
  <2> QED BY <1>12, <1>13, <2>1, <2>3
<1>14. ASSUME First < p, First \notin unsolved, ~r.failed
       PROVE  /\ ~h.failed
              /\ \A k \in First..p-1 : SolvedTo(k) => CurrentTo(r, PerToYr(k))
  <2>1. h.lastYear < end
    BY <1>6, <1>9, <1>14
  <2>2. ~h.failed /\ \A y \in Years : y <= h.lastYear /\ y <= before => r.conc[y] = h.conc[y]
    BY <1>12, <1>14, <2>1
  <2>3. ASSUME NEW k \in First..p-1, SolvedTo(k) PROVE CurrentTo(r, PerToYr(k))
    <3>1. PerToYr(k) <= h.lastYear /\ CurrentTo(h, PerToYr(k))
      BY <1>9, <1>14, <2>2, <2>3
    <3>2. \A y \in 1..PerToYr(k) : y \in Years /\ y <= h.lastYear /\ y <= before
      BY <1>6, <1>7, <3>1
    <3> QED BY <2>2, <3>1, <3>2 DEF CurrentTo
  <2> QED BY <2>2, <2>3
<1>15. ASSUME unsolved = {}, ~r.failed
       PROVE  r.sound /\ EmittingBefore(p + 1) \subseteq r.core \cap r.luc /\ CurrentTo(r, end)
  <2>1. CASE First = p
    BY <1>13, <1>15, <2>1
  <2>2. CASE First < p
    <3>1. ~h.failed /\ CurrentTo(r, before)
      <4>1. p - 1 \in First..p-1 /\ SolvedTo(p - 1)
        BY <1>4, <1>15, <2>2 DEF SolvedTo
      <4> QED BY <1>14, <1>15, <2>2, <4>1 DEF before
    <3>2. /\ r.sound /\ EmittingBefore(p + 1) \subseteq r.core \cap r.luc
          /\ \A y \in before + 1..end : r.conc[y] = "current"
      BY <1>10, <1>12, <1>15, <2>2, <3>1
    <3>3. CurrentTo(r, end)
      BY <1>6, <3>1, <3>2 DEF CurrentTo
    <3> QED BY <3>2, <3>3
  <2> QED BY <1>4, <2>1, <2>2
<1>16. CASE success
  <2>1. hector' = r /\ unsolved' = unsolved
    BY <1>2, <1>5, <1>16
  <2>2. \A q \in Emitting : q \notin unsolved => q \in r.table
    BY <1>8, <1>12
  <2>3. ASSUME First \notin unsolved, ~r.failed, NEW k \in First..p, SolvedTo(k)
        PROVE  PerToYr(k) <= r.lastYear /\ CurrentTo(r, PerToYr(k))
    <3>1. CASE k = p
      <4>1. unsolved = {}
        BY <1>4, <2>3, <3>1 DEF SolvedTo
      <4> QED BY <1>6, <1>12, <1>15, <2>3, <3>1, <4>1 DEF end
    <3>2. CASE k < p
      <4>1. k \in First..p-1 /\ First < p
        BY <1>4, <2>3, <3>2
      <4>2. PerToYr(k) <= r.lastYear
        BY <1>6, <1>7, <1>12, <2>3, <4>1
      <4> QED BY <1>14, <2>3, <4>1, <4>2
    <3> QED BY <1>4, <3>1, <3>2
  <2>4. /\ First' = First /\ Reached' - 1 = p /\ Reached' = p + 1 /\ First' < Reached'
        /\ PerToYr(Reached' - 1) = end
    BY <1>2, <1>4 DEF end
  <2>5. \A k : SolvedTo(k)' <=> SolvedTo(k)
    BY <2>1 DEF SolvedTo
  <2>6. /\ First' < Reached' /\ First' \notin unsolved' =>
          /\ hector'.lastYear <= PerToYr(Reached' - 1)
          /\ ~hector'.failed => \A k \in First'..Reached'-1 : SolvedTo(k)' =>
                PerToYr(k) <= hector'.lastYear /\ CurrentTo(hector', PerToYr(k))
    BY <1>12, <2>1, <2>3, <2>4, <2>5
  <2>7. /\ First' < Reached' /\ unsolved' = {} /\ ~hector'.failed =>
          /\ hector'.sound
          /\ hector'.lastYear = PerToYr(Reached' - 1)
          /\ EmittingBefore(Reached') \subseteq hector'.core \cap hector'.luc
    BY <1>12, <1>15, <2>1, <2>4
  <2>8. Reached' # First'
    BY <1>4, <2>4
  <2> QED BY <2>1, <2>2, <2>6, <2>7, <2>8 DEF ClimateInRun, CurrentTo, SolvedTo
<1>17. CASE ~success
  <2>1. hector' = n /\ unsolved' = unsolved \cup {p} /\ unsolved' # {}
    BY <1>2, <1>5, <1>17
  <2>2. \A q \in Emitting : q \notin unsolved' => q \in n.table
    BY <1>8, <1>11, <2>1 DEF Emitting
  <2>3. ASSUME First \notin unsolved'
        PROVE  First < p /\ First \notin unsolved /\ n.lastYear <= end
    <3>1. First # p /\ First \notin unsolved
      BY <2>1, <2>3
    <3> QED BY <1>4, <1>6, <1>9, <1>11, <3>1
  <2>4. ASSUME First \notin unsolved', ~n.failed, NEW k \in First..p, SolvedTo(k)'
        PROVE  PerToYr(k) <= n.lastYear /\ CurrentTo(n, PerToYr(k))
    <3>1. k < p /\ SolvedTo(k)
      BY <1>4, <2>1, <2>4 DEF SolvedTo
    <3>2. k \in First..p-1
      BY <1>4, <3>1
    <3>3. PerToYr(k) <= h.lastYear /\ CurrentTo(h, PerToYr(k))
      BY <1>9, <1>11, <2>3, <2>4, <3>1, <3>2
    <3>4. \A y \in 1..PerToYr(k) : y \in Years /\ y <= before
      BY <1>6, <1>7, <3>2
    <3> QED BY <1>11, <3>3, <3>4 DEF CurrentTo
  <2>5. /\ First' = First /\ Reached' - 1 = p /\ Reached' = p + 1 /\ First' < Reached'
        /\ PerToYr(Reached' - 1) = end
    BY <1>2, <1>4 DEF end
  <2>6. /\ First' < Reached' /\ First' \notin unsolved' =>
          /\ hector'.lastYear <= PerToYr(Reached' - 1)
          /\ ~hector'.failed => \A k \in First'..Reached'-1 : SolvedTo(k)' =>
                PerToYr(k) <= hector'.lastYear /\ CurrentTo(hector', PerToYr(k))
    BY <2>1, <2>3, <2>4, <2>5
  <2>8. Reached' # First'
    BY <1>4, <2>5
  <2> QED BY <2>1, <2>2, <2>6, <2>8 DEF ClimateInRun, CurrentTo, SolvedTo
<1> QED
  BY <1>16, <1>17

\* The end of a run leaves one set of results and a climate model that has
\* been run to its end.
LEMMA EndRunResults ==
    ASSUME IInv, NEW failed \in Failures, EndRun(failed), UNCHANGED runnerVars
    PROVE  ~Running' /\ Between' /\ WalkSettled'
<1>1. /\ Running /\ Due = {} /\ goal' = Idle
      /\ valid' = valid /\ unsolved' = unsolved /\ next' = next /\ solved' = solved /\ current' = current
      /\ stage' = stage /\ iter' = iter /\ period' = period /\ upto' = upto /\ outcome' = outcome
  BY DEF EndRun, runnerVars
<1>2. /\ RunForStage /\ stage # "setup" /\ outcome # "success"
      /\ Last \in Nat /\ First \in 0..Last /\ Reached = Last + 1
  BY <1>1, DueIs, RunNumbers
<1>3. /\ valid = 0..Last /\ current = 0..Last
      /\ unsolved \subseteq First..Last /\ (First..Last) \ solved \subseteq unsolved
  BY <1>2 DEF RunForStage
<1>4. /\ stage \in {"baseline", "initial", "future", "skip"}
      /\ stage \in {"baseline", "initial"} => Last = MaxPer - 1
      /\ stage = "initial" => First = FirstTaxPeriod
      /\ stage \in {"future", "skip"} => Last = upto /\ First = period
  <2>1. upto # RunAllPeriods /\ MaxPer - 1 # RunAllPeriods
    BY PeriodNumbers DEF IInv, RunnerTypeOK
  <2> QED BY <1>2, <2>1 DEF RunForStage, Last, First
<1>5. Between'
  BY <1>1, <1>2, <1>3, <1>4 DEF Between, ResultsStand
<1>6. WalkSettled'
  BY <1>1 DEF IInv, WalkSettled
<1> QED
  BY <1>1, <1>5, <1>6 DEF Running

LEMMA EndRunClimate ==
    ASSUME IInv, NEW failed \in Failures, EndRun(failed), UNCHANGED runnerVars
    PROVE  ClimateBetween'
<1> DEFINE h == hector
           r == RunClimateAll(h, failed)
<1>1. /\ Running /\ Due = {} /\ hector' = r /\ unsolved' = unsolved
      /\ stage' = stage /\ iter' = iter /\ period' = period /\ outcome' = outcome
  BY DEF EndRun, runnerVars
<1>2. /\ RunForStage /\ outcome # "success"
      /\ Last \in Periods /\ Last \in Nat /\ First \in 0..Last /\ Reached = Last + 1
  BY <1>1, DueIs, RunNumbers
<1>3. h \in Hector /\ NumbersIfSound(h) /\ (stage # "baseline" => ClimateInRun)
  BY <1>1 DEF IInv, ScenarioInv, ScenarioTypeOK
<1>4. /\ r.table = Emitting
      /\ ~r.failed => r.lastYear = HectorEnd
      /\ h.lastYear < HectorEnd /\ ~r.failed
         => ~h.failed /\ \A y \in Years : y <= h.lastYear => r.conc[y] = h.conc[y]
      /\ h.lastYear < HectorEnd /\ ~r.failed /\ h.sound
         => \A y \in h.lastYear + 1..HectorEnd : r.conc[y] = "current"
      /\ h.lastYear = HectorEnd /\ HectorEnd = EndYear /\ ~r.failed => CurrentTo(r, HectorEnd)
  BY <1>3, EndRunEffect
<1> HIDE DEF h, r
<1>5. /\ stage \in {"baseline", "initial", "future", "skip"}
      /\ stage = "initial" => First = FirstTaxPeriod /\ Last = MaxPer - 1
  <2>1. MaxPer - 1 # RunAllPeriods
    BY PeriodNumbers
  <2> QED BY <1>2, <2>1 DEF RunForStage, Last, First
<1>6. /\ HectorEnd \in Nat /\ EndYear <= HectorEnd /\ EndYear \in Nat /\ Years = 0..HectorEnd
      /\ h.lastYear \in 0..HectorEnd /\ PerToYr(Last) \in 0..EndYear
  BY <1>2, <1>3, LastPeriod, YearOfPeriod DEF Hector, Years
<1>7. ASSUME stage # "baseline", First \notin unsolved, ~r.failed, NEW k \in First..Last, SolvedTo(k)
      PROVE  CurrentTo(r, PerToYr(k))
  <2>1. /\ h.lastYear <= PerToYr(Last)
        /\ ~h.failed => PerToYr(k) <= h.lastYear /\ CurrentTo(h, PerToYr(k))
    <3>1. First < Reached /\ Reached - 1 = Last
      BY <1>2
    <3>2. /\ hector.lastYear <= PerToYr(Reached - 1)
          /\ ~hector.failed => \A j \in First..Reached-1 : SolvedTo(j) =>
                PerToYr(j) <= hector.lastYear /\ CurrentTo(hector, PerToYr(j))
      BY <1>3, <1>7, <3>1 DEF ClimateInRun
    <3> QED BY <1>7, <3>1, <3>2 DEF h
  <2>2. k \in Periods /\ PerToYr(k) \in Nat /\ PerToYr(k) <= HectorEnd
    <3>1. k \in Periods
      BY <1>2, PeriodNumbers
    <3> QED BY <3>1, YearOfPeriod
  <2>3. CASE h.lastYear < HectorEnd
    <3>1. ~h.failed /\ \A y \in Years : y <= h.lastYear => r.conc[y] = h.conc[y]
      BY <1>4, <1>7, <2>3
    <3>2. \A y \in 1..PerToYr(k) : y \in Years /\ y <= h.lastYear
      BY <1>6, <2>1, <2>2, <3>1
    <3> QED BY <2>1, <3>1, <3>2 DEF CurrentTo
  <2>4. CASE h.lastYear = HectorEnd
    <3>1. HectorEnd = EndYear
      BY <1>6, <2>1, <2>4
    <3> QED BY <1>4, <1>6, <1>7, <2>2, <2>4, <3>1, CurrentToEarlier
  <2> QED BY <1>6, <2>3, <2>4
<1>8. ASSUME stage # "baseline", unsolved = {}, ~r.failed PROVE CurrentTo(r, HectorEnd)
  <2>1. First < Reached /\ Reached - 1 = Last /\ First \notin unsolved
    BY <1>2, <1>8
  <2>2. CurrentTo(r, PerToYr(Last))
    BY <1>2, <1>7, <1>8, <2>1 DEF SolvedTo
  <2>3. /\ h.lastYear <= PerToYr(Last)
        /\ ~h.failed => h.sound /\ h.lastYear = PerToYr(Last)
    BY <1>3, <1>8, <2>1 DEF ClimateInRun, h
  <2>4. CASE h.lastYear < HectorEnd
    <3>1. h.sound /\ h.lastYear = PerToYr(Last)
      BY <1>4, <1>8, <2>3, <2>4
    <3>2. \A y \in h.lastYear + 1..HectorEnd : r.conc[y] = "current"
      BY <1>4, <1>8, <2>4, <3>1
    <3> QED BY <1>6, <2>2, <3>1, <3>2 DEF CurrentTo
  <2>5. CASE h.lastYear = HectorEnd
    <3>1. HectorEnd = EndYear
      BY <1>6, <2>3, <2>5
    <3> QED BY <1>4, <1>8, <2>5, <3>1
  <2> QED BY <1>6, <2>4, <2>5
<1>9. ASSUME ~r.failed, stage = "initial", NEW k \in FirstTaxPeriod..MaxPer-1, SolvedTo(k)
      PROVE  CurrentTo(r, PerToYr(k))
  <2>1. First = FirstTaxPeriod /\ k \in First..Last /\ stage # "baseline"
    BY <1>5, <1>9
  <2>2. First \notin unsolved
    BY <1>2, <1>9, <2>1 DEF SolvedTo
  <2> QED BY <1>7, <1>9, <2>1, <2>2
<1>10. Tried' => stage # "baseline"
  BY <1>1 DEF Tried
<1>11. ~PastTheEnd' /\ outcome' # "success"
  BY <1>1, <1>2, <1>5 DEF PastTheEnd
<1>12. \A k : SolvedTo(k)' <=> SolvedTo(k)
  BY <1>1 DEF SolvedTo
<1>13. ~r.failed /\ Tried' /\ unsolved' = {} => CurrentTo(r, HectorEnd)
  BY <1>1, <1>8, <1>10
<1>14. ~r.failed /\ stage' = "initial"
       => \A k \in FirstTaxPeriod..MaxPer-1 : SolvedTo(k)' => CurrentTo(r, PerToYr(k))
  BY <1>1, <1>9, <1>12
<1> QED
  BY <1>1, <1>4, <1>11, <1>13, <1>14 DEF ClimateBetween, CurrentTo, SolvedTo

LEMMA ScenarioStepInv ==
    ASSUME IInv, ScenarioStep
    PROVE  IInv'
<1>1. ScenarioInv' /\ RunnerTypeOK'
  <2>1. ScenarioInv'
    BY ScenarioNextInv DEF IInv, ScenarioStep
  <2>2. RunnerTypeOK'
    BY DEF IInv, RunnerTypeOK, ScenarioStep, runnerVars
  <2> QED BY <2>1, <2>2
<1>2. ASSUME NEW p \in Periods, NEW success \in BOOLEAN, NEW failed \in Failures,
             CalculatePeriod(p, success, failed), UNCHANGED runnerVars
      PROVE  IInv'
  <2>1. RunForStage' /\ WalkSettled' /\ Running'
    BY <1>2, CalculatePeriodBooks
  <2>2. stage' = stage /\ outcome' = outcome /\ outcome # "success"
    BY <1>2, RunNumbers DEF runnerVars, CalculatePeriod
  <2>3. stage # "baseline" => ClimateInRun'
    BY <1>2, CalculatePeriodClimate
  <2> QED BY <1>1, <2>1, <2>2, <2>3 DEF IInv
<1>3. ASSUME NEW failed \in Failures, EndRun(failed), UNCHANGED runnerVars
      PROVE  IInv'
  BY <1>1, <1>3, EndRunResults, EndRunClimate DEF IInv
<1> QED
  BY <1>2, <1>3 DEF ScenarioStep, ScenarioNext

-----------------------------------------------------------------------------
(* The runner between two runs *)

LEMMA InitInv ==
    ASSUME Init
    PROVE  IInv
<1>1. ScenarioInv
  BY ScenarioInitInv DEF Init
<1>2. RunnerTypeOK
  <2>1. 0 \in Walk
    BY TargetAssumption DEF Walk
  <2>2. 0 \in Years /\ 0 \in Periods /\ 0 \in 0..MaxIterations
    BY LastPeriod, PeriodNumbers, TargetAssumption DEF Years
  <2> QED BY <2>1, <2>2 DEF Init, RunnerTypeOK, Stages
<1>3. ~Running /\ stage = "setup" /\ outcome = "none" /\ valid = {} /\ current = {} /\ next = 0
  BY DEF Init, ScenarioInit, Running
<1>4. WalkSettled /\ Between /\ ClimateBetween
  BY <1>3 DEF WalkSettled, Between, ClimateBetween, Tried, PastTheEnd
<1> QED
  BY <1>1, <1>2, <1>3, <1>4 DEF IInv

\* A run that is begun with taxes from some period on: the results before
\* stand, those it will calculate are invalidated or asked for.
LEMMA BeginTaxedRun ==
    ASSUME IInv, ~Running, stage # "setup", outcome # "success",
           NEW g \in Periods, NEW first \in Periods, first >= 1, first <= g,
           NEW invalidated, \A p \in first..g-1 : p \in invalidated,
           \A p \in invalidated : p >= first,
           NEW q \in Periods, ResultsStand(q), q >= first - 1,
           BeginRun(g, first, invalidated),
           \/ stage' = "initial" /\ first = FirstTaxPeriod /\ g = MaxPer - 1
           \/ stage' \in {"future", "skip"} /\ first = period' /\ g = upto',
           RunnerTypeOK', WalkSettled', outcome' = outcome
    PROVE  IInv'
<1>1. ScenarioInv' /\ Running'
  BY BeginRunInv DEF IInv
<1>2. /\ goal' = g /\ next' = 0 /\ unsolved' = {} /\ valid' = valid \ invalidated
      /\ current' = {p \in current : p < first} /\ hector' = hector
  BY DEF BeginRun
<1>3. g \in 0..MaxPer-1 /\ first \in 1..g /\ q \in 0..MaxPer-1 /\ q >= first - 1 /\ g # RunAllPeriods /\ MaxPer \in Nat
  BY PeriodNumbers
<1>4. First' = first /\ Last' = g /\ Reached' = first
  BY <1>2, <1>3 DEF First, Last, Reached
<1>5. current' = 0..first-1 /\ valid' = (0..q) \ invalidated
  BY <1>2, <1>3 DEF ResultsStand
<1>6. current' \subseteq valid'
  BY <1>3, <1>5
<1>7. valid' \cap first..g-1 = {}
  BY <1>3, <1>5
<1>8. RunForStage'
  <2>1. stage' \in {"baseline", "initial", "future", "skip"}
        /\ goal' = CASE stage' = "baseline" -> RunAllPeriods
                     [] stage' = "initial"  -> MaxPer - 1
                     [] OTHER               -> upto'
    BY <1>2
  <2>2. first \in 0..g /\ first \in first..g + 1 /\ first # g + 1 /\ first..first-1 = {}
    BY <1>3
  <2> QED BY <1>2, <1>4, <1>5, <1>6, <1>7, <2>1, <2>2 DEF RunForStage
<1>9. ClimateInRun'
  <2>1. /\ Emitting \subseteq hector.table
        /\ ~hector.failed => hector.lastYear = HectorEnd
    BY DEF IInv, ClimateBetween
  <2>2. ~(First' < Reached')
    BY <1>3, <1>4
  <2> QED BY <1>2, <1>4, <2>1, <2>2 DEF ClimateInRun
<1> QED
  BY <1>1, <1>8, <1>9 DEF IInv

LEMMA BaselineInv ==
    ASSUME IInv, Baseline
    PROVE  IInv'
<1>1. /\ ~Running /\ stage = "setup" /\ BeginRun(RunAllPeriods, 0, {}) /\ stage' = "baseline"
      /\ UNCHANGED <<iter, period, upto, year, outcome>>
  BY DEF Baseline, BeginRun
<1>2. ScenarioInv' /\ Running'
  BY <1>1, BeginRunInv DEF IInv
<1>3. /\ valid' = {} /\ current' = {} /\ unsolved' = {} /\ next' = 0 /\ goal' = RunAllPeriods
      /\ outcome # "success"
  BY <1>1 DEF BeginRun, IInv, Between
<1>4. First' = 0 /\ Last' = MaxPer - 1 /\ Reached' = 0
  BY <1>1, <1>3 DEF First, Last, Reached
<1>5. RunForStage'
  <2>1. MaxPer - 1 \in Nat /\ 0..0-1 = {} /\ 0 # MaxPer - 1 + 1 /\ 0 \in 0..MaxPer-1
        /\ 0 \in 0..MaxPer-1+1
    BY PeriodNumbers
  <2> QED BY <1>1, <1>3, <1>4, <2>1 DEF RunForStage
<1>6. RunnerTypeOK' /\ WalkSettled'
  BY <1>1 DEF IInv, RunnerTypeOK, Stages, WalkSettled
<1> QED
  BY <1>1, <1>2, <1>3, <1>5, <1>6 DEF IInv

\* What is left alone when the runner only looks at the results.
LEMMA LookOn ==
    ASSUME IInv, UNCHANGED scenarioVars
    PROVE  /\ ScenarioInv' /\ (Running' <=> Running)
           /\ \A q \in Periods : ResultsStand(q) => ResultsStand(q)'
           /\ \A k : SolvedTo(k)' <=> SolvedTo(k)
           /\ hector' = hector /\ unsolved' = unsolved /\ solved' = solved
           /\ valid' = valid /\ current' = current /\ next' = next
<1>1. /\ valid' = valid /\ unsolved' = unsolved /\ goal' = goal /\ next' = next
      /\ hector' = hector /\ solved' = solved /\ current' = current
  BY DEF scenarioVars
<1>2. ScenarioInv'
  BY <1>1 DEF IInv, ScenarioInv, ScenarioTypeOK, NumbersIfSound
<1> QED
  BY <1>1, <1>2 DEF Running, ResultsStand, SolvedTo

\* The runner gives up.
LEMMA FailureInv ==
    ASSUME IInv, ~Running, UNCHANGED scenarioVars, stage # "setup",
           stage' = "done", outcome' = "failure", RunnerTypeOK'
    PROVE  IInv'
<1>1. /\ ScenarioInv' /\ ~Running' /\ hector' = hector
  BY LookOn
<1>2. WalkSettled' /\ Between'
  BY DEF WalkSettled, Between
<1>3. ClimateBetween'
  BY <1>1 DEF IInv, ClimateBetween, Tried, PastTheEnd
<1> QED
  BY <1>1, <1>2, <1>3 DEF IInv

LEMMA TargetTooHighInv ==
    ASSUME IInv, TargetTooHigh
    PROVE  IInv'
<1>1. ~Running /\ UNCHANGED scenarioVars /\ stage = "baseline" /\ stage' = "done" /\ outcome' = "failure"
  BY DEF TargetTooHigh, Conclude
<1>2. RunnerTypeOK'
  BY <1>1 DEF TargetTooHigh, IInv, RunnerTypeOK, Stages
<1> QED
  BY <1>1, <1>2, FailureInv

LEMMA StartInitialInv ==
    ASSUME IInv, StartInitial
    PROVE  IInv'
<1>1. /\ ~Running /\ UNCHANGED scenarioVars /\ stage = "baseline" /\ stage' = "initial" /\ iter' = 0
      /\ UNCHANGED <<period, upto, year, outcome>>
  BY DEF StartInitial
<1>2. RunnerTypeOK'
  <2>1. 0 \in 0..MaxIterations
    BY TargetAssumption
  <2> QED BY <1>1, <2>1 DEF IInv, RunnerTypeOK, Stages
<1>3. ResultsStand(MaxPer - 1) /\ outcome # "success"
  BY <1>1 DEF IInv, Between
<1>4. ScenarioInv' /\ ~Running' /\ ResultsStand(MaxPer - 1)' /\ hector' = hector
  BY <1>1, <1>3, LookOn, LastPeriod
<1>5. WalkSettled' /\ Between' /\ ClimateBetween'
  <2>1. WalkSettled' /\ Between'
    BY <1>1, <1>3, <1>4 DEF WalkSettled, Between
  <2>2. ~Tried' /\ ~PastTheEnd' /\ outcome' # "success"
    BY <1>1, <1>3 DEF Tried, PastTheEnd
  <2>3. ClimateBetween'
    BY <1>1, <1>4, <2>2 DEF IInv, ClimateBetween
  <2> QED BY <2>1, <2>3
<1> QED
  BY <1>2, <1>4, <1>5 DEF IInv

LEMMA TrialInv ==
    ASSUME IInv, Trial
    PROVE  IInv'
<1>1. /\ ~Running /\ stage \in {"initial", "future", "skip"} /\ iter < MaxIterations /\ iter' = iter + 1
      /\ RunTrial /\ UNCHANGED <<stage, period, upto, year, outcome>>
  BY DEF Trial, MayIterate, Searching
<1>2. RunnerTypeOK'
  <2>1. iter' \in 0..MaxIterations
    BY <1>1, TargetAssumption DEF IInv, RunnerTypeOK
  <2> QED BY <1>1, <2>1 DEF IInv, RunnerTypeOK
<1>3. solved' = solved
  BY <1>1 DEF RunTrial, BeginRun
<1>4. WalkSettled' /\ outcome' = outcome /\ outcome # "success"
  BY <1>1, <1>3 DEF IInv, WalkSettled, Between
<1>5. CASE stage = "initial"
  <2>1. BeginRun(MaxPer - 1, FirstTaxPeriod, FirstTaxPeriod..MaxPer-1) /\ ResultsStand(MaxPer - 1)
    BY <1>1, <1>5 DEF RunTrial, IInv, Between
  <2>2. MaxPer - 1 \in Periods /\ FirstTaxPeriod \in Periods /\ FirstTaxPeriod >= 1
        /\ FirstTaxPeriod <= MaxPer - 1
    BY TaxedPeriods, LastPeriod, PeriodNumbers
  <2>3. \A p \in FirstTaxPeriod..MaxPer-1-1 : p \in FirstTaxPeriod..MaxPer-1
    BY <2>2, PeriodNumbers
  <2>4. \A p \in FirstTaxPeriod..MaxPer-1 : p >= FirstTaxPeriod
    BY <2>2, PeriodNumbers
  <2>5. MaxPer - 1 >= FirstTaxPeriod - 1
    BY <2>2, PeriodNumbers
  <2> DEFINE inv == FirstTaxPeriod..MaxPer-1
             g == MaxPer - 1
  <2>6. stage' = "initial" /\ stage # "setup"
    BY <1>1, <1>5
  <2> HIDE DEF inv, g
  <2> QED BY <1>1, <1>2, <1>4, <2>1, <2>2, <2>3, <2>4, <2>5, <2>6, BeginTaxedRun DEF inv, g
<1>6. CASE stage \in {"future", "skip"}
  <2> DEFINE inv == period..upto-1
  <2>1. BeginRun(upto, period, inv) /\ ResultsStand(upto)
    BY <1>1, <1>6 DEF RunTrial, IInv, Between
  <2>2. upto \in Periods /\ upto \in 0..MaxPer-1 /\ period \in FirstTaxPeriod..MaxPer /\ upto >= period
    BY <1>6, PeriodNumbers DEF IInv, RunnerTypeOK, WalkSettled
  <2>3. period \in Periods /\ period >= 1 /\ period <= upto /\ upto >= period - 1
    BY <2>2, TaxedPeriods, PeriodNumbers
  <2>4. /\ \A p \in period..upto-1 : p \in inv
        /\ \A p \in inv : p >= period
    BY <2>2, <2>3, PeriodNumbers
  <2>5. stage' \in {"future", "skip"} /\ period = period' /\ upto = upto' /\ stage # "setup"
    BY <1>1, <1>6
  <2> HIDE DEF inv
  <2> QED BY <1>1, <1>2, <1>4, <2>1, <2>2, <2>3, <2>4, <2>5, BeginTaxedRun
<1> QED
  BY <1>1, <1>5, <1>6

LEMMA InvalidTrialInv ==
    ASSUME IInv, InvalidTrial
    PROVE  IInv'
<1>1. /\ ~Running /\ UNCHANGED scenarioVars /\ stage # "setup" /\ stage' = "done" /\ outcome' = "failure"
      /\ iter' = iter + 1 /\ iter < MaxIterations /\ UNCHANGED <<period, upto, year>>
  BY DEF InvalidTrial, MayIterate, Searching, Conclude
<1>2. iter' \in 0..MaxIterations
  BY <1>1, TargetAssumption DEF IInv, RunnerTypeOK
<1>3. RunnerTypeOK'
  BY <1>1, <1>2 DEF IInv, RunnerTypeOK, Stages
<1> QED
  BY <1>1, <1>3, FailureInv

LEMMA LimitReachedInv ==
    ASSUME IInv, LimitReached
    PROVE  IInv'
<1>1. /\ ~Running /\ UNCHANGED scenarioVars /\ stage # "setup" /\ stage' = "done" /\ outcome' = "failure"
      /\ UNCHANGED <<iter, period, upto, year>>
  BY DEF LimitReached, Searching, Conclude
<1>2. RunnerTypeOK'
  BY <1>1 DEF IInv, RunnerTypeOK, Stages
<1> QED
  BY <1>1, <1>2, FailureInv

\* The years that are looked at are years of the periods.
LEMMA StatusYearsBounds ==
    ASSUME NEW y \in StatusYears
    PROVE  y \in FirstTaxYear - 1..EndYear /\ y \in 0..EndYear /\ y \in Years
<1>1. FirstTaxYear \in 1..EndYear /\ EndYear \in Nat /\ EndYear <= HectorEnd /\ HectorEnd \in Nat
  BY TaxedPeriods, LastPeriod
<1>2. y \in FirstTaxYear - 1..EndYear
  <2>1. CASE TargetYear # MaxTargetYear
    BY <1>1, <2>1, TargetAssumption DEF StatusYears
  <2>2. CASE TargetYear = MaxTargetYear
    BY <1>1, <2>2 DEF StatusYears
  <2> QED BY <2>1, <2>2
<1> QED
  BY <1>1, <1>2 DEF Years

\* Where the walk starts, given the year of the target.
LEMMA FoundInitialStep ==
    ASSUME IInv, FoundInitial
    PROVE  /\ ~Running /\ UNCHANGED scenarioVars /\ stage = "initial" /\ iter > 0 /\ upto' = upto
           /\ year' \in StatusYears /\ hector.conc[year'] # "nan"
           /\ iter' \in 0..MaxIterations
           /\ \/ /\ stage' = "walk" /\ outcome' = outcome /\ period' = WalkStart(year')
                 /\ \A p \in unsolved : year' < PerToYr(p)
              \/ stage' = "done" /\ outcome' = "failure" /\ period' = period
<1>1. PICK y \in StatusYears :
         /\ Found(y)
         /\ IF WithinLimit /\ \A p \in unsolved : y < PerToYr(p)
            THEN /\ stage' = "walk" /\ period' = WalkStart(y)
                 /\ UNCHANGED outcome
            ELSE Conclude("failure") /\ UNCHANGED period
  BY DEF FoundInitial
<1>2. /\ ~Running /\ UNCHANGED scenarioVars /\ stage = "initial" /\ iter > 0 /\ upto' = upto
      /\ iter < MaxIterations /\ iter' = iter + 1 /\ year' = y /\ hector.conc[y] # "nan"
  BY <1>1 DEF FoundInitial, Found, MayIterate, Searching
<1>3. iter' \in 0..MaxIterations
  BY <1>2, TargetAssumption DEF IInv, RunnerTypeOK
<1>4. CASE WithinLimit /\ \A p \in unsolved : y < PerToYr(p)
  BY <1>1, <1>2, <1>3, <1>4
<1>5. CASE ~(WithinLimit /\ \A p \in unsolved : y < PerToYr(p))
  BY <1>1, <1>2, <1>3, <1>5 DEF Conclude
<1> QED
  BY <1>4, <1>5

LEMMA FoundInitialInv ==
    ASSUME IInv, FoundInitial
    PROVE  IInv'
<1>1. /\ ~Running /\ UNCHANGED scenarioVars /\ stage = "initial" /\ iter > 0 /\ upto' = upto
      /\ year' \in StatusYears /\ iter' \in 0..MaxIterations
  BY FoundInitialStep
<1>2. year' \in 0..EndYear /\ year' \in Years
  BY <1>1, StatusYearsBounds
<1>3. CASE stage' = "done" /\ outcome' = "failure" /\ period' = period
  <2>1. RunnerTypeOK'
    BY <1>1, <1>2, <1>3 DEF IInv, RunnerTypeOK, Stages
  <2> QED BY <1>1, <1>3, <2>1, FailureInv
<1>4. CASE /\ stage' = "walk" /\ outcome' = outcome /\ period' = WalkStart(year')
           /\ \A p \in unsolved : year' < PerToYr(p)
  <2>1. /\ period' \in Walk
        /\ \/ period' < 0
           \/ /\ period' \in FirstTaxPeriod..MaxPer
              /\ \A p \in FirstTaxPeriod..period'-1 : PerToYr(p) <= year'
    BY <1>2, <1>4, WalkStartBounds
  <2>2. RunnerTypeOK'
    BY <1>1, <1>2, <1>4, <2>1 DEF IInv, RunnerTypeOK, Stages
  <2>3. /\ ResultsStand(MaxPer - 1) /\ outcome # "success"
        /\ unsolved \subseteq FirstTaxPeriod..MaxPer-1
        /\ (FirstTaxPeriod..MaxPer-1) \ solved \subseteq unsolved
        /\ MaxPer - 1 \in Periods
    BY <1>1, LastPeriod DEF IInv, Between
  <2>4. /\ ScenarioInv' /\ ~Running' /\ ResultsStand(MaxPer - 1)'
        /\ hector' = hector /\ unsolved' = unsolved /\ solved' = solved
    BY <1>1, <2>3, LookOn
  <2>12. /\ period' \in Int /\ FirstTaxPeriod \in Nat /\ FirstTaxPeriod <= MaxPer - 1
         /\ MaxPer \in Nat /\ Periods = 0..MaxPer-1
    BY <2>1, TaxedPeriods, PeriodNumbers, TargetAssumption DEF Walk
  <2>5. ASSUME period' >= 0
        PROVE  /\ period' \in FirstTaxPeriod..MaxPer
               /\ \A p \in FirstTaxPeriod..period'-1 : p \in Periods /\ p \notin unsolved /\ p \in solved
    <3>1. /\ period' \in FirstTaxPeriod..MaxPer
          /\ \A p \in FirstTaxPeriod..period'-1 : PerToYr(p) <= year'
      <4>1. ~(period' < 0)
        BY <2>5, <2>12
      <4> QED BY <2>1, <4>1
    <3>2. ASSUME NEW p \in FirstTaxPeriod..period'-1
          PROVE  p \in Periods /\ p \notin unsolved /\ p \in solved
      <4>4. period' \in FirstTaxPeriod..MaxPer
        BY <3>1
      <4>1. p \in FirstTaxPeriod..MaxPer-1 /\ p \in Periods
        BY <3>2, <4>4, TaxedPeriodsBefore
      <4>2. PerToYr(p) <= year' /\ PerToYr(p) \in 0..EndYear /\ EndYear \in Nat
        BY <3>1, <3>2, <4>1, YearOfPeriod, LastPeriod
      <4>3. p \notin unsolved
        BY <1>2, <1>4, <4>2
      <4> QED BY <2>3, <4>1, <4>3
    <3> QED BY <3>1, <3>2
  <2>6. WalkSettled'
    <3>1. period' < 0 \/ period' >= 0
      BY <2>1, TargetAssumption DEF Walk
    <3> QED BY <1>4, <2>4, <2>5, <3>1 DEF WalkSettled
  <2>7. period' >= 0 => MaxPer - 1 >= period' - 1
    BY <2>5, TaxedPeriods, PeriodNumbers
  <2>8. Between'
    BY <1>4, <2>3, <2>4, <2>7 DEF Between
  <2>9. ASSUME period' >= MaxPer PROVE unsolved = {}
    <3>1. period' = MaxPer
      <4>1. period' >= 0 => period' \in FirstTaxPeriod..MaxPer
        BY <2>5
      <4> QED BY <2>9, <2>12, <4>1
    <3>2. \A p \in FirstTaxPeriod..MaxPer-1 : p \notin unsolved
      BY <2>5, <2>9, <3>1, PeriodNumbers
    <3> QED BY <2>3, <3>2
  <2>10. ~hector.failed /\ period' >= MaxPer => CurrentTo(hector, HectorEnd)
    BY <1>1, <2>9 DEF IInv, ClimateBetween, Tried
  <2>11. ClimateBetween'
    <3>1. /\ Emitting \subseteq hector.table
          /\ ~hector.failed => hector.lastYear = HectorEnd
      BY <1>1 DEF IInv, ClimateBetween
    <3> QED BY <1>4, <2>3, <2>4, <2>10, <3>1 DEF ClimateBetween, Tried, PastTheEnd
  <2> QED BY <2>2, <2>4, <2>6, <2>8, <2>11 DEF IInv
<1> QED
  BY <1>3, <1>4, FoundInitialStep

LEMMA FoundLaterInv ==
    ASSUME IInv, FoundLater
    PROVE  IInv'
<1>1. /\ ~Running /\ UNCHANGED scenarioVars /\ stage \in {"future", "skip"} /\ upto' = upto
      /\ iter < MaxIterations /\ iter' = iter + 1 /\ year' = PerToYr(upto)
      /\ \/ /\ Success /\ stage' = "walk" /\ period' = period + 1 /\ outcome' = outcome
         \/ stage' = "done" /\ outcome' = "failure" /\ period' = period
  BY DEF FoundLater, Found, MayIterate, Searching, Conclude
<1>2. /\ upto \in Periods /\ upto \in 0..MaxPer-1 /\ period \in FirstTaxPeriod..MaxPer /\ upto >= period
      /\ FirstTaxPeriod..period-1 \subseteq solved
  BY <1>1, PeriodNumbers DEF IInv, RunnerTypeOK, WalkSettled
<1>3. year' \in Years /\ iter' \in 0..MaxIterations
  <2>1. iter' \in 0..MaxIterations
    BY <1>1, TargetAssumption DEF IInv, RunnerTypeOK
  <2> QED BY <1>1, <1>2, <2>1, YearOfPeriod
<1>4. CASE stage' = "done" /\ outcome' = "failure" /\ period' = period
  <2>1. RunnerTypeOK'
    BY <1>1, <1>3, <1>4 DEF IInv, RunnerTypeOK, Stages
  <2> QED BY <1>1, <1>4, <2>1, FailureInv
<1>5. CASE Success /\ stage' = "walk" /\ period' = period + 1 /\ outcome' = outcome
  <2>1. /\ ResultsStand(upto) /\ outcome # "success"
        /\ (period..upto) \ solved \subseteq unsolved /\ unsolved = {}
    BY <1>1, <1>5 DEF IInv, Between, Success
  <2>2. /\ ScenarioInv' /\ ~Running' /\ ResultsStand(upto)'
        /\ hector' = hector /\ unsolved' = unsolved /\ solved' = solved
    BY <1>1, <1>2, <2>1, LookOn
  <2>3. period' \in FirstTaxPeriod..MaxPer /\ period' \in Walk /\ upto >= period' - 1
    BY <1>2, <1>5, TaxedPeriods, PeriodNumbers, TargetAssumption DEF Walk
  <2>4. FirstTaxPeriod..period'-1 \subseteq solved'
    <3>1. period \in solved
      BY <1>2, <2>1, TaxedPeriods, PeriodNumbers
    <3> QED BY <1>2, <1>5, <2>2, <3>1, TaxedPeriods, PeriodNumbers
  <2>5. RunnerTypeOK'
    BY <1>1, <1>3, <1>5, <2>3 DEF IInv, RunnerTypeOK, Stages
  <2>6. WalkSettled' /\ Between'
    <3>1. WalkSettled'
      BY <1>5, <2>3, <2>4 DEF WalkSettled
    <3>2. Between'
      BY <1>1, <1>2, <1>5, <2>1, <2>2, <2>3 DEF Between
    <3> QED BY <3>1, <3>2
  <2>7. ClimateBetween'
    <3>1. /\ Emitting \subseteq hector.table
          /\ ~hector.failed => hector.lastYear = HectorEnd
          /\ ~hector.failed => CurrentTo(hector, HectorEnd)
      BY <1>1, <2>1 DEF IInv, ClimateBetween, Tried
    <3> QED BY <1>5, <2>1, <2>2, <3>1 DEF ClimateBetween, Tried, PastTheEnd
  <2> QED BY <2>2, <2>5, <2>6, <2>7 DEF IInv
<1> QED
  BY <1>1, <1>4, <1>5

\* The walk has a period to look at, and results up to the one before.
LEMMA WalkingAt ==
    ASSUME IInv, ~Running, stage = "walk", period \in Periods
    PROVE  /\ period \in FirstTaxPeriod..MaxPer-1 /\ period >= 1 /\ period \in 0..MaxPer-1
           /\ FirstTaxPeriod..period-1 \subseteq solved
           /\ \E q \in Periods : ResultsStand(q) /\ q >= period - 1
           /\ outcome # "success"
<1>1. period \in 0..MaxPer-1 /\ period >= 0
  BY PeriodNumbers
<1> QED
  BY <1>1, TaxedPeriods, PeriodNumbers DEF IInv, WalkSettled, Between

LEMMA SolveFutureInv ==
    ASSUME IInv, SolveFuture
    PROVE  IInv'
<1>1. /\ ~Running /\ stage = "walk" /\ period \in Periods /\ BeginRun(period, period, {})
      /\ stage' = "future" /\ iter' = 0 /\ upto' = period /\ UNCHANGED <<period, year, outcome>>
  BY DEF SolveFuture, Walking, BeginRun
<1>2. /\ period \in FirstTaxPeriod..MaxPer-1 /\ period >= 1 /\ period \in 0..MaxPer-1
      /\ FirstTaxPeriod..period-1 \subseteq solved /\ outcome # "success"
  BY <1>1, WalkingAt
<1>3. PICK q \in Periods : ResultsStand(q) /\ q >= period - 1
  BY <1>1, WalkingAt
<1>4. RunnerTypeOK'
  BY <1>1, TargetAssumption DEF IInv, RunnerTypeOK, Stages
<1>5. solved' = solved
  BY <1>1 DEF BeginRun
<1>6. WalkSettled'
  BY <1>1, <1>2, <1>5, TaxedPeriods, PeriodNumbers DEF WalkSettled
<1>7. /\ period <= period /\ (\A p \in period..period-1 : p \in {}) /\ (\A p \in {} : p >= period)
      /\ stage # "setup" /\ stage' \in {"future", "skip"} /\ period = period' /\ period = upto'
      /\ outcome' = outcome
  BY <1>1, <1>2, PeriodNumbers
<1> QED
  BY <1>1, <1>2, <1>3, <1>4, <1>6, <1>7, BeginTaxedRun

LEMMA SkipFutureInv ==
    ASSUME IInv, SkipFuture
    PROVE  IInv'
<1> DEFINE ahead == period + NumForwardLooking[period]
           inv == period..upto'-1
<1>1. /\ ~Running /\ stage = "walk" /\ period \in Periods /\ BeginRun(upto', period, inv)
      /\ stage' = "skip" /\ iter' = 0 /\ upto' = Min({ahead, MaxPer - 1})
      /\ UNCHANGED <<period, year, outcome>>
  BY DEF SkipFuture, Walking, BeginRun
<1>2. /\ period \in FirstTaxPeriod..MaxPer-1 /\ period >= 1 /\ period \in 0..MaxPer-1
      /\ FirstTaxPeriod..period-1 \subseteq solved /\ outcome # "success"
  BY <1>1, WalkingAt
<1>3. PICK q \in Periods : ResultsStand(q) /\ q >= period - 1
  BY <1>1, WalkingAt
<1>4. ahead \in Int /\ ahead >= period
  BY <1>1, <1>2, TargetAssumption, PeriodNumbers
<1> HIDE DEF ahead
<1>5. Min({ahead, MaxPer - 1}) = IF ahead <= MaxPer - 1 THEN ahead ELSE MaxPer - 1
  <2> DEFINE S == {ahead, MaxPer - 1}
  <2>3. S \subseteq Int /\ ahead \in S /\ MaxPer - 1 \in S
    BY <1>4, PeriodNumbers
  <2>1. CASE ahead <= MaxPer - 1
    <3>1. \A n \in S : ahead <= n
      BY <1>4, <2>1, PeriodNumbers
    <3> HIDE DEF S
    <3> QED BY <2>1, <2>3, <3>1, MinIs DEF S
  <2>2. CASE ~(ahead <= MaxPer - 1)
    <3>1. \A n \in S : MaxPer - 1 <= n
      BY <1>4, <2>2, PeriodNumbers
    <3> HIDE DEF S
    <3> QED BY <2>2, <2>3, <3>1, MinIs DEF S
  <2> QED BY <2>1, <2>2
<1>6. upto' \in Periods /\ upto' >= period /\ upto' \in 0..MaxPer-1
  BY <1>1, <1>2, <1>4, <1>5, PeriodNumbers
<1>7. RunnerTypeOK'
  BY <1>1, <1>6, TargetAssumption DEF IInv, RunnerTypeOK, Stages
<1>8. solved' = solved
  BY <1>1 DEF BeginRun
<1>9. WalkSettled'
  BY <1>1, <1>2, <1>6, <1>8, TaxedPeriods, PeriodNumbers DEF WalkSettled
<1>10. /\ period <= upto' /\ (\A p \in period..upto'-1 : p \in inv) /\ (\A p \in inv : p >= period)
       /\ stage # "setup" /\ stage' \in {"future", "skip"} /\ period = period' /\ upto' = upto'
       /\ outcome' = outcome
  BY <1>1, <1>2, <1>6, PeriodNumbers
<1> HIDE DEF inv
<1>11. PICK g \in Periods : g = upto'
  BY <1>6
<1> QED
  BY <1>1, <1>2, <1>3, <1>7, <1>9, <1>10, <1>11, BeginTaxedRun

LEMMA WalkEndsInv ==
    ASSUME IInv, WalkEnds
    PROVE  IInv'
<1>1. ~Running
  BY DEF WalkEnds, IInv, RunForStage
<1>2. /\ UNCHANGED scenarioVars /\ stage = "walk" /\ period >= MaxPer /\ stage' = "done"
      /\ outcome' = "success" /\ UNCHANGED <<iter, period, upto, year>>
  BY DEF WalkEnds, Conclude
<1>3. period = MaxPer /\ FirstTaxPeriod..MaxPer-1 \subseteq solved /\ period >= 0
  <2>1. ~(period < 0)
    BY <1>2, PeriodNumbers, TargetAssumption DEF IInv, RunnerTypeOK, Walk
  <2> QED BY <1>2, <2>1, TaxedPeriods, PeriodNumbers DEF IInv, WalkSettled
<1>4. ResultsStand(MaxPer - 1) /\ MaxPer - 1 \in Periods
  <2>1. PICK q \in Periods : ResultsStand(q) /\ q >= period - 1
    BY <1>1, <1>2, <1>3 DEF IInv, Between
  <2>2. q = MaxPer - 1
    BY <1>3, <2>1, PeriodNumbers
  <2> QED BY <2>1, <2>2
<1>5. /\ ScenarioInv' /\ ~Running' /\ ResultsStand(MaxPer - 1)'
      /\ hector' = hector /\ solved' = solved
  BY <1>1, <1>2, <1>4, LookOn
<1>6. RunnerTypeOK'
  BY <1>2 DEF IInv, RunnerTypeOK, Stages
<1>7. WalkSettled' /\ Between'
  BY <1>2, <1>3, <1>5 DEF WalkSettled, Between
<1>8. ClimateBetween'
  <2>1. /\ Emitting \subseteq hector.table
        /\ ~hector.failed => hector.lastYear = HectorEnd /\ CurrentTo(hector, HectorEnd)
    BY <1>1, <1>2 DEF IInv, ClimateBetween, PastTheEnd
  <2> QED BY <1>2, <1>5, <2>1 DEF ClimateBetween, Tried, PastTheEnd
<1> QED
  BY <1>5, <1>6, <1>7, <1>8 DEF IInv

LEMMA NextInv ==
    ASSUME IInv, [Next]_vars
    PROVE  IInv'
<1>1. CASE UNCHANGED vars
  <2>1. UNCHANGED scenarioVars /\ UNCHANGED runnerVars
    BY <1>1 DEF vars
  <2>2. /\ stage' = stage /\ iter' = iter /\ period' = period /\ upto' = upto /\ year' = year
        /\ outcome' = outcome /\ valid' = valid /\ unsolved' = unsolved /\ goal' = goal /\ next' = next
        /\ hector' = hector /\ solved' = solved /\ current' = current
    BY <2>1 DEF scenarioVars, runnerVars
  <2>3. ScenarioInv' /\ (Running' <=> Running)
    BY <2>1, LookOn
  <2>4. First' = First /\ Reached' = Reached /\ Last' = Last
    BY <2>2 DEF First, Reached, Last
  <2>5. RunnerTypeOK' /\ WalkSettled' /\ (RunForStage => RunForStage') /\ (Between => Between')
    BY <2>2, <2>4 DEF IInv, RunnerTypeOK, WalkSettled, RunForStage, Between, ResultsStand
  <2>6. (ClimateInRun => ClimateInRun') /\ (ClimateBetween => ClimateBetween')
    BY <2>2, <2>4 DEF ClimateInRun, ClimateBetween, SolvedTo, CurrentTo, Tried, PastTheEnd
  <2> QED BY <2>2, <2>3, <2>5, <2>6 DEF IInv
<1>2. CASE Next
  BY <1>2, ScenarioStepInv, BaselineInv, TargetTooHighInv, StartInitialInv, TrialInv,
     InvalidTrialInv, FoundInitialInv, FoundLaterInv, LimitReachedInv, SolveFutureInv,
     SkipFutureInv, WalkEndsInv DEF Next
<1> QED
  BY <1>1, <1>2

\* The strengthening behind the theorems below: what a run, the walk and the
\* climate model have in common at every step of the target finder.
THEOREM Invariant == Spec => []IInv
<1>1. Init => IInv
  BY InitInv
<1>2. IInv /\ [Next]_vars => IInv'
  BY NextInv
<1> QED
  BY <1>1, <1>2, PTL DEF Spec

-----------------------------------------------------------------------------
(* The theorems *)

\* The target finder and its scenario keep to their types, whatever the
\* solver for the tax tries and however the unsigned start of the walk wraps
\* (PolicyTargetRunner with Scenario::run and HectorModel).
THEOREM TypeCorrect == Spec => []TargetRunnerTypeOK
<1>1. IInv => TargetRunnerTypeOK
  BY DEF IInv, ScenarioInv, RunnerTypeOK, TargetRunnerTypeOK
<1> QED
  BY <1>1, Invariant, PTL

\* Success is reported for one set of results, all made with the taxes that
\* are set (PolicyTargetRunner::runScenarios with Scenario::run).
THEOREM SuccessIsConsistent == Spec => []ResultsMatchTaxes
<1>1. IInv => ResultsMatchTaxes
  BY PeriodNumbers DEF IInv, Between, ResultsStand, ResultsMatchTaxes
<1> QED
  BY <1>1, Invariant, PTL

\* Success is reported only when the taxed periods have all cleared, although
\* each run forgets which periods the one before did not solve.
THEOREM SuccessIsSolved == Spec => []TaxedPeriodsSolved
<1>1. IInv => TaxedPeriodsSolved
  BY DEF IInv, Between, TaxedPeriodsSolved
<1> QED
  BY <1>1, Invariant, PTL

\* The climate reported with success belongs to the emissions of the reported
\* results, unless the core in use has failed (World::runClimateModel with
\* HectorModel::runModel).
THEOREM SuccessHasItsClimate == Spec => []ClimateMatchesResults
<1>1. IInv => ClimateMatchesResults
  BY DEF IInv, ClimateBetween, CurrentTo, ClimateMatchesResults
<1> QED
  BY <1>1, Invariant, PTL

\* No period is calculated on results made with other taxes: a run has
\* calculated or kept all the periods before the next one it calculates.
THEOREM NoStalePredecessor == Spec => PredecessorsCurrent
<1>1. ASSUME IInv, [Next]_vars
      PROVE  [\A p \in Periods :
                 Running /\ next' = p + 1 => \A q \in 0..p-1 : q \in current]_vars
  <2> SUFFICES ASSUME Next, NEW p \in Periods, Running, next' = p + 1
               PROVE  0..p-1 \subseteq current
    BY <1>1
  <2>1. ScenarioStep
    <3>1. ~(Baseline \/ TargetTooHigh \/ StartInitial)
      BY DEF Baseline, TargetTooHigh, StartInitial, BeginRun
    <3>2. ~(Trial \/ InvalidTrial \/ FoundInitial \/ FoundLater \/ LimitReached)
      BY DEF Trial, InvalidTrial, FoundInitial, FoundLater, LimitReached, Found, MayIterate, Searching
    <3>3. ~(SolveFuture \/ SkipFuture \/ WalkEnds)
      BY <1>1, RunNumbers DEF SolveFuture, SkipFuture, WalkEnds, Walking, RunForStage
    <3> QED BY <3>1, <3>2, <3>3 DEF Next
  <2>2. p \in Nat
    BY PeriodNumbers
  <2>3. ASSUME NEW k \in Periods, NEW success \in BOOLEAN, NEW failed \in Failures,
               CalculatePeriod(k, success, failed), UNCHANGED runnerVars
        PROVE  0..p-1 \subseteq current
    <3>1. k = p /\ current = 0..k-1
      <4>1. next' = k + 1 /\ k \in Nat
        BY <2>3, PeriodNumbers DEF CalculatePeriod
      <4> QED BY <2>2, <2>3, <4>1, <1>1, CalculatePeriodBooks
    <3> QED BY <3>1
  <2>4. ASSUME NEW failed \in Failures, EndRun(failed)
        PROVE  0..p-1 \subseteq current
    <3>1. next = p + 1
      BY <2>4 DEF EndRun
    <3>2. Reached = p + 1 /\ current = 0..Reached-1
      BY <1>1, <2>2, <3>1, RunNumbers DEF Reached, RunForStage
    <3> QED BY <2>2, <3>2
  <2> QED BY <2>1, <2>3, <2>4 DEF ScenarioStep, ScenarioNext
<1> QED
  BY <1>1, Invariant, PTL DEF Spec, PredecessorsCurrent

\* What settles the search for the initial tax is a result of the taxes that
\* were found, but for the two cases the property names: periods after the
\* target year may be unsolved, and the core may have failed.
THEOREM AcceptedStatus == Spec => StatusTrusted
<1>1. ASSUME IInv, FoundInitial, stage' = "walk"
      PROVE  \/ hector.conc[year'] = "current"
             \/ hector.failed
             \/ YrToPer(year') \in unsolved /\ period' <= YrToPer(year')
  <2> DEFINE y == year'
             k == YrToPer(y)
  <2>1. /\ ~Running /\ stage = "initial" /\ iter > 0
        /\ y \in StatusYears /\ hector.conc[y] # "nan"
        /\ period' = WalkStart(y) /\ \A p \in unsolved : y < PerToYr(p)
    BY <1>1, FoundInitialStep
  <2>2. y \in FirstTaxYear - 1..EndYear /\ y \in 0..EndYear /\ EndYear \in Nat
    BY <2>1, StatusYearsBounds, LastPeriod
  <2>3. /\ k \in Periods /\ y <= PerToYr(k) /\ PerToYr(k) \in 0..EndYear
        /\ \A q \in Periods : q < k <=> PerToYr(q) < y
    BY <2>2, PeriodOfYear, YearOfPeriod
  <2>4. /\ unsolved \subseteq FirstTaxPeriod..MaxPer-1
        /\ ~hector.failed => \A j \in FirstTaxPeriod..MaxPer-1 :
              SolvedTo(j) => CurrentTo(hector, PerToYr(j))
        /\ ~hector.failed => hector.lastYear = HectorEnd
        /\ NumbersIfSound(hector)
    BY <1>1, <2>1 DEF IInv, Between, ClimateBetween, ScenarioInv
  <2> HIDE DEF y, k
  <2>5. SUFFICES ASSUME ~hector.failed
                 PROVE  hector.conc[y] = "current" \/ (k \in unsolved /\ WalkStart(y) <= k)
    BY <2>1 DEF y, k
  <2>6. y \in FirstTaxYear..EndYear
    <3> SUFFICES ASSUME y = FirstTaxYear - 1 PROVE FALSE
      BY <2>2, TaxedPeriods
    <3>1. \A z \in FirstTaxYear..EndYear : hector.conc[z] # "nan"
      <4>1. \A z \in FirstTaxYear..EndYear : z \in 1..HectorEnd
        BY TaxedPeriods, LastPeriod
      <4> QED BY <2>4, <2>5, <4>1 DEF NumbersIfSound
    <3>2. FirstTaxYear \in {z \in FirstTaxYear..EndYear : hector.conc[z] # "nan"}
      BY <3>1, TaxedPeriods, LastPeriod
    <3>3. y = TargetYear \/ y \in FirstTaxYear..EndYear
      BY <2>1, <3>2 DEF StatusYears
    <3>4. y # TargetYear
      <4>1. FirstTaxYear - 1 \in Years /\ FirstTaxYear - 1 \notin FirstTaxYear..EndYear
        BY TaxedPeriods, LastPeriod DEF Years
      <4> QED BY <4>1, TargetAssumption
    <3> QED BY <3>3, <3>4, TaxedPeriods, LastPeriod
  <2>7. k \in FirstTaxPeriod..MaxPer-1 /\ y >= 1
    <3>1. k >= FirstTaxPeriod
      BY <2>6, TaxedPeriods DEF k
    <3> QED BY <2>3, <2>6, <3>1, TaxedPeriods, PeriodNumbers, LastPeriod
  <2>8. CASE k \in unsolved
    <3>1. y < PerToYr(k)
      BY <2>1, <2>8
    <3>2. PerToYr(k) # y /\ FirstTaxPeriod <= k
      BY <2>2, <2>3, <2>7, <3>1, TaxedPeriods, PeriodNumbers
    <3>3. WalkStart(y) <= k
      BY <2>2, <3>2, WalkStartBounds DEF k
    <3> QED BY <2>8, <3>3
  <2>9. CASE k \notin unsolved
    <3>1. SolvedTo(k)
      <4> SUFFICES ASSUME NEW q \in unsolved PROVE k < q
        BY DEF SolvedTo
      <4>1. q \in Periods /\ q # k /\ ~(q < k)
        <5>1. q \in Periods
          BY <2>4, TaxedPeriods, PeriodNumbers
        <5>2. y < PerToYr(q) /\ PerToYr(q) \in 0..EndYear
          BY <2>1, <5>1, YearOfPeriod
        <5> QED BY <2>2, <2>3, <2>9, <5>1, <5>2
      <4> QED BY <2>3, <4>1, PeriodNumbers
    <3>2. CurrentTo(hector, PerToYr(k))
      BY <2>4, <2>5, <2>7, <3>1
    <3> QED BY <2>2, <2>3, <2>7, <3>2 DEF CurrentTo
  <2> QED BY <2>8, <2>9
<1>2. ASSUME IInv, [Next]_vars
      PROVE  [stage = "initial" /\ stage' = "walk" =>
                 \/ hector.conc[year'] = "current"
                 \/ hector.failed
                 \/ YrToPer(year') \in unsolved /\ period' <= YrToPer(year')]_vars
  <2> SUFFICES ASSUME Next, stage = "initial", stage' = "walk"
               PROVE  \/ hector.conc[year'] = "current"
                      \/ hector.failed
                      \/ YrToPer(year') \in unsolved /\ period' <= YrToPer(year')
    BY <1>2
  <2>1. FoundInitial
    BY DEF Next, ScenarioStep, runnerVars, Baseline, TargetTooHigh, StartInitial, Trial,
           InvalidTrial, FoundLater, LimitReached, SolveFuture, SkipFuture, WalkEnds, Walking, Conclude
  <2> QED BY <1>1, <1>2, <2>1
<1> QED
  BY <1>2, Invariant, PTL DEF Spec, StatusTrusted

\* The walk does not leave the taxed periods, as long as it cannot look back
\* over more periods than there are before the first tax: the unsigned number
\* of its first period would wrap and, as an int, be negative
\* (PolicyTargetRunner::runScenarios).
THEOREM WalkIsTaxed ==
    ASSUME NumBackwardsLook <= FirstTaxPeriod
    PROVE  Spec => []WalkAfterFirstTax
<1>1. Init => WalkAfterFirstTax
  BY DEF Init, WalkAfterFirstTax
<1>2. ASSUME IInv, WalkAfterFirstTax, [Next]_vars
      PROVE  WalkAfterFirstTax'
  <2>1. CASE FoundInitial
    <3>1. CASE stage' = "walk"
      <4>1. year' \in 0..EndYear /\ year' >= FirstTaxYear - 1 /\ period' = WalkStart(year')
        BY <1>2, <2>1, <3>1, FoundInitialStep, StatusYearsBounds, TaxedPeriods, LastPeriod
      <4>2. period' >= FirstTaxPeriod
        BY <4>1, WalkStartBounds
      <4> QED BY <4>2 DEF WalkAfterFirstTax
    <3>2. CASE stage' = "done"
      BY <3>2 DEF WalkAfterFirstTax
    <3> QED BY <1>2, <2>1, <3>1, <3>2, FoundInitialStep
  <2>2. CASE FoundLater
    <3>1. period' \in {period, period + 1} /\ stage \in {"future", "skip"}
      BY <2>2 DEF FoundLater
    <3>2. period >= FirstTaxPeriod /\ period \in Int /\ FirstTaxPeriod \in Nat
      BY <1>2, <3>1, TaxedPeriods, PeriodNumbers, TargetAssumption
      DEF WalkAfterFirstTax, IInv, RunnerTypeOK, Walk
    <3>3. period + 1 >= FirstTaxPeriod
      BY <3>2
    <3> QED BY <3>1, <3>2, <3>3 DEF WalkAfterFirstTax
  <2>3. CASE [Next]_vars /\ ~FoundInitial /\ ~FoundLater
    <3>1. period' = period
      BY <2>3 DEF Next, vars, ScenarioStep, runnerVars, Baseline, TargetTooHigh, StartInitial, Trial,
             InvalidTrial, LimitReached, SolveFuture, SkipFuture, WalkEnds
    <3>2. stage' \in {"walk", "future", "skip"} => stage \in {"walk", "future", "skip"}
      BY <2>3 DEF Next, vars, ScenarioStep, runnerVars, Baseline, TargetTooHigh, StartInitial, Trial,
             InvalidTrial, LimitReached, SolveFuture, SkipFuture, WalkEnds, Walking, Conclude
    <3> QED BY <1>2, <3>1, <3>2 DEF WalkAfterFirstTax
  <2> QED BY <1>2, <2>1, <2>2, <2>3
<1> QED
  BY <1>1, <1>2, Invariant, PTL DEF Spec

=============================================================================
