-------------------------- MODULE Scenario_proofs --------------------------
(***************************************************************************)
(* What the proofs about modules that run a Scenario need: the arithmetic  *)
(* of periods and years, and the types of a scenario and its climate       *)
(* model.                                                                  *)
(***************************************************************************)
EXTENDS Scenario, WellFoundedInduction, TLAPS

-----------------------------------------------------------------------------
(* Sets of integers *)

\* Every set of natural numbers that is not empty has a smallest one, which is
\* what the inductions below go by.
LEMMA LeastNumber ==
    ASSUME NEW T \in SUBSET Nat, T # {}
    PROVE  \E m \in T : \A n \in T : m <= n
<1>1. IsWellFoundedOn(OpToRel(<, Nat), Nat)
  BY NatLessThanWellFounded
<1>2. PICK m \in T : \A n \in T : <<n, m>> \notin OpToRel(<, Nat)
  BY <1>1, WFMin, Zenon
<1>3. \A n \in T : ~(n < m)
  BY <1>2 DEF OpToRel
<1>4. \A n \in T : m <= n
  BY <1>3
<1> QED
  BY <1>4

LEMMA MinIs ==
    ASSUME NEW S, S \subseteq Int, NEW m \in S, \A n \in S : m <= n
    PROVE  Min(S) = m
<1>1. \A n \in S : (\A k \in S : n <= k) => n = m
  OBVIOUS
<1> QED
  BY <1>1 DEF Min

LEMMA MaxIs ==
    ASSUME NEW S, S \subseteq Int, NEW m \in S, \A n \in S : m >= n
    PROVE  Max(S) = m
<1>1. \A n \in S : (\A k \in S : n >= k) => n = m
  OBVIOUS
<1> QED
  BY <1>1 DEF Max

-----------------------------------------------------------------------------
(* Periods and years *)

LEMMA ProductMonotonic ==
    ASSUME NEW m \in Int, NEW n \in Int, NEW s \in Nat \ {0}
    PROVE  /\ m <= n => m * s <= n * s
           /\ m < n => m * s < n * s
           /\ m * s \in Int /\ (m \in Nat => m * s \in Nat)
OBVIOUS

LEMMA DivisionBounds ==
    ASSUME NEW n \in Nat, NEW s \in Nat \ {0}
    PROVE  /\ n \div s \in Nat
           /\ (n \div s) * s <= n /\ n < (n \div s) * s + s
OBVIOUS

\* The year of a period.
LEMMA YearOfPeriod ==
    ASSUME NEW p \in Periods
    PROVE  /\ p \in Nat /\ PerToYr(p) = p * Step
           /\ PerToYr(p) \in 0..EndYear /\ PerToYr(p) \in Years
           /\ PerToYr(p) <= HectorEnd
<1>1. p \in Nat /\ p <= MaxPer - 1 /\ MaxPer - 1 \in Nat
  BY TimeAssumption DEF Periods
<1>2. p * Step <= (MaxPer - 1) * Step /\ p * Step \in Nat /\ EndYear \in Nat
  BY <1>1, TimeAssumption, ProductMonotonic DEF EndYear
<1>3. EndYear <= HectorEnd /\ HectorEnd \in Nat
  BY TimeAssumption
<1> QED
  BY <1>1, <1>2, <1>3 DEF PerToYr, EndYear, Years

\* The last period is the one of the last year.
LEMMA LastPeriod ==
    /\ MaxPer - 1 \in Periods /\ PerToYr(MaxPer - 1) = EndYear
    /\ EndYear \in Nat /\ EndYear >= 1 /\ EndYear <= HectorEnd /\ HectorEnd \in Nat
<1>1. MaxPer - 1 \in Periods /\ MaxPer - 1 \in Nat /\ MaxPer - 1 >= 1
  BY TimeAssumption DEF Periods
<1>2. EndYear >= 1 * Step
  BY <1>1, TimeAssumption, ProductMonotonic DEF EndYear
<1> QED
  BY <1>1, <1>2, TimeAssumption DEF PerToYr, EndYear

\* Later periods have later years.
LEMMA PeriodOrder ==
    ASSUME NEW p \in Periods, NEW q \in Periods
    PROVE  /\ p <= q <=> PerToYr(p) <= PerToYr(q)
           /\ p < q <=> PerToYr(p) < PerToYr(q)
<1>1. /\ p \in Nat /\ q \in Nat
      /\ PerToYr(p) = p * Step /\ PerToYr(q) = q * Step
  BY YearOfPeriod
<1>2. /\ p <= q => p * Step <= q * Step
      /\ p < q => p * Step < q * Step
      /\ q < p => q * Step < p * Step
      /\ p * Step \in Int /\ q * Step \in Int
  BY <1>1, TimeAssumption, ProductMonotonic
<1> QED
  BY <1>1, <1>2

\* The period of a year is the first that does not end before it.
LEMMA PeriodOfYear ==
    ASSUME NEW y \in 0..EndYear
    PROVE  /\ YrToPer(y) \in Periods
           /\ y <= PerToYr(YrToPer(y))
           /\ \A q \in Periods : q < YrToPer(y) <=> PerToYr(q) < y
<1> DEFINE k == YrToPer(y)
<1>1. y \in Nat /\ EndYear \in Nat /\ Step \in Nat \ {0} /\ MaxPer \in Nat
  BY LastPeriod, TimeAssumption
<1>2. k = (y + Step - 1) \div Step /\ y + Step - 1 \in Nat
  BY <1>1 DEF YrToPer
<1>3. k \in Nat /\ k * Step <= y + Step - 1 /\ y + Step - 1 < k * Step + Step
  BY <1>1, <1>2, DivisionBounds
<1> HIDE DEF k
<1>4. k * Step \in Int /\ y <= k * Step /\ k * Step <= y + Step - 1
  BY <1>1, <1>3, ProductMonotonic
<1>5. k <= MaxPer - 1
  <2> SUFFICES ASSUME MaxPer <= k PROVE FALSE
    BY <1>1, <1>3
  <2>1. MaxPer * Step <= k * Step
    BY <1>1, <1>3, ProductMonotonic
  <2>2. MaxPer * Step = EndYear + Step
    BY <1>1 DEF EndYear
  <2> QED BY <2>2, <1>1, <1>4, <2>1
<1>6. k \in Periods /\ PerToYr(k) = k * Step
  BY <1>3, <1>5, YearOfPeriod DEF Periods
<1>7. ASSUME NEW q \in Periods PROVE q < k <=> PerToYr(q) < y
  <2>1. q \in Nat /\ PerToYr(q) = q * Step /\ q * Step \in Int
    BY YearOfPeriod, ProductMonotonic, <1>1
  <2>2. CASE q < k
    <3>1. (q + 1) * Step <= k * Step /\ (q + 1) * Step = q * Step + Step
      BY <1>1, <1>3, <2>1, <2>2, ProductMonotonic
    <3> QED BY <1>1, <1>4, <2>1, <2>2, <3>1
  <2>3. CASE k <= q
    <3>1. k * Step <= q * Step
      BY <1>1, <1>3, <2>1, <2>3, ProductMonotonic
    <3> QED BY <1>1, <1>3, <1>4, <2>1, <2>3, <3>1
  <2> QED BY <1>3, <2>1, <2>2, <2>3
<1> QED
  BY <1>4, <1>6, <1>7 DEF k

\* YrToPer is the inverse of PerToYr.
LEMMA PeriodOfItsYear ==
    ASSUME NEW p \in Periods
    PROVE  YrToPer(PerToYr(p)) = p
<1> DEFINE k == YrToPer(PerToYr(p))
<1>1. PerToYr(p) \in 0..EndYear /\ p \in Nat
  BY YearOfPeriod
<1>2. k \in Periods /\ PerToYr(p) <= PerToYr(k) /\ ~(p < k)
  BY <1>1, PeriodOfYear
<1> HIDE DEF k
<1>3. p <= k /\ k \in Nat
  BY <1>2, PeriodOrder, YearOfPeriod
<1> QED
  BY <1>1, <1>2, <1>3 DEF k

\* The year before any period.
LEMMA YearBefore ==
    ASSUME NEW p \in Periods
    PROVE  /\ PerToYr(p - 1) \in 0..EndYear
           /\ p > 0 => p - 1 \in Periods
           /\ p = 0 => PerToYr(p - 1) = 0
<1>1. p \in Nat /\ p <= MaxPer - 1
  BY TimeAssumption DEF Periods
<1>2. CASE p = 0
  <2>1. -1 \notin Periods
    BY DEF Periods
  <2> QED BY <1>2, <2>1, LastPeriod DEF PerToYr
<1>3. CASE p > 0
  <2>1. p - 1 \in Periods
    BY <1>1, <1>3, TimeAssumption DEF Periods
  <2> QED BY <1>3, <2>1, YearOfPeriod
<1> QED
  BY <1>1, <1>2, <1>3

-----------------------------------------------------------------------------
(* The climate model *)

\* The periods whose emissions are GCAM's.
Emitting == {p \in Periods : ~Historical(p)}

\* What a year of the core depends on are emissions of GCAM up to its period.
LEMMA DriversEmit ==
    ASSUME NEW y \in Nat
    PROVE  /\ Drivers(y) \subseteq Emitting
           /\ \A p \in Periods : y <= PerToYr(p) => \A q \in Drivers(y) : q <= p
<1> DEFINE d == IF y > EndYear THEN MaxPer - 1 ELSE YrToPer(y)
<1>1. d \in Periods
  BY LastPeriod, PeriodOfYear
<1>2. d \in Nat /\ (d = 0 \/ d - 1 \in Periods)
  <2> HIDE DEF d
  <2>1. d \in Nat /\ (d > 0 => d - 1 \in Periods)
    BY <1>1, YearOfPeriod, YearBefore
  <2> QED BY <2>1
<1>3. Historical(-1)
  <2>1. -1 \notin Periods
    BY DEF Periods
  <2> QED BY <2>1, TimeAssumption DEF Historical, PerToYr
<1>4. ASSUME NEW p \in Periods, y <= PerToYr(p) PROVE d <= p
  <2>1. y \in 0..EndYear /\ ~(y > EndYear) /\ p \in Nat
    BY <1>4, YearOfPeriod, LastPeriod
  <2>2. ~(p < YrToPer(y))
    BY <1>4, <2>1, PeriodOfYear, YearOfPeriod
  <2> QED BY <1>2, <2>1, <2>2
<1>5. Drivers(y) = {q \in {d - 1, d} : ~Historical(q)}
  BY DEF Drivers
<1> HIDE DEF d
<1>6. Drivers(y) \subseteq Emitting
  BY <1>1, <1>2, <1>3, <1>5 DEF Emitting
<1>7. ASSUME NEW p \in Periods, y <= PerToYr(p), NEW q \in Drivers(y) PROVE q <= p
  BY <1>2, <1>4, <1>5, <1>7, YearOfPeriod
<1> QED
  BY <1>6, <1>7

\* New results of a period outdate only what comes after the period before.
LEMMA NewResultsEffect ==
    ASSUME NEW h \in Hector, NEW p \in Periods
    PROVE  LET n == NewResults(h, p) IN
           /\ n \in Hector
           /\ n.lastYear = h.lastYear /\ n.failed = h.failed
           /\ \A q \in Periods : q # p => /\ q \in h.table => q \in n.table
                                          /\ q \in h.core => q \in n.core
                                          /\ q \in h.luc => q \in n.luc
           /\ h.sound /\ h.lastYear <= PerToYr(p - 1) => n.sound
           /\ \A y \in Years : /\ n.conc[y] = "nan" <=> h.conc[y] = "nan"
                               /\ y <= PerToYr(p - 1) => n.conc[y] = h.conc[y]
<1> DEFINE conc == [y \in Years |-> IF y > PerToYr(p - 1) /\ h.conc[y] = "current"
                                   THEN "outdated" ELSE h.conc[y]]
<1>1. PerToYr(p - 1) \in 0..EndYear /\ Years = 0..HectorEnd /\ HectorEnd \in Nat /\ EndYear \in Nat
  BY YearBefore, LastPeriod DEF Years
<1>2. /\ h.lastYear \in Years /\ h.table \in SUBSET Periods /\ h.core \in SUBSET Periods
      /\ h.luc \in SUBSET Periods /\ h.sound \in BOOLEAN /\ h.failed \in BOOLEAN
      /\ h.conc \in [Years -> {"current", "outdated", "nan"}]
  BY DEF Hector
<1>3. /\ conc \in [Years -> {"current", "outdated", "nan"}]
      /\ \A y \in Years : /\ conc[y] = "nan" <=> h.conc[y] = "nan"
                          /\ y <= PerToYr(p - 1) => conc[y] = h.conc[y]
  BY <1>1, <1>2
<1>4. CASE Historical(p)
  BY <1>4 DEF NewResults
<1>5. CASE ~Historical(p)
  <2> DEFINE n == NewResults(h, p)
             sound == h.sound /\ h.lastYear <= PerToYr(p - 1)
  <2>1. n = [h EXCEPT !.table = @ \ {p}, !.core = @ \ {p}, !.luc = @ \ {p},
                      !.sound = sound, !.conc = conc]
    BY <1>5 DEF NewResults
  <2>4. sound \in BOOLEAN
    OBVIOUS
  <2> HIDE DEF conc, sound, n
  <2>2. /\ n.lastYear = h.lastYear /\ n.failed = h.failed
        /\ n.table = h.table \ {p} /\ n.core = h.core \ {p} /\ n.luc = h.luc \ {p}
        /\ n.sound = sound /\ n.conc = conc
        /\ n \in Hector
    BY <1>2, <1>3, <2>1, <2>4 DEF Hector
  <2> QED BY <1>3, <2>2 DEF n, sound
<1> QED
  BY <1>4, <1>5

\* Emissions that are set are known to the model and its core.
LEMMA SetEmissionsEffect ==
    ASSUME NEW h \in Hector, NEW p \in Periods
    PROVE  LET s == SetEmissions(h, p) IN
           /\ s \in Hector
           /\ s.lastYear = h.lastYear /\ s.failed = h.failed
           /\ s.sound = h.sound /\ s.conc = h.conc
           /\ h.table \subseteq s.table /\ h.core \subseteq s.core /\ h.luc \subseteq s.luc
           /\ p \in Emitting => p \in s.table /\ p \in s.core /\ p \in s.luc
<1>1. CASE Historical(p)
  BY <1>1 DEF SetEmissions, Emitting
<1>2. CASE ~Historical(p)
  BY <1>2 DEF SetEmissions, Hector
<1> QED
  BY <1>1, <1>2

\* A new core has the stored emissions up to a period.
LEMMA ResetEffect ==
    ASSUME NEW h \in Hector, NEW p \in Nat
    PROVE  LET r == Reset(h, p) IN
           /\ r \in Hector
           /\ r.lastYear = 0 /\ ~r.failed /\ r.sound
           /\ r.conc = h.conc /\ r.table = h.table
           /\ p \in Periods => \A q \in h.table : q <= p => q \in r.core /\ q \in r.luc
<1> DEFINE r == Reset(h, p)
<1>1. /\ h.table \in SUBSET Periods /\ 0 \in Years
  BY LastPeriod DEF Hector, Years
<1>2. /\ r \in Hector
      /\ r.lastYear = 0 /\ ~r.failed /\ r.sound
      /\ r.conc = h.conc /\ r.table = h.table
      /\ r.core = {q \in h.table : q <= p}
      /\ r.luc = {q \in h.table : PerToYr(q) <= PerToYr(p)}
  BY <1>1 DEF Reset, Hector
<1> HIDE DEF r
<1>3. ASSUME p \in Periods, NEW q \in h.table, q <= p PROVE q \in r.core /\ q \in r.luc
  BY <1>1, <1>2, <1>3, PeriodOrder
<1> QED
  BY <1>2, <1>3 DEF r

\* A year in which no core fails, and the years in which one may.
LEMMA FailuresType == Failures \subseteq Nat
BY TimeAssumption, LastPeriod DEF Failures, NoFailure, Years

\* The core is run year by year.
LEMMA RunYearsEffect ==
    ASSUME NEW h \in Hector, NEW year \in Years, h.lastYear < year, NEW failed \in Failures
    PROVE  LET r == RunYears(h, year, failed) IN
           /\ r \in Hector
           /\ r.table = h.table /\ r.core = h.core /\ r.luc = h.luc
           /\ r.lastYear <= year
           /\ ~r.failed => ~h.failed /\ r.lastYear = year
           /\ \A y \in Years : y <= h.lastYear => r.conc[y] = h.conc[y]
           /\ ~r.failed => \A y \in h.lastYear + 1..year : r.conc[y] # "nan"
           /\ ~r.failed /\ h.sound /\ (\A y \in h.lastYear + 1..year : Drivers(y) \subseteq h.core \cap h.luc)
              => r.sound /\ \A y \in h.lastYear + 1..year : r.conc[y] = "current"
<1> DEFINE ran == (h.lastYear + 1)..year
           Driven(y) == Drivers(y) \subseteq h.core \cap h.luc
           SoundTo(y) == h.sound /\ \A z \in (h.lastYear + 1)..y : Driven(z)
           conc == [y \in Years |->
                      CASE y \notin ran -> h.conc[y]
                        [] y \in ran /\ failed \in ran /\ y >= failed -> "nan"
                        [] OTHER -> IF SoundTo(y) THEN "current" ELSE "outdated"]
           last == IF failed \in ran THEN failed - 1 ELSE year
           r == RunYears(h, year, failed)
<1>1. /\ h.lastYear \in Nat /\ year \in Nat /\ HectorEnd \in Nat /\ year <= HectorEnd
      /\ h.conc \in [Years -> {"current", "outdated", "nan"}]
      /\ h.table \in SUBSET Periods /\ h.core \in SUBSET Periods
      /\ h.luc \in SUBSET Periods /\ h.sound \in BOOLEAN /\ h.failed \in BOOLEAN
      /\ failed \in Nat /\ Years = 0..HectorEnd
  BY LastPeriod, FailuresType DEF Hector, Years
<1>2. r = [h EXCEPT !.lastYear = last, !.sound = SoundTo(year) /\ failed \notin ran,
                    !.failed = @ \/ failed \in ran, !.conc = conc]
  BY DEF RunYears
<1>3. last \in Years /\ last <= year /\ (failed \notin ran => last = year)
  BY <1>1
<1> HIDE DEF Driven
<1>4. \A y \in Years :
         /\ conc[y] \in {"current", "outdated", "nan"}
         /\ y <= h.lastYear => conc[y] = h.conc[y]
         /\ failed \notin ran /\ y \in ran => conc[y] = IF SoundTo(y) THEN "current" ELSE "outdated"
  <2> TAKE y \in Years
  <2> DEFINE s == SoundTo(y)
  <2>1. conc[y] = CASE y \notin ran -> h.conc[y]
                    [] y \in ran /\ failed \in ran /\ y >= failed -> "nan"
                    [] OTHER -> IF s THEN "current" ELSE "outdated"
    OBVIOUS
  <2> HIDE DEF s, conc
  <2>2. h.conc[y] \in {"current", "outdated", "nan"} /\ (y <= h.lastYear => y \notin ran)
    BY <1>1
  <2>3. CASE y \notin ran
    BY <2>1, <2>2, <2>3
  <2>4. CASE y \in ran /\ failed \in ran /\ y >= failed
    BY <2>1, <2>2, <2>4
  <2>5. CASE y \in ran /\ ~(failed \in ran /\ y >= failed)
    <3>1. conc[y] = IF s THEN "current" ELSE "outdated"
      BY <2>1, <2>5
    <3> QED BY <2>2, <2>5, <3>1 DEF s
  <2> QED BY <2>3, <2>4, <2>5
<1>5. conc \in [Years -> {"current", "outdated", "nan"}]
  BY <1>4
<1> DEFINE sound == SoundTo(year) /\ failed \notin ran
<1>6. /\ r \in Hector
      /\ r.table = h.table /\ r.core = h.core /\ r.luc = h.luc
      /\ r.lastYear = last /\ r.conc = conc
      /\ r.failed = (h.failed \/ failed \in ran)
      /\ r.sound = sound
  <2>1. sound \in BOOLEAN /\ (h.failed \/ failed \in ran) \in BOOLEAN
    OBVIOUS
  <2> HIDE DEF conc, last, sound
  <2>2. r = [h EXCEPT !.lastYear = last, !.sound = sound,
                    !.failed = @ \/ failed \in ran, !.conc = conc]
    BY <1>2 DEF sound
  <2> HIDE DEF r, ran
  <2> QED BY <1>1, <1>3, <1>5, <2>1, <2>2 DEF Hector
<1>7. ran \subseteq Years /\ \A y \in ran : (h.lastYear + 1)..y \subseteq ran
  BY <1>1
<1>8. ASSUME ~r.failed, h.sound, \A y \in ran : Driven(y)
      PROVE  r.sound /\ \A y \in ran : r.conc[y] = "current"
  <2>1. failed \notin ran
    BY <1>6, <1>8
  <2>2. \A y \in ran : SoundTo(y)
    BY <1>7, <1>8
  <2>3. \A y \in ran : conc[y] = "current"
    BY <1>4, <1>7, <2>1, <2>2
  <2>4. SoundTo(year)
    BY <1>8
  <2> QED BY <1>6, <2>1, <2>3, <2>4
<1>9. ASSUME ~r.failed PROVE \A y \in ran : r.conc[y] # "nan"
  <2>1. failed \notin ran
    BY <1>6, <1>9
  <2> HIDE DEF conc, SoundTo
  <2>2. \A y \in ran : conc[y] \in {"current", "outdated"}
    BY <1>4, <1>7, <2>1
  <2> QED BY <1>6, <2>2
<1> HIDE DEF r, ran, conc, last, sound
<1>10. /\ r.lastYear <= year
       /\ ~r.failed => ~h.failed /\ r.lastYear = year
       /\ \A y \in Years : y <= h.lastYear => r.conc[y] = h.conc[y]
  BY <1>3, <1>4, <1>6
<1> QED
  BY <1>6, <1>8, <1>9, <1>10 DEF Driven, ran, r

-----------------------------------------------------------------------------
(* A run of the climate model *)

\* The results up to a year belong to the emissions the periods have now.
CurrentTo(h, y) == \A z \in 1..y : h.conc[z] = "current"

\* A core that has not failed has a number for every year it went through.
NumbersIfSound(h) == ~h.failed => \A y \in 1..h.lastYear : h.conc[y] # "nan"

\* The emissions of GCAM before a period.
EmittingBefore(p) == {q \in Emitting : q < p}

\* A period after the first one has a year of its own, and a new core that
\* is run to that year is sent the emissions up to the period.
LEMMA ResetForPeriod ==
    ASSUME NEW p \in Periods, p > 0
    PROVE  ResetPeriod(PerToYr(p)) = p /\ PerToYr(p - 1) < PerToYr(p) /\ PerToYr(p) >= 1
<1>1. /\ p \in Nat /\ PerToYr(p) \in 0..EndYear /\ EndYear \in Nat
      /\ p - 1 \in Periods /\ p - 1 < p /\ PerToYr(p - 1) \in 0..EndYear
  BY YearOfPeriod, YearBefore, LastPeriod
<1>2. PerToYr(p - 1) < PerToYr(p)
  BY <1>1, PeriodOrder
<1>3. 1 \in Periods
  BY <1>1, TimeAssumption DEF Periods
<1>4. PerToYr(p) <= PerToYr(1) => p = 1
  <2>1. PerToYr(p) <= PerToYr(1) <=> p <= 1
    BY <1>3, PeriodOrder
  <2> QED BY <1>1, <2>1
<1>5. ~(PerToYr(p) > EndYear)
  BY <1>1
<1>6. ResetPeriod(PerToYr(p)) = p
  BY <1>4, <1>5, PeriodOfItsYear DEF ResetPeriod
<1> QED
  BY <1>1, <1>2, <1>6

\* What a period that solved does to the climate model: it runs on to the
\* year of the period, on a new core if that year has been passed.
LEMMA PeriodRunEffect ==
    ASSUME NEW h \in Hector, NEW p \in Periods, p > 0, NEW failed \in Failures,
           NumbersIfSound(h)
    PROVE  LET r == RunClimatePeriod(NewResults(h, p), p, failed) IN
           /\ r \in Hector /\ NumbersIfSound(r)
           /\ h.table \subseteq r.table /\ (p \in Emitting => p \in r.table)
           /\ r.lastYear <= PerToYr(p)
           /\ ~r.failed => r.lastYear = PerToYr(p)
           /\ PerToYr(p) <= h.lastYear /\ ~r.failed /\ EmittingBefore(p) \subseteq h.table
              => r.sound /\ EmittingBefore(p + 1) \subseteq r.core \cap r.luc
                         /\ CurrentTo(r, PerToYr(p))
           /\ h.lastYear < PerToYr(p) /\ ~r.failed
              => ~h.failed /\ \A y \in Years : y <= h.lastYear /\ y <= PerToYr(p - 1)
                                               => r.conc[y] = h.conc[y]
           /\ /\ h.lastYear = PerToYr(p - 1) /\ h.sound /\ ~r.failed
              /\ EmittingBefore(p) \subseteq h.core \cap h.luc
              => r.sound /\ EmittingBefore(p + 1) \subseteq r.core \cap r.luc
                 /\ \A y \in PerToYr(p - 1) + 1..PerToYr(p) : r.conc[y] = "current"
<1> DEFINE n == NewResults(h, p)
           s == SetEmissions(n, p)
           e == Reset(s, p)
           r == RunClimatePeriod(n, p, failed)
           year == PerToYr(p)
           before == PerToYr(p - 1)
<1>1. /\ p \in Nat /\ year \in Years /\ year \in Nat /\ before \in Nat /\ before < year /\ year >= 1
      /\ Years = 0..HectorEnd /\ HectorEnd \in Nat /\ year <= EndYear /\ EndYear \in Nat
  BY ResetForPeriod, YearOfPeriod, YearBefore, LastPeriod DEF Years
<1>2. r = RunYears(IF year <= s.lastYear THEN e ELSE s, year, failed)
  BY ResetForPeriod DEF RunClimatePeriod, RunModel
<1>3. /\ n \in Hector
      /\ n.lastYear = h.lastYear /\ n.failed = h.failed
      /\ \A q \in Periods : q # p => /\ q \in h.table => q \in n.table
                                     /\ q \in h.core => q \in n.core
                                     /\ q \in h.luc => q \in n.luc
      /\ h.sound /\ h.lastYear <= before => n.sound
      /\ \A y \in Years : /\ n.conc[y] = "nan" <=> h.conc[y] = "nan"
                          /\ y <= before => n.conc[y] = h.conc[y]
  BY NewResultsEffect
<1>3a. Historical(p) => n = h
  BY DEF NewResults
<1> HIDE DEF n
<1>3b. \A q \in Periods : q # p => /\ q \in h.table => q \in n.table
                                   /\ q \in h.core => q \in n.core
                                   /\ q \in h.luc => q \in n.luc
  BY <1>3
<1>3c. \A y \in Years : /\ n.conc[y] = "nan" <=> h.conc[y] = "nan"
                        /\ y <= before => n.conc[y] = h.conc[y]
  BY <1>3
<1>3d. n.lastYear = h.lastYear /\ (n.failed <=> h.failed) /\ (h.sound /\ h.lastYear <= before => n.sound)
  BY <1>3
<1>4. /\ s \in Hector
      /\ s.lastYear = n.lastYear /\ s.failed = n.failed
      /\ s.sound = n.sound /\ s.conc = n.conc
      /\ n.table \subseteq s.table /\ n.core \subseteq s.core /\ n.luc \subseteq s.luc
      /\ p \in Emitting => p \in s.table /\ p \in s.core /\ p \in s.luc
  BY <1>3, SetEmissionsEffect
<1> HIDE DEF s
<1>4b. \A q : /\ q \in n.table => q \in s.table
              /\ q \in n.core => q \in s.core
              /\ q \in n.luc => q \in s.luc
  BY <1>4
<1>4c. /\ s.lastYear = h.lastYear /\ (s.failed <=> h.failed) /\ s.conc = n.conc
       /\ h.sound /\ h.lastYear <= before => s.sound
  BY <1>3d, <1>4
<1>4d. p \in Emitting => p \in s.table /\ p \in s.core /\ p \in s.luc
  BY <1>4
<1>5. /\ e \in Hector
      /\ e.lastYear = 0 /\ ~e.failed /\ e.sound
      /\ e.conc = s.conc /\ e.table = s.table
      /\ \A q \in s.table : q <= p => q \in e.core /\ q \in e.luc
  BY <1>1, <1>4, ResetEffect
<1> HIDE DEF e, r, year, before
<1>6. /\ h.lastYear \in 0..HectorEnd /\ h.table \in SUBSET Periods
      /\ h.core \in SUBSET Periods /\ h.luc \in SUBSET Periods
  BY <1>1 DEF Hector
<1>7. h.table \subseteq s.table
  <2> SUFFICES ASSUME NEW q \in h.table PROVE q \in s.table
    OBVIOUS
  <2>1. CASE q # p
    BY <1>3b, <1>4b, <1>6, <2>1
  <2>2. CASE q = p /\ Historical(p)
    <3>1. n = h
      BY <1>3a, <2>2
    <3>2. q \in n.table
      BY <3>1
    <3>3. q \in n.table => q \in s.table
      BY <1>4b
    <3> QED BY <3>2, <3>3
  <2>3. CASE q = p /\ ~Historical(p)
    BY <1>4d, <2>3 DEF Emitting
  <2> QED BY <2>1, <2>2, <2>3
<1>8. EmittingBefore(p) \subseteq Periods /\ EmittingBefore(p + 1) \subseteq EmittingBefore(p) \cup ({p} \cap Emitting)
  <2>1. \A q \in Emitting : q \in Periods /\ q \in Nat
    BY YearOfPeriod DEF Emitting
  <2> QED BY <1>1, <2>1 DEF EmittingBefore
<1>9. \A y \in Nat : y <= year => Drivers(y) \subseteq EmittingBefore(p + 1)
  <2> SUFFICES ASSUME NEW y \in Nat, y <= year, NEW q \in Drivers(y)
               PROVE  q \in Emitting /\ q < p + 1
    BY DEF EmittingBefore
  <2>1. q \in Emitting /\ q <= p
    BY DriversEmit DEF year
  <2>2. q \in Nat
    BY <2>1, YearOfPeriod DEF Emitting
  <2> QED BY <1>1, <2>1, <2>2
<1>10. CASE year <= h.lastYear
  <2>1. r = RunYears(e, year, failed)
    BY <1>2, <1>4c, <1>10
  <2>2. e.lastYear < year
    BY <1>1, <1>5
  <2>3. /\ r \in Hector
        /\ r.table = e.table /\ r.core = e.core /\ r.luc = e.luc
        /\ r.lastYear <= year
        /\ ~r.failed => r.lastYear = year
        /\ ~r.failed => \A y \in 0 + 1..year : r.conc[y] # "nan"
        /\ ~r.failed /\ e.sound /\ (\A y \in 0 + 1..year : Drivers(y) \subseteq e.core \cap e.luc)
           => r.sound /\ \A y \in 0 + 1..year : r.conc[y] = "current"
    <3> HIDE DEF NumbersIfSound
    <3> QED BY <1>1, <1>5, <2>1, <2>2, RunYearsEffect
  <2>4. NumbersIfSound(r)
    BY <2>3 DEF NumbersIfSound
  <2>5. ASSUME ~r.failed, EmittingBefore(p) \subseteq h.table
        PROVE  r.sound /\ EmittingBefore(p + 1) \subseteq r.core \cap r.luc /\ CurrentTo(r, year)
    <3>1. \A q \in EmittingBefore(p + 1) : q <= p /\ q \in s.table
      <4> TAKE q \in EmittingBefore(p + 1)
      <4>1. q \in EmittingBefore(p) \/ (q = p /\ p \in Emitting)
        BY <1>8
      <4>2. q \in EmittingBefore(p) => q \in Nat /\ q < p
        BY <1>8, YearOfPeriod DEF EmittingBefore
      <4>3. q \in s.table
        BY <1>4d, <1>7, <2>5, <4>1
      <4> QED BY <1>1, <4>1, <4>2, <4>3
    <3>2. EmittingBefore(p + 1) \subseteq e.core \cap e.luc
      BY <1>5, <3>1
    <3>3. \A y \in 0 + 1..year : Drivers(y) \subseteq e.core \cap e.luc
      BY <1>1, <1>9, <3>2
    <3> QED BY <1>5, <2>3, <2>5, <3>2, <3>3 DEF CurrentTo
  <2>6. ~(h.lastYear < year) /\ ~(h.lastYear = before)
    BY <1>1, <1>6, <1>10
  <2> QED BY <1>4, <1>5, <1>7, <2>3, <2>4, <2>5, <2>6 DEF r, n, year, before
<1>11. CASE h.lastYear < year
  <2>1. r = RunYears(s, year, failed) /\ s.lastYear < year
    BY <1>1, <1>2, <1>4c, <1>6, <1>11
  <2>2. /\ r \in Hector
        /\ r.table = s.table /\ r.core = s.core /\ r.luc = s.luc
        /\ r.lastYear <= year
        /\ ~r.failed => ~s.failed /\ r.lastYear = year
        /\ \A y \in Years : y <= s.lastYear => r.conc[y] = s.conc[y]
        /\ ~r.failed => \A y \in s.lastYear + 1..year : r.conc[y] # "nan"
        /\ ~r.failed /\ s.sound /\ (\A y \in s.lastYear + 1..year : Drivers(y) \subseteq s.core \cap s.luc)
           => r.sound /\ \A y \in s.lastYear + 1..year : r.conc[y] = "current"
    BY <1>1, <1>4, <2>1, RunYearsEffect
  <2>3. ASSUME ~r.failed PROVE \A y \in 1..r.lastYear : r.conc[y] # "nan"
    <3> TAKE y \in 1..r.lastYear
    <3>1. y \in Years /\ y >= 1 /\ y \in Nat /\ r.lastYear = year
      BY <1>1, <2>2, <2>3
    <3>2. CASE y <= h.lastYear
      <4>1. h.conc[y] # "nan"
        BY <1>4c, <1>6, <2>2, <2>3, <3>1, <3>2 DEF NumbersIfSound
      <4>2. r.conc[y] = n.conc[y]
        BY <1>4c, <2>2, <3>1, <3>2
      <4> QED BY <1>3c, <3>1, <4>1, <4>2
    <3>3. CASE ~(y <= h.lastYear)
      <4>1. y \in s.lastYear + 1..year
        BY <1>1, <1>4c, <1>6, <3>1, <3>3
      <4> QED BY <2>2, <2>3, <4>1
    <3> QED BY <3>2, <3>3
  <2>4. ASSUME ~r.failed
        PROVE  ~h.failed /\ \A y \in Years : y <= h.lastYear /\ y <= before => r.conc[y] = h.conc[y]
    BY <1>3c, <1>4c, <2>2, <2>4
  <2>5. ASSUME h.lastYear = before, h.sound, ~r.failed, EmittingBefore(p) \subseteq h.core \cap h.luc
        PROVE  r.sound /\ EmittingBefore(p + 1) \subseteq r.core \cap r.luc
               /\ \A y \in before + 1..year : r.conc[y] = "current"
    <3>1. s.sound /\ s.lastYear = before
      BY <1>1, <1>4c, <2>5
    <3>2. \A q \in EmittingBefore(p + 1) : q \in s.core /\ q \in s.luc
      <4> TAKE q \in EmittingBefore(p + 1)
      <4>1. CASE q \in EmittingBefore(p)
        <5>1. q # p /\ q \in Periods
          BY <1>1, <1>8, <4>1 DEF EmittingBefore
        <5> QED BY <1>3b, <1>4b, <2>5, <4>1, <5>1
      <4>2. CASE q \in {p} \cap Emitting
        BY <1>4d, <4>2
      <4> QED BY <1>8, <4>1, <4>2
    <3>3. \A y \in before + 1..year : Drivers(y) \subseteq s.core \cap s.luc
      BY <1>1, <1>9, <3>2
    <3> QED BY <2>2, <2>5, <3>1, <3>2, <3>3
  <2>6. ~(year <= h.lastYear)
    BY <1>1, <1>6, <1>11
  <2> QED BY <1>4, <1>7, <2>2, <2>3, <2>4, <2>5, <2>6 DEF NumbersIfSound, r, n, year, before
<1> QED
  BY <1>1, <1>6, <1>10, <1>11

\* What the end of a run does to the climate model: it is run to its end, on
\* a new core if it is there already.
LEMMA EndRunEffect ==
    ASSUME NEW h \in Hector, NEW failed \in Failures, NumbersIfSound(h)
    PROVE  LET r == RunClimateAll(h, failed) IN
           /\ r \in Hector /\ NumbersIfSound(r) /\ r.table = Emitting
           /\ ~r.failed => r.lastYear = HectorEnd
           /\ h.lastYear < HectorEnd /\ ~r.failed
              => ~h.failed /\ \A y \in Years : y <= h.lastYear => r.conc[y] = h.conc[y]
           /\ h.lastYear < HectorEnd /\ ~r.failed /\ h.sound
              => \A y \in h.lastYear + 1..HectorEnd : r.conc[y] = "current"
           /\ h.lastYear = HectorEnd /\ HectorEnd = EndYear /\ ~r.failed
              => CurrentTo(r, HectorEnd)
<1> DEFINE s == SetAllEmissions(h)
           k == ResetPeriod(HectorEnd)
           e == Reset(s, k)
           r == RunClimateAll(h, failed)
<1>1. /\ HectorEnd \in Nat /\ EndYear \in Nat /\ 1 <= HectorEnd /\ HectorEnd \in Years
      /\ Years = 0..HectorEnd /\ MaxPer - 1 \in Periods /\ MaxPer - 1 > 0 /\ MaxPer \in Nat
      /\ EndYear = PerToYr(MaxPer - 1) /\ EndYear <= HectorEnd
  BY LastPeriod, TimeAssumption DEF Years
<1>2. k \in Nat /\ (HectorEnd = EndYear => k = MaxPer - 1)
  <2>1. HectorEnd = EndYear => k = MaxPer - 1
    BY <1>1, ResetForPeriod
  <2>2. HectorEnd # EndYear => k = 1 \/ k = MaxPer
    BY <1>1 DEF ResetPeriod
  <2> QED BY <1>1, <2>1, <2>2
<1> HIDE DEF k
<1>3. Emitting \subseteq Periods /\ Emitting = {p \in Periods : ~Historical(p)}
  BY DEF Emitting
<1>4. /\ s \in Hector /\ s.table = Emitting /\ s.core = Emitting /\ s.luc = Emitting
      /\ s.lastYear = h.lastYear /\ s.failed = h.failed /\ s.sound = h.sound /\ s.conc = h.conc
      /\ h.lastYear \in 0..HectorEnd
  BY <1>1, <1>3 DEF SetAllEmissions, Hector
<1> HIDE DEF s
<1>5. /\ e \in Hector
      /\ e.lastYear = 0 /\ ~e.failed /\ e.sound
      /\ e.conc = s.conc /\ e.table = Emitting
      /\ k \in Periods => \A q \in Emitting : q <= k => q \in e.core /\ q \in e.luc
  BY <1>2, <1>4, ResetEffect
<1> HIDE DEF e
<1>6. r = RunYears(IF HectorEnd <= h.lastYear THEN e ELSE s, HectorEnd, failed)
  BY <1>4 DEF RunClimateAll, RunModel, s, e, k
<1> HIDE DEF r
<1>7. CASE h.lastYear = HectorEnd
  <2>1. r = RunYears(e, HectorEnd, failed) /\ e.lastYear < HectorEnd
    BY <1>1, <1>5, <1>6, <1>7
  <2>2. /\ r \in Hector /\ r.table = Emitting
        /\ ~r.failed => r.lastYear = HectorEnd
        /\ ~r.failed => \A y \in 0 + 1..HectorEnd : r.conc[y] # "nan"
        /\ ~r.failed /\ (\A y \in 0 + 1..HectorEnd : Drivers(y) \subseteq e.core \cap e.luc)
           => \A y \in 0 + 1..HectorEnd : r.conc[y] = "current"
    BY <1>1, <1>5, <2>1, RunYearsEffect
  <2>3. NumbersIfSound(r)
    BY <2>2 DEF NumbersIfSound
  <2>4. ASSUME HectorEnd = EndYear, ~r.failed PROVE CurrentTo(r, HectorEnd)
    <3>1. \A q \in Emitting : q \in e.core /\ q \in e.luc
      <4>1. \A q \in Emitting : q <= k
        BY <1>1, <1>2, <1>3, <2>4 DEF Periods
      <4> QED BY <1>1, <1>2, <1>5, <2>4, <4>1
    <3>2. \A y \in 0 + 1..HectorEnd : Drivers(y) \subseteq e.core \cap e.luc
      BY <1>1, <3>1, DriversEmit
    <3> QED BY <2>2, <2>4, <3>2 DEF CurrentTo
  <2> QED BY <1>1, <1>7, <2>2, <2>3, <2>4 DEF r
<1>8. CASE h.lastYear < HectorEnd
  <2>1. r = RunYears(s, HectorEnd, failed) /\ s.lastYear < HectorEnd
    BY <1>1, <1>4, <1>6, <1>8
  <2>2. /\ r \in Hector /\ r.table = Emitting
        /\ ~r.failed => ~s.failed /\ r.lastYear = HectorEnd
        /\ \A y \in Years : y <= s.lastYear => r.conc[y] = s.conc[y]
        /\ ~r.failed => \A y \in s.lastYear + 1..HectorEnd : r.conc[y] # "nan"
        /\ ~r.failed /\ s.sound
             /\ (\A y \in s.lastYear + 1..HectorEnd : Drivers(y) \subseteq s.core \cap s.luc)
           => \A y \in s.lastYear + 1..HectorEnd : r.conc[y] = "current"
    BY <1>1, <1>4, <2>1, RunYearsEffect
  <2>3. ASSUME ~r.failed PROVE \A y \in 1..r.lastYear : r.conc[y] # "nan"
    <3> TAKE y \in 1..r.lastYear
    <3>1. y \in Years /\ y >= 1 /\ r.lastYear = HectorEnd
      BY <1>1, <2>2, <2>3
    <3>2. CASE y <= h.lastYear
      BY <1>1, <1>4, <2>2, <2>3, <3>1, <3>2 DEF NumbersIfSound
    <3>3. CASE ~(y <= h.lastYear)
      BY <1>1, <1>4, <2>2, <2>3, <3>1, <3>3
    <3> QED BY <3>2, <3>3
  <2>4. \A y \in s.lastYear + 1..HectorEnd : Drivers(y) \subseteq s.core \cap s.luc
    <3>1. \A y \in s.lastYear + 1..HectorEnd : y \in Nat
      BY <1>1, <1>4
    <3> QED BY <1>4, <3>1, DriversEmit
  <2> QED BY <1>1, <1>4, <1>8, <2>2, <2>3, <2>4 DEF NumbersIfSound, r
<1> QED
  BY <1>1, <1>4, <1>7, <1>8

-----------------------------------------------------------------------------
(* The types of a scenario, and the numbers of its climate model *)

ScenarioInv == ScenarioTypeOK /\ NumbersIfSound(hector)

\* Numbers of use below: a period is a number, and no mark of a run.
LEMMA PeriodNumbers ==
    /\ Periods \subseteq Nat /\ 0 \in Periods /\ MaxPer \in Nat /\ MaxPer > 1
    /\ Periods = 0..MaxPer-1 /\ RunAllPeriods = -1 /\ Idle = -2
    /\ RunAllPeriods \notin Periods /\ Idle \notin Periods
BY TimeAssumption DEF Periods, RunAllPeriods, Idle

\* A scenario starts with a climate model that was not run yet.
LEMMA ScenarioInitInv ==
    ASSUME ScenarioInit
    PROVE  ScenarioInv /\ hector.table = {}
<1> DEFINE h == [lastYear |-> 0, table |-> {}, core |-> {}, luc |-> {},
                 sound |-> TRUE, failed |-> FALSE,
                 conc |-> [y \in Years |-> "outdated"]]
<1>1. h \in Hector
  BY LastPeriod DEF Hector, Years
<1>2. hector = Reset(h, 1)
  BY DEF ScenarioInit, InitHector
<1>3. h.table = {}
  OBVIOUS
<1> HIDE DEF h
<1>4. hector \in Hector /\ hector.lastYear = 0 /\ hector.table = {}
  BY <1>1, <1>2, <1>3, ResetEffect
<1>5. NumbersIfSound(hector)
  BY <1>4 DEF NumbersIfSound
<1> QED
  BY <1>4, <1>5, PeriodNumbers DEF ScenarioInit, ScenarioInv, ScenarioTypeOK

\* The start of a run.
LEMMA BeginRunInv ==
    ASSUME ScenarioInv, NEW p \in Periods \cup {RunAllPeriods}, NEW first, NEW invalidated,
           BeginRun(p, first, invalidated)
    PROVE  ScenarioInv' /\ Running'
<1>1. p # Idle /\ next' \in 0..MaxPer
  BY PeriodNumbers DEF BeginRun
<1>2. hector' = hector /\ hector' \in Hector /\ NumbersIfSound(hector')
  BY DEF BeginRun, ScenarioInv, ScenarioTypeOK
<1> QED
  BY <1>1, <1>2 DEF ScenarioInv, ScenarioTypeOK, BeginRun, Running, NumbersIfSound

\* The next period that is due is one of the scenario.
LEMMA DueIsPeriod ==
    ASSUME ScenarioTypeOK, Running
    PROVE  /\ Due \subseteq Periods
           /\ Due # {} => Min(Due) \in Due /\ \A q \in Due : Min(Due) <= q
<1>1. Due \subseteq Periods
  BY PeriodNumbers DEF ScenarioTypeOK, Running, Due
<1>2. ASSUME Due # {} PROVE \E m \in Due : \A q \in Due : m <= q
  BY <1>1, <1>2, PeriodNumbers, LeastNumber
<1>3. ASSUME Due # {} PROVE Min(Due) \in Due /\ \A q \in Due : Min(Due) <= q
  <2> DEFINE D == Due
  <2>1. D \subseteq Int
    BY <1>1, PeriodNumbers
  <2>2. PICK m \in D : \A q \in D : m <= q
    BY <1>2, <1>3
  <2> HIDE DEF D
  <2>3. Min(D) = m
    BY <2>1, <2>2, MinIs
  <2> QED BY <2>2, <2>3 DEF D
<1> QED
  BY <1>1, <1>3

\* A period of a run.
LEMMA CalculatePeriodInv ==
    ASSUME ScenarioInv, NEW p \in Periods, NEW success \in BOOLEAN, NEW failed \in Failures,
           CalculatePeriod(p, success, failed)
    PROVE  ScenarioInv'
<1> DEFINE n == NewResults(hector, p)
<1>1. hector \in Hector /\ NumbersIfSound(hector)
  BY DEF ScenarioInv, ScenarioTypeOK
<1>2. n \in Hector /\ NumbersIfSound(n)
  <2>1. /\ n \in Hector /\ n.lastYear = hector.lastYear /\ n.failed = hector.failed
        /\ \A y \in Years : n.conc[y] = "nan" <=> hector.conc[y] = "nan"
    BY <1>1, NewResultsEffect
  <2>2. 1..hector.lastYear \subseteq Years
    BY <1>1, LastPeriod DEF Hector, Years
  <2> HIDE DEF n
  <2> QED BY <1>1, <2>1, <2>2 DEF NumbersIfSound
<1>3. hector' \in Hector /\ NumbersIfSound(hector')
  <2>1. CASE ~success
    BY <1>2, <2>1 DEF CalculatePeriod
  <2>2. CASE success /\ p = 0
    BY <1>2, <2>2 DEF CalculatePeriod, RunClimatePeriod
  <2>3. CASE success /\ p > 0
    <3>1. hector' = RunClimatePeriod(n, p, failed)
      BY <2>3 DEF CalculatePeriod
    <3> QED BY <1>1, <2>3, <3>1, PeriodRunEffect
  <2> QED BY <2>1, <2>2, <2>3, PeriodNumbers
<1>4. /\ valid' \subseteq Periods /\ unsolved' \subseteq Periods
      /\ solved' \subseteq Periods /\ current' \subseteq Periods
      /\ goal' \in {Idle, RunAllPeriods} \cup Periods
  BY DEF ScenarioInv, ScenarioTypeOK, CalculatePeriod
<1>5. next' \in 0..MaxPer
  <2>1. next' = p + 1
    BY DEF CalculatePeriod
  <2> QED BY <2>1, PeriodNumbers
<1> QED
  BY <1>3, <1>4, <1>5 DEF ScenarioInv, ScenarioTypeOK, NumbersIfSound

\* The end of a run.
LEMMA ScenarioEndInv ==
    ASSUME ScenarioInv, NEW failed \in Failures, EndRun(failed)
    PROVE  ScenarioInv'
<1>1. hector \in Hector /\ NumbersIfSound(hector)
  BY DEF ScenarioInv, ScenarioTypeOK
<1>2. hector' \in Hector /\ NumbersIfSound(hector')
  BY <1>1, EndRunEffect DEF EndRun
<1> QED
  BY <1>2 DEF ScenarioInv, ScenarioTypeOK, EndRun, NumbersIfSound

\* Every step of a run keeps the types.
LEMMA ScenarioNextInv ==
    ASSUME ScenarioInv, ScenarioNext
    PROVE  ScenarioInv'
BY CalculatePeriodInv, ScenarioEndInv DEF ScenarioNext

=============================================================================
