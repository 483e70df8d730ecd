---------------------------- MODULE HectorModel ----------------------------
(***************************************************************************)
(* The climate component: the emissions GCAM stored for each period, the   *)
(* core they were sent to, and the yearly results read off the core.       *)
(* Periods and years are those of Modeltime with one length of time step.  *)
(*                                                                         *)
(* An emission, an input of the core or a yearly result is represented by  *)
(* whether it still belongs to the results its period has now.             *)
(***************************************************************************)
EXTENDS Integers

CONSTANTS MaxPer,          \* Modeltime::getmaxper
          Step,            \* years from one period to the next
          SwitchYear,      \* mEmissionsSwitchYear, the last historical year
          HectorEnd,       \* end date of the core
          FailYears        \* bound: the years in which a core may fail

Periods == 0..MaxPer-1
EndYear == (MaxPer - 1) * Step
Years == 0..HectorEnd

ASSUME TimeAssumption ==
    /\ MaxPer \in Nat /\ MaxPer > 1
    /\ Step \in Nat \ {0}
    /\ SwitchYear \in 0..EndYear
    /\ HectorEnd \in Nat /\ HectorEnd >= EndYear
    /\ FailYears \subseteq Years

\* The year of a period; 0 for what is no period.
PerToYr(p) == IF p \in Periods THEN p * Step ELSE 0

\* The period a year falls in, which is the next one between two periods.
YrToPer(y) == IF y \in 0..EndYear THEN (y + Step - 1) \div Step ELSE 0

\* Emissions up to the switch year are read from the core's own input.
Historical(p) == PerToYr(p) <= SwitchYear

\* The periods whose emissions determine what the core does in year y.
Drivers(y) ==
    LET p == IF y > EndYear THEN MaxPer - 1 ELSE YrToPer(y)
    IN {q \in {p - 1, p} : ~Historical(q)}

(***************************************************************************)
(* The state of the component, a record h:                                 *)
(*   lastYear  year the core has been run to (mLastYear)                   *)
(*   table     periods whose stored emissions are those of their results   *)
(*             (mEmissionsTable)                                           *)
(*   core      the same for what was sent to the present core              *)
(*   luc       the same for emissions from land use change                 *)
(*   sound     whether the core has run on such emissions only             *)
(*   failed    whether this core has thrown an exception                   *)
(*   conc      what the yearly results are (mConcTable and the others)     *)
(***************************************************************************)
Hector == [lastYear : Years, table : SUBSET Periods, core : SUBSET Periods,
           luc : SUBSET Periods, sound : BOOLEAN, failed : BOOLEAN,
           conc : [Years -> {"current", "outdated", "nan"}]]

\* Period p has been calculated again: what was made of its earlier
\* results is outdated.
NewResults(h, p) ==
    IF Historical(p) THEN h
    ELSE [h EXCEPT !.table = @ \ {p}, !.core = @ \ {p}, !.luc = @ \ {p},
                   !.sound = @ /\ h.lastYear <= PerToYr(p - 1),
                   !.conc = [y \in Years |->
                                IF y > PerToYr(p - 1) /\ @[y] = "current"
                                THEN "outdated" ELSE @[y]]]

\* setEmissions and setLUCEmissions of World::setEmissions. The core takes
\* the value, which changes nothing of the years it has been through.
SetEmissions(h, p) ==
    IF Historical(p) THEN h
    ELSE [h EXCEPT !.table = @ \cup {p}, !.core = @ \cup {p}, !.luc = @ \cup {p}]

\* Mutant: the period itself is not replayed.
ResetBefore(h, p) ==
    [h EXCEPT !.lastYear = 0,
              !.core = {q \in h.table : q < p},
              !.luc = {q \in h.table : PerToYr(q) <= PerToYr(p)},
              !.sound = TRUE,
              !.failed = FALSE]

\* HectorModel::reset: a new core, at the start year, is sent the stored
\* emissions up to a period. The land use emissions are replayed by year.
Reset(h, p) ==
    [h EXCEPT !.lastYear = 0,
              !.core = {q \in h.table : q <= p},
              !.luc = {q \in h.table : PerToYr(q) <= PerToYr(p)},
              !.sound = TRUE,
              !.failed = FALSE]

\* The years after h.lastYear up to year, the core failing in year failed.
RunYears(h, year, failed) ==
    LET ran == (h.lastYear + 1)..year
        Driven(y) == Drivers(y) \subseteq h.core \cap h.luc
        SoundTo(y) == h.sound /\ \A z \in (h.lastYear + 1)..y : Driven(z)
    IN [h EXCEPT !.lastYear = IF failed \in ran THEN failed - 1 ELSE year,
                 !.sound = SoundTo(year) /\ failed \notin ran,
                 !.failed = @ \/ failed \in ran,
                 !.conc = [y \in Years |->
                              CASE y \notin ran -> @[y]
                                [] y \in ran /\ failed \in ran /\ y >= failed -> "nan"
                                [] OTHER -> IF SoundTo(y) THEN "current" ELSE "outdated"]]

\* HectorModel::runModel(year): starts again on a new core if the year has
\* been passed.
ResetPeriod(year) ==
    CASE year <= PerToYr(1) -> 1
      [] year > EndYear     -> MaxPer
      [] OTHER              -> YrToPer(year)

RunModel(h, year, failed) ==
    RunYears(IF year <= h.lastYear THEN Reset(h, ResetPeriod(year)) ELSE h,
             year, failed)

\* World::runClimateModel(p), for a period that was solved.
RunClimatePeriod(h, p, failed) ==
    IF p > 0 THEN RunModel(SetEmissions(h, p), PerToYr(p), failed) ELSE h

\* World::runClimateModel(), at the end of a run: all the emissions again,
\* then HectorModel::runModel to the end date.
SetAllEmissions(h) ==
    LET sent == {p \in Periods : ~Historical(p)}
    IN [h EXCEPT !.table = sent, !.core = sent, !.luc = sent]

RunClimateAll(h, failed) == RunModel(SetAllEmissions(h), HectorEnd, failed)

\* HectorModel::completeInit, with nothing calculated yet.
InitHector ==
    Reset([lastYear |-> 0, table |-> {}, core |-> {}, luc |-> {},
           sound |-> TRUE, failed |-> FALSE,
           conc |-> [y \in Years |-> "outdated"]], 1)

=============================================================================
