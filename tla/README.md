# A TLA+ model of GCAM-CDR

GCAM-CDR (`src/cvs/objects`) is an integrated assessment model: regions with
sectors, resources, land and final demands trade on markets, and for each model
period a solver looks for the prices at which the markets clear. This directory
holds TLA+ modules for the parts of it that are control rather than formulas,
TLC configurations that check them on small instances, and proofs for TLAPS.

## The system

| part | state | operations | who calls whom |
|---|---|---|---|
| `MarketDependencyFinder` (containers) | dependency items, price and demand vertices, out edges, global ordering, entry points and partial ordering of each market | `addDependency`, `resolveActivityToDependency`, `createOrdering` (with `createTrialsForItem`, `findStronglyConnected`, `markCycles`), `getOrdering`, `getFlowGraph` | every sector, technology, policy and demand registers in `completeInit`; the marketplace is told to create trial markets; world and solvers ask for orderings |
| Parallel `World::calc` (parallel, containers) | a TBB flow graph, reused for each call | `makeTBBFlowGraph`, `World::calc` | scenario and solvers trigger it; activities run on worker threads |
| `World`, regions | regions, climate model, calculation counter | `initCalc`, `calc`, `postCalc`, `runClimateModel` | scenario |
| `Scenario` | valid periods, unsolved periods, solvers per period | `run`, `calculatePeriod`, `invalidatePeriod` | runners; calls marketplace, world, solver, state variables in a fixed order |
| `HectorModel` (climate) | stored emissions, a core and the year it has been run to, yearly results | `setEmissions`, `reset`, `runModel` | world, after each solved period and at the end of a run; the target finder reads its results |
| Runners | list of components and file sets, unsolved names | `setupScenarios`, `runScenarios` | `main` |
| Target finder | tax path, trial, period of the walk | `solveInitialTarget`, `solveFutureTarget`, `skipFuturePeriod`, `getNextValue` | runs single periods of a scenario again and again |
| `Marketplace`, markets | per market and period a market of one of the types, price, supply, demand | `createMarket`, `createLinkedMarket`, `resetToPriceMarket`, `addToSupply`, `addToDemand`, `nullSuppliesAndDemands`, `init_to_last` | activities (from several threads), solvers |
| Solvers and their utilities | brackets, Jacobian, solution info | `solve`, `bracket`, `fdjac`, `LogEDFun` | scenario; call `World::calc` whole or in part |
| `ManageStateVariables` | a copy of all state variables for each thread | `copyState`, `setPartialDeriv`, restart files | scenario, `LogEDFun`, `fdjac` |
| CDR demands, technologies, resources, land, policies | what is carried over between periods | `initCalc`, `calc`, `postCalc` | regions |
| Emissions, reporting, configuration | - | numeric or pure I/O | - |

What is hard in it:

* The graph of calculations is restructured while it is being sorted. Counts,
  edges, the set of cycle vertices and the entry points of the markets have to
  stay consistent through every split, in every combination of cycles.
* The sorted graph is then run in parallel, and again for each call, with a
  count at each node as its only memory.
* Things that outlive the step which made them: the validity of periods, taxes,
  the emissions a climate core was sent, a Jacobian, the stock of unsatisfied
  demand. Each is right only as long as what it was made from has not changed.
* Threads that calculate at the same time on one state (totals of the markets)
  or on copies of it (columns of the Jacobian).

`PROJECT.json` lists the places ("hazards") with the properties that cover them.

What makes each part correct: the dependency finder must place every
calculation once, after all it depends on, and must recalculate for a market
everything its price reaches; the parallel calculation must do what the serial
loop does; the scenario must never treat a period as valid whose inputs have
changed; the target finder must end with taxes that meet the target or say it
failed; supplies and demands must not depend on the order of the threads;
columns of the Jacobian must not see each other; the Jacobian, the guess and the
state of the model must belong together when the solver combines them; demand
that is carried over between periods must not be lost or doubled.

## Modules

| module | models |
|---|---|
| `CalcOrdering` | what `createOrdering` promises: a list that only grows, in dependency order, while the graph is restructured below it |
| `MarketDependencyFinder` | `market_dependency_finder.cpp`, complete |
| `MCDependency` | five instances: the configurations the runs check |
| `CalcOrdering_proofs`, `MarketDependencyFinder_proofs` | theorems about these |
| `WorldCalc` | what a caller of `World::calc` relies on |
| `FlowGraph` | `makeTBBFlowGraph` and the parallel `World::calc` |
| `MCFlowGraph` | instances |
| `FlowGraph_proofs` | theorems about `FlowGraph`, and that it implements `WorldCalc` |
| `HectorModel` | emissions, cores and yearly results of the climate component, and `World`'s calls of it (operators on a record, no specification of its own) |
| `Scenario` | `Scenario::run`, `calculatePeriod`, `invalidatePeriod`, with `HectorModel`; actions for its callers |
| `PolicyTargetRunner`, `MCTargetRunner` | the target finder, composed with `Scenario` |
| `CDRFinalDemand`, `MCFinalDemand` | the demand for carbon dioxide removal over the periods of runs, composed with `Scenario` |
| `Scenario_proofs` | lemmas about `Scenario` and `HectorModel`, for the two below |
| `PolicyTargetRunner_proofs`, `CDRFinalDemand_proofs` | theorems about these |
| `LogBroyden`, `LogBroyden_proofs` | the solver component with its preconditioner and line searches, and theorems |
| `Derivatives`, `MCDerivatives` | full calculations and columns of the Jacobian by several threads |
| `Derivatives_proofs` | theorems: slots, totals, columns |

### MarketDependencyFinder

An *item* is a `DependencyItem`, a *vertex* the number `mUID` of a
`CalcVertex`. All `mOutEdges` together are the set `edges`; a "kind" in an edge
keeps apart what would be two entries of one vector. The map
`numDependencies` is a function on the vertices not cleared yet, so "still in
the map" is membership in its domain, as `find` and `erase` in the code have it.
`mMarketsToDep` is split into `mImpliedVertices` and `mCalcList`; the demand
market that `resetToPriceMarket` creates has an entry of its own.

Actions: `AddDependency` and `ResolveActivityToDependency` are the calls the
objects make in `completeInit`, in any order that the code allows (a region
completes its sectors before the final demands of the same name; the
declarations a configuration always makes are in `Required`). `ConnectGraph` is
`createOrdering` up to its connected graph, in one step because nothing runs
beside it. `SplitSelfDependent` is one round of the loop over self dependent
items; `StartPass`, `ListRemoved` are the two loops of the topological sort;
`FindCycles` marks cycles or reuses the marks of an earlier search,
`BreakCycle` picks an item and creates its trial markets, `GiveUp` is the
`exit( 1 )`. Program ends (`abort`, an empty vector read) are phases of their own.
`GetOrdering` is `getOrdering` for a market.

Left abstract: `markCycles` counts how often each vertex is visited. The model
keeps which vertices have visits at all, and that a vertex which only leads to a
cycle has fewer than one on it; among the rest any choice is allowed, so the
properties hold for every choice the counts may make. The cap of 1000 visits, at
which `markCycles` stops following edges (791-793), is left out: a graph with so
many cycles may be counted otherwise.
A partial ordering is kept as a set: the list is that set in the order of the
global ordering. The marketplace's answer is `Normal`: markets whose period 0
market is NORMAL and whose period 1 is not solvable, while `simulActive` is on.

### FlowGraph

Vertices are numbered by their place in the global ordering, so edges lead
upwards; that is what the finder's `DependenciesFirst` provides. TBB is
external: a `continue_node` counts messages and starts a task when it has one
from each predecessor, the broadcast node feeds the nodes nobody feeds, and
`wait_for_all` comes back when nothing is on its way or running. At most
`MaxParallelism` activities run at a time. A list given to `World::calc` only
changes the counter, as in the code.

### HectorModel and Scenario

Nothing in the control of these depends on the size of an emission. What can go
wrong is that a result is combined with one it does not belong to, so each value
is represented by that: `table`, `core` and `luc` are the periods whose stored
emissions, emissions sent to the present core and land use emissions are still
those of the period's present results, and a yearly result is `"current"`,
`"outdated"` or `"nan"`. `NewResults` is what recalculating a period does to all
of them. `SetEmissions`, `Reset`, `RunModel` and `RunClimateAll` are the methods,
the branches of `runModel` on the year included. A core may throw in a year of
`FailYears`; the years from there on are then not numbers.

In `Scenario`, `BeginRun` is what a caller does before and at the call (set
taxes from a period on, invalidate periods), `CalculatePeriod` is
`calculatePeriod` of the next period due with its climate run, `EndRun` the end.
Whether a period solves is left open. `solved` and `current` are history: the
periods whose latest results cleared the markets, and those calculated with the
taxes now set and on results of the period before that still stand.

### PolicyTargetRunner

`stage` is where `runScenarios` is: the run without a tax, the initial search,
the walk, and in it a search for one period (`solveFutureTarget`) or for one
some periods ahead (`skipFuturePeriod`). `Trial` and the calls of `Scenario`
alternate: nothing else moves while a run is under way. The secant search is
numeric: which trial hits the target is left open, but it can only be read from
a year whose result is a number. The first period of the walk is unsigned
arithmetic read as an `int`: `WalkStart` wraps at `WordSize`.

### CDRFinalDemand

The three demand sources of one final demand and the cap on their sum. Carbon
prices and the capacity of the removal sector are chosen freely for each
calculation of a period; the technology for unsatisfied demand, an input of the
configuration, is modelled as producing what is beyond the capacity. Fractions
are in halves, and may be more than the whole: `completeInit` puts right only what is
below nothing. The initial stock is any of `Leftovers`, numbers of either sign,
because the constructor leaves it uninitialised. So the stock, and what is asked
for from it, may be negative, and then `setFinalDemand` brings no demand to the
market if the sum of the sources is below nothing. `start`, `asked`, `met`,
`capped` and `made` are history; `made` counts what is left out in that way.

### LogBroyden

Excess demand is a function nothing is assumed of, so its value at prices `p` is
represented by `p` and every test of a value may go either way. What is left is
which prices each piece of the solver's state belongs to: the model itself
(`world`), the guess `x`, its value `fx`, and the three that the latest Jacobian
was made from (`jac`). Prices of one market are a ring longer than the search of
the preconditioner, so a price that was tried never equals the first by chance.

### Derivatives

Here values matter. `mem` holds the state in slots as `ManageStateVariables`
does, `local` the slot of each thread; adding to a total is two steps, so that
the mutex of the market has something to protect. `Evaluate` is a full
calculation in which threads take any activity whose input is there, `FDJac`
the columns: each a `copyState`, one changed price, and the activities this
price reaches, adding only differences. The instance has activities that depend
on a price through others, one that adds a product (so that derivatives are not
constants) and one that is silent about results which are not positive.

## Runs

| run | instance | question |
|---|---|---|
| `cycles` | four sectors: the six optional dependencies among three of them, two with a fourth, one self dependence; 882,520 states | each calculation listed once and after its dependencies; no split fails; trial markets only on cycles; types |
| `regional_markets` | two regions, a solved crop market with the land allocator, a shared resource market, a tax; 291,776 states | solved prices reach all who depend on them; a dependency on one region counts for all |
| `pass_through` | a pass through sector with fixed output, self dependences, an end use sector and its final demand; 153,456 states | counts stay exact through every restructuring; fixed outputs come first; the finder implements `CalcOrdering` |
| `backup` | unbreakable dependencies of intermittent technologies and of a linked policy; 6,168 states, with fairness | `createOrdering` ends, and gives up only for good reason |
| `self_dependent_end_use` | an end use sector with trial markets | *violated*, see below |
| `parallel_calc` | all 64 graphs on four vertices, two threads, two calls, each with or without a list of one calculation; 24,040 states, with fairness | each activity once per call, after its dependencies; calls return; implements `WorldCalc` |
| `stabilization` | six periods of two years, one historical year, a flag for the target year, taxes from year 4, two periods of look back, skipping from period 3 and from the last, three iterations, a core that may fail in years 4 and 7; 63,318 states, with fairness | success stands for one tax path, its results, all of them solved, and the climate they lead to; the search ends |
| `early_target` | taxes from year 2, target year 4, four periods of look back | *violated*, see below |
| `broyden` | two markets, up to two prices tried for each, four iterations, two uses of a Jacobian, two calls; 289,424 states, with fairness | model, guess, value and Jacobian belong together wherever they are combined; calls return |
| `columns` | two threads, three markets, five activities, two prices, two full calculations with a Jacobian after each; 211,109 states, with fairness | totals and columns are exact in every interleaving, slots suffice and are not shared; evaluations and Jacobians end |
| `accumulate` | four periods of one run, all choices of four fractions (one of them not allowed, one above the whole), three carbon prices, two capacities, a cap that is reached, a stock of -3 or 3 at first; 1,522,420 states | demand is neither lost nor doubled; no more is taken from the stock than it holds; the stock is the documented one |
| `accumulate_reruns` | the same with no stock at first, two runs | *violated*, see below |

Declarations are optional within an instance: TLC explores every subset of them
in every order, so one run stands for some hundred configurations. Three
sectors are enough for overlapping cycles of two and three with every choice of
the item that is split; the fourth makes vertices that wait for a cycle without
being on it, and cycles left over after the first split. Two calls show what one
leaves behind for the next, and with four vertices a node can have three
predecessors. The bounds `MaxCalls`, `Size` and `MaxParallelism` are for TLC
only; the proofs do without them.

In `stabilization`, six periods leave room for the untaxed, the historical, the
looked back at, the skipped and the last; a two year step makes target years
inside a period, `HectorEnd` years after the last. Three iterations are the
first trial, one more and a success within the limit. In `broyden` four
iterations hold two uses of a Jacobian, its replacement and a failed search
before and after; two calls show what the first leaves to the second. In
`columns` three columns for two threads make one thread use its slot twice, and
the second Jacobian finds the slots as the first left them. In `accumulate`,
demand of the first period can be put off until the last, and a fraction of one and
a half takes the stock below nothing in time for two more periods to see it.

Operators introduced by a comment "Mutant:" are not part of a specification.
Each one is a definition with a plausible mistake; put in the place of the
original it makes the property named for it in `PROJECT.json` fail, which shows
that the property depends on that line of the code.

Where the system may stop, either a `Stop` action is the stuttering of the
finished program, or (the runs of `PolicyTargetRunner`, `LogBroyden` and
`CDRFinalDemand`, which are function calls that return) deadlock is not checked. In `columns` it
is: the mutexes of the markets and the wait for the threads must not block for
good.

### Fairness

`createOrdering` is one function call in one thread: nothing but its own
failure can stop it, hence weak fairness of its steps as a whole. In `FlowGraph`
weak fairness of the steps of TBB as a whole says that some worker
goes on as long as there is work. Nothing is assumed about which one.
`PolicyTargetRunner` and `LogBroyden` are one thread and every run or evaluation
they wait for returns: weak fairness of `Next`. That they end is due to their
counts of iterations alone; nothing is assumed of the numbers. In `Derivatives`
each worker thread that can take a step does (weak fairness by thread), and so
does the caller that waits for them; that the solver evaluates again is not
assumed.

### Disagreements

* `self_dependent_end_use`: for a sector that asks for trial markets and that
  nothing depends on, `createOrdering` has added the fold back edge from its
  price to its demand; `createTrialsForItem` forgets to count it when it resets
  the demand's count, then decrements for it, and the demand is placed before
  its price, against the comment at `market_dependency_finder.cpp:886-887`.
  `EndUseSplit` excludes this case from `CountsExact`, `DependenciesFirst` and
  `GivesUpOnlyOnUnbreakable`; the other properties are checked with it.
* `accumulate_reruns`: `docs/CDR_policies.md:184` says that each period the
  unsatisfied demand of the period before is added to the stock. The stock is
  kept over runs and periods (`demand_source_accumulated.cpp`, `initCalc`), so a
  period that is calculated again, as in every trial of the target finder, adds
  the same unsatisfied demand once more. `accumulate` shows that one run is right.
* `early_target`: the comment at `policy_target_runner.cpp:299` says the walk does
  not go before the first tax period. Line 300 subtracts the look back from an
  unsigned period; with a target year early enough that fewer periods lie before
  it, the result wraps, the max with the first tax period lets it through, and
  the walk starts at period -1, where `mNumForwardLooking` is read next. `WalkIsTaxed`
  proves `WalkAfterFirstTax` for a look back that fits before the first tax.

Other places where the code and its documentation or intent part, met while
reading and not checked by a run of their own:

* `demand_source_accumulated.cpp:174` puts right a fraction below nothing, but not
  one above the whole. With that the stock becomes negative (212-213), and the
  source takes away from the demand of the others in later periods. The
  constructor (44-49) leaves the stock uninitialised, so it may be negative, or no
  number, from the start. `NothingBorrowed` is stated for fractions up to the whole and a
  stock that is not negative at first; nothing else about `CDRFinalDemand` needs that.
* `policy_target_runner.cpp:462`: a target found in the last iteration allowed
  counts as the limit reached. Line 724 logs "Target value was found" when it was
  not. `solveFutureTarget` does not test its trial for being a number, as the
  other two searches do.
* After a core has failed, the next `runModel` without a reset goes on with it
  (`ClimateMatchesResults` excludes it); `reset( maxper )` for an end date beyond
  the model reads the emissions of a period that does not exist.
* `jacobian-precondition.cpp:157-172` gives a market its old price back without
  calculating the model again; `fdjac.cpp:88` is documented to receive `F(x)`.
  `JacobianTrusted` states what holds.
* `logbroyden.hpp:127-128` says that without reuse of the Jacobian the
  algorithm is plain Newton-Raphson; with `MaxReuse = 0` `bsolve` gives up after
  the first step it accepts without converging (`logbroyden.cpp:670-708`).
  `GivesUpOnNewJacobian` excludes that setting.
* `demand_source_elastic.cpp:180` says that an elastic source cannot start during
  calibration; the test is `<`, which lets the final calibration period pass.
* The doc of the parallel `World::calc` (`world.cpp:335-338`) promises to skip
  calculations outside `aCalcList`; the code calculates them, as `CalculatedOnce` in
  `parallel_calc` has it for either list. No caller passes a list at present.
* `value.h:230-233`: `getDiff` asserts that it is not used in a copy of the state,
  the warning above it says it is used in one only.
* `docs/CDR_policies.md:193` and `228` give 0.1 as default fraction,
  `demand_source_accumulated.cpp:46` has 0.5; the default market names differ in
  one letter's case.
* `solution_info_set.cpp:168`: `code == UNCHANGED || ADDED` is always true.

Configurations the proofs had to exclude, because TLC finds or an attempted proof
showed that a property of the finder fails in them. The objects of the
repository do not build them; nothing in the finder prevents it.

* An unpriced item that is not solved and both depends on something and has
  dependents (say priced `elec` and `mine`, unpriced `coal`, in a circle):
  `createTrialsForItem` (`market_dependency_finder.cpp:877-884`) lowers counts
  that have been lowered before, and `CountsExact` and `DependenciesFirst` fail.
  The third part of `ConfigurationAssumption` excludes it; resources, which have
  no price vertex, are solved.
* A cycle without an item that may be broken, downstream of a vertex that is on no
  cycle: the vertex has visits, so it may be chosen and given trial markets that break
  nothing (`CyclesBreakable`).
* A dependency on an item of one's own market becomes an edge from a vertex to
  itself. `findStronglyConnected` takes components of one vertex for no cycle, so
  the program gives up although the item may be broken (`OwnMarketFree`).
* A solved market some of whose items may be cut loose and some not: the items share
  dependents only among the latter, so a declared dependency on one of the former
  does not count for the others (`CutTogether`).
* A solved sector that is not a supplier of land use and depends on another solved
  price: it has no edge from its price to its demand, so when the other price
  changes its own price is calculated again and its demand is not
  (`SolvedHaveLand`; two solved sectors `A`, `B` with `B` depending on `A` are enough).

## Proofs

Every safety property of the passing runs is also a theorem, for arbitrary
constants that keep to the assumptions the modules name: `ConstantsAssumption`
and its like say of what type constants are, `ConfigurationAssumption` (finder)
what the objects of the program keep to when they register, `TargetAssumption`
where the first tax and the target year may lie. Hypotheses beyond these are
listed with each theorem. What a theorem excludes that way is either one of the
disagreements above or noted below it.

### CalcOrdering, FlowGraph

* `CalcOrdering_proofs`: the abstract list holds no vertex twice and respects the
  dependencies, however the graph is restructured below it.
* `FlowGraph_proofs`: the inductive invariant `IInv` says that between calls
  nothing is in flight, waiting or half counted, and that during a call each node
  either waits, with `received` equal to the number of edges over which this
  call's message has arrived, or has fired and its task is spawned, running or
  done, exactly one of them. `CalculatedOnce` alone is not inductive: it says
  nothing during a call, and a node with a wrong count breaks it
  only later. From `IInv` follow `CalculatedOnce`, `PredecessorsDone` and,
  step by step, that `FlowGraph` implements `WorldCalc`. That a waiting
  node is not forgotten at `Return` needs the well-foundedness of the ordering:
  the smallest waiting node would have only finished predecessors, so all its
  messages would have arrived.

### MarketDependencyFinder

The inductive invariant `IInv` (theorem `Invariance`) has these parts.

* `RInv`: types, and how vertices are numbered and owned: no number twice,
  prices and demands apart, activities registered and dependencies declared.
* `GraphInv`, `SplitInv`: after any number of splits the graph is what was
  connected at first, less what the split items cut (`Kept`), plus a trial edge
  for each. The edges connected at first are of eight shapes (`ConnectedShape`).
* `Places`, `Stages`, `OrderInv`, `Counts`, `Visits`: where each vertex is, that the
  listed ones are in order, and that a count is the number of edges from what is
  not listed. `Heads`, the demands of split items that nothing depends on, are
  exempt: that is the disagreement `self_dependent_end_use`.

The step that is hard to justify is `BreakCycle`. `createTrialsForItem` resets the
count of a demand and lowers the count of whatever waits for a price, which is
right only as long as neither has been listed, while all the search knows is one
visited vertex of the item. `ChosenWaits` shows it. A price whose demand has been
listed leads to no cycle, since along the edges from price to price the demands
were listed earlier and earlier (`PriceBeforeDemand`); nor does a demand whose
price has been listed (`DemandBeforePrice`). Both go by a measure that falls with
each edge (`Descending`). From `IInv` follow `CountsExact`, `ClearedOnce`,
`DependenciesFirst` and, in behaviours that split no sector nothing depends on
(`NoEndUseSplit`), that the finder implements `CalcOrdering`.

The other theorems add an invariant of their own:

| theorem | property | on top of `IInv` | hypotheses |
|---|---|---|---|
| `FixedOutputsGathered` | `FixedOutputBeforeDemand` | `SharedInv`: unsolved items of one market have the same dependents | `FixedOutputsUnsolved` |
| `DeclarationsRespected` | `DeclaredDependenciesRespected` | `SharedInv` | `CutTogether` |
| `GivesUpRightly` | `GivesUpOnlyOnUnbreakable` | `MarkedInv`: after the first search, what lies on a cycle stays marked; `OffCycles`: a split vertex is on no cycle | `OwnMarketFree` |
| `SplitsOnCycles` | `TrialsOnlyOnCycles` | `MarkedInv` | `OwnMarketFree`, `CyclesBreakable` |
| `SplitsSucceed` | `TrialsSucceed` | `TrialsInv`: the markets reset are those of the items split | the same, `TrialMarkets` |
| `PriceChangesReach` | `PriceChangeReachesDependents` | `EntryInv`: the entry points of a market; `CacheInv` | `DependentsActive`, `SolvedHaveLand` |

* `FixedOutputsUnsolved`: what a fixed output depends on is not solved.
* `CutTogether`: the items of a solved market may all be cut loose or none of them.
* `OwnMarketFree`: no item depends on one of its own market.
* `CyclesBreakable`: when nothing is ready, every cycle goes through an item that may
  be broken.
* `TrialMarkets`: items that ask for trial markets have a price and are not solved, and
  each that may be split has a market of its own of type NORMAL.
* `DependentsActive`: whoever declares a dependency has an activity.
* `SolvedHaveLand`: a solved price that depends on another one has a land allocator
  among its dependents.

`Reach` is a recursive function. Its closure is proved by hand: by the least number
for which a statement fails (`LeastNumber`) that it finds nothing beyond a closed
set, and by counting that after as many steps as there are vertices it has stopped
(`SearchEnds`). That it finds the demand from the price of a dependent
(`PriceReachesDemand`) goes along the final ordering: of the items whose price is
found and whose demand is not, take the one whose price is listed last; it is
split, folds back, has a land allocator, or one of its dependents is a later one.

### Scenario and the target finder

`Scenario_proofs` says what `NewResults`, `SetEmissions`, `Reset`, `RunModel` and
`RunClimateAll` preserve: which yearly results stay current, that a core that has
not failed has only numbers. `PolicyTargetRunner_proofs` has the invariant: while a
run is under way (`RunForStage`), what it has calculated and kept are the periods
below `Reached`, all current and valid, and none between there and its last
period is valid; between runs (`Between`), validity and currency reach to the
same period. None of the properties is inductive without it: `valid` alone
does not say with which taxes a period was calculated, and what the search may
accept depends on the run before having reached its last period. `WalkSettled`
says that periods behind the walk are solved, `ClimateInRun` and `ClimateBetween` up
to which year the climate's results belong to the periods calculated. From
these follow `TargetRunnerTypeOK`, `ResultsMatchTaxes`, `TaxedPeriodsSolved`,
`ClimateMatchesResults`, `PredecessorsCurrent`, `StatusTrusted`, and
`WalkAfterFirstTax` for `NumBackwardsLook <= FirstTaxPeriod` only (see above for what
happens otherwise), all for any number of periods and years, target, look-ahead
and years in which cores fail.

### CDRFinalDemand

`DemandConserved` and `AsDocumented`, for any number of periods, amounts,
fractions and prices of either sign, with one run (`MaxRuns = 1`; two runs break
them, which is the disagreement above); types, and `NothingBorrowed`, for any number
of runs. The types say that fractions, unsatisfied demand and what is met or cut are
not negative; whether the stock is not is a matter of `NothingBorrowed`, which needs
its two hypotheses. `IInv` adds the types of the quantities and `InTurn`: the period about to be calculated is the one after the
latest, which is why the unsatisfied demand that is added to the stock has not
been added before. `DocInv` says that the stock is the one of the documented
recursion for the latest period. That a function satisfying the recursion exists
and does not depend on later periods is shown by the least number again
(`StockExists`, `StockIs`).

### LogBroyden

Type correctness and all four safety properties, for any number of markets,
prices, iterations and reuses. The invariant is `TypeOK` with `Relied`, what each
stage hands to the next: in `precondition` the model is at `x` as long as no search
has failed; in the loop the model, guess and value agree, and a Jacobian of age
zero is one of the present guess.

### Derivatives

For any number of threads, markets and activities whose results are numbers
(`ResultsAreNumbers`):

* `SInv`: a slot is in the queue or with at most one thread, the queue has no slot
  twice and as many as there are threads without one, and none of either is the
  base slot. From it `SlotsSuffice` and `NoSharedSlots`.
* `BInv`: what an activity has calculated is its result at the base prices
  (`ResultsKept`), and a total is the sum over the activities that are done, except
  for what a thread has read and not yet written while it holds the mutex
  (`UnderWay`, `TotalsSoFar`). From it `BaseIsFullCalculation`.
* `CInv`: the slot of a thread was copied from the base (`Copied`), holds the results
  at the changed price for what the thread has got to (`Perturbed`), and the totals
  differ from the base by the sum of the differences added. From it
  `ColumnsExact`.

Sums are `MapThenSumSet` over sets of activities; that a sum over a set with one
more element is the sum plus that element is proved from the definition of the
fold (`SumOf`, `IsIter`), for every finite set.

### Only model-checked

Liveness (`OrderingEnds`, `SearchEnds`, `CallsReturn`, `ComponentReturns`,
`EvaluationsReturn`), which rests on
fairness and ENABLED and is out of this prover's reach; and of course the
violations. The induction theorems of the library cannot be instantiated with the
provers at hand, so every induction above is by a least counterexample.

## Plan

The safety properties are proved. What is left:

1. Hypotheses that could be replaced by weaker ones: `CyclesBreakable` for
   `SplitsSucceed`, where an item downstream of a cycle that cannot be broken may be
   split in vain, which aborts only if it is split twice.
2. Properties the model could still be asked: what the entry of a trial *demand*
   market reaches, in analogy to `PriceChangeReachesDependents`; that a cached
   partial ordering stays what the search would find.

## Not modelled

* Input parsing, configuration, logging, timers and output.
* Hector, MAGICC, the carbon bookkeeping, emissions, production functions,
  demographics, consumers, resources, technologies, land shares: formulas
  without control, external or numeric. Of the regions and sectors only what
  they register with the dependency finder is modelled.
* Numbers of the solvers: the Newton and Broyden steps, the line search's
  choice of a step, `SolverLibrary::bracket` and the bisections, the secant search. A
  faithful model would need real arithmetic, and an integer grid would make
  properties hold or fail by the grid. Totals in `Derivatives` are exact
  integers: the rounding that makes sums depend on the order of threads is not
  modelled.
* Other solver components: each is one numeric search without state beyond a
  call. `Bisecter` is used by no code. `makeTBBFlowGraph` for partial lists
  aborts.
* Restart files and model feedbacks (data read or written by one process),
  `BatchRunner` and the cost curves (loops over runs whose results do not meet),
  the offset source and `NegativeEmissionsFinalDemand` (formulas of one period),
  targets other than a concentration (they differ in the result they read).
* Linked markets and market types by period: of `resetToPriceMarket` only the
  answer the finder acts on is modelled.

`PROJECT.json` has the reason for each component.
